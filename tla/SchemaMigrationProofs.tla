------------------------- MODULE SchemaMigrationProofs -------------------------
(***************************************************************************)
(* Proofs about SchemaMigration, for every number of processes, shards,    *)
(* scripts and operations, whatever a flock conversion gives up and        *)
(* whichever commits lie: the files are right (DurableInv), admission is   *)
(* sound in every process that no sole owner has failed to see             *)
(* (AdmissionInv), and nothing degrades until the code is misled           *)
(* (MigrationInv).                                                         *)
(***************************************************************************)
EXTENDS SchemaMigration, TLAPS

--------------------------------------------------------------------------------
(* Schemas and coordinators.                                               *)

\* A schema and the one after one more script.
LEMMA AppendFacts ==
    ASSUME NEW h \in Schema, NEW a \in Script
    PROVE  /\ Append(h, a) \in Schema /\ Len(h) \in Nat
           /\ Len(Append(h, a)) = Len(h) + 1
           /\ \A i \in 1 .. Len(h) : Append(h, a)[i] = h[i]
           /\ Append(h, a)[Len(h) + 1] = a
BY DEF Schema

\* The parts of a manifest.
LEMMA ManifestParts ==
    ASSUME StateTypeOK
    PROVE  /\ manifest.history \in Schema /\ Generation \in Nat
           /\ manifest.active \in Script \cup {NoScript}
           /\ manifest.next \in 0 .. NumShards /\ manifest.next \in Nat
           /\ manifest.state \in {"Ready", "Migrating", "Degraded"}
           /\ manifest = [history |-> manifest.history, active |-> manifest.active,
                          next |-> manifest.next, state |-> manifest.state]
BY MigrationAssumption DEF StateTypeOK, Manifest, Schema, Generation

\* The parts of a coordinator.
LEMMA CoordinatorParts ==
    ASSUME StateTypeOK, NEW p \in Process
    PROVE  /\ coord[p] \in Coordinator
           /\ coord[p].step \in Step /\ coord[p].opening \in BOOLEAN
           /\ coord[p].script \in Script \cup {NoScript}
           /\ NoCoordinator \in Coordinator /\ NoCoordinator.step = "idle"
BY DEF StateTypeOK, Coordinator, NoCoordinator, Step

\* A coordinator that goes to another step keeps its script.
LEMMA GotoEffect ==
    ASSUME StateTypeOK, NEW p \in Process, NEW step \in Step, Goto(p, step)
    PROVE  /\ coord' \in [Process -> Coordinator]
           /\ coord'[p].step = step /\ coord'[p].opening = coord[p].opening
           /\ coord'[p].script = coord[p].script
           /\ \A q \in Process \ {p} : coord'[q] = coord[q]
BY CoordinatorParts DEF StateTypeOK, Coordinator, Goto

\* A startup that finds an active migration takes its script.
LEMMA AdoptEffect ==
    ASSUME StateTypeOK, NEW p \in Process,
           coord' = [coord EXCEPT ![p].step = "resume", ![p].script = manifest.active]
    PROVE  /\ coord' \in [Process -> Coordinator]
           /\ coord'[p].step = "resume" /\ coord'[p].opening = coord[p].opening
           /\ coord'[p].script = manifest.active
           /\ \A q \in Process \ {p} : coord'[q] = coord[q]
<1> DEFINE local == [coord[p] EXCEPT !.step = "resume", !.script = manifest.active]
<1>1. coord' = [coord EXCEPT ![p] = local]
  BY Zenon
<1>2. coord \in [Process -> Coordinator] /\ coord[p] \in Coordinator
  BY CoordinatorParts DEF StateTypeOK
<1>3. /\ local \in Coordinator /\ local.step = "resume" /\ local.opening = coord[p].opening
      /\ local.script = manifest.active
  BY <1>2, ManifestParts DEF Coordinator, Step, Exclusive
<1> HIDE DEF local
<1>. QED
  BY <1>1, <1>2, <1>3

\* What the end of a coordinator leaves.
LEMMA EndEffect ==
    ASSUME StateTypeOK, NEW p \in Process, NEW state \in GateState, End(p, state)
    PROVE  /\ coord' \in [Process -> Coordinator]
           /\ coord'[p] = NoCoordinator
           /\ \A q \in Process \ {p} : coord'[q] = coord[q]
           /\ lease' \in [Process -> {"none", "shared", "exclusive"}]
           /\ lease'[p] = IF ~ coord[p].opening THEN lease[p]
                          ELSE IF p \in handle THEN "shared" ELSE "none"
           /\ \A q \in Process \ {p} : lease'[q] = lease[q]
           /\ gate' \in [Process -> GateState]
           /\ gate'[p] = IF p \in handle THEN state ELSE "Ready"
           /\ \A q \in Process \ {p} : gate'[q] = gate[q]
           /\ restore' \in [Process -> {"Ready", "Pending"}]
           /\ restore'[p] = "Ready"
           /\ \A q \in Process \ {p} : restore'[q] = restore[q]
           /\ waiter' \in [Process -> Waiter]
           /\ waiter'[p] = "none"
           /\ \A q \in Process \ {p} : waiter'[q] = waiter[q]
           /\ startup' \in Process \cup {NoProcess}
           /\ UNCHANGED <<active, notices, handle, catalog, inspect>>
<1>1. /\ coord' \in [Process -> Coordinator] /\ coord'[p] = NoCoordinator
      /\ \A q \in Process \ {p} : coord'[q] = coord[q]
  BY CoordinatorParts DEF End, StateTypeOK
<1>2. /\ lease' \in [Process -> {"none", "shared", "exclusive"}]
      /\ lease'[p] = IF ~ coord[p].opening THEN lease[p]
                     ELSE IF p \in handle THEN "shared" ELSE "none"
      /\ \A q \in Process \ {p} : lease'[q] = lease[q]
  BY DEF End, StateTypeOK
<1>3. /\ gate' \in [Process -> GateState]
      /\ gate'[p] = IF p \in handle THEN state ELSE "Ready"
      /\ \A q \in Process \ {p} : gate'[q] = gate[q]
  BY DEF End, StateTypeOK, GateTypeOK, GateState
<1>4. /\ restore' \in [Process -> {"Ready", "Pending"}] /\ restore'[p] = "Ready"
      /\ \A q \in Process \ {p} : restore'[q] = restore[q]
      /\ waiter' \in [Process -> Waiter] /\ waiter'[p] = "none"
      /\ \A q \in Process \ {p} : waiter'[q] = waiter[q]
  BY DEF End, StateTypeOK, GateTypeOK, Waiter
<1>5. startup' \in Process \cup {NoProcess}
  BY DEF End, StateTypeOK
<1>. QED
  BY <1>1, <1>2, <1>3, <1>4, <1>5 DEF End

--------------------------------------------------------------------------------
(* Types.                                                                  *)

\* The end of a coordinator keeps the types of all but the files.
LEMMA EndType ==
    ASSUME StateTypeOK, NEW p \in Process, NEW state \in GateState, End(p, state),
           manifest' \in Manifest, shard' \in [Shard -> Schema]
    PROVE  StateTypeOK'
BY EndEffect DEF StateTypeOK, GateTypeOK

\* What a dropped guard leaves in the gate.
LEMMA DropType ==
    ASSUME StateTypeOK, NEW p \in Process
    PROVE  /\ GateAfterDrop(p, restore[p]) \in GateState
           /\ GateAfterDrop(p, "Pending") \in GateState
           /\ gate[p] = "Migrating" => /\ GateAfterDrop(p, restore[p]) = restore[p]
                                       /\ GateAfterDrop(p, "Pending") = "Pending"
BY DEF StateTypeOK, GateTypeOK, GateState, GateAfterDrop

\* Failing and reporting corruption end a coordinator; the manifest differs at most in
\* its integrity.
LEMMA FailureEffect ==
    ASSUME StateTypeOK, NEW p \in Process, Fail(p) \/ Corrupt(p)
    PROVE  /\ \E state \in GateState : End(p, state)
           /\ shard' = shard
           /\ manifest' = manifest \/ manifest' = [manifest EXCEPT !.state = "Degraded"]
           /\ StateTypeOK'
<1>1. /\ \E state \in GateState : End(p, state)
      /\ shard' = shard
      /\ manifest' = manifest \/ manifest' = [manifest EXCEPT !.state = "Degraded"]
  BY DropType DEF Fail, Corrupt, RecordDegraded, storeVars, GateState
<1>2. manifest' \in Manifest /\ shard' \in [Shard -> Schema]
  BY <1>1 DEF StateTypeOK, Manifest
<1>. QED
  BY <1>1, <1>2, EndType

\* A mismatch is one or the other.
LEMMA MismatchFails ==
    ASSUME NEW p, NEW source, NEW bad, Mismatch(p, source, bad)
    PROVE  Fail(p) \/ Corrupt(p)
BY DEF Mismatch

\* Both outcomes of a commit keep the types, if what is committed is a manifest.
LEMMA CommitType ==
    ASSUME StateTypeOK, NEW p \in Process, NEW kind, NEW committed \in Manifest,
           NEW next \in Step, Commit(p, kind, committed, next)
    PROVE  StateTypeOK'
<1>1. shard' \in [Shard -> Schema] /\ manifest' \in Manifest
  BY DEF Commit, StateTypeOK
<1>2. CASE End(p, GateAfterDrop(p, "Pending"))
  BY <1>1, <1>2, EndType, DropType
<1>3. CASE /\ Goto(p, next) /\ restore' = [restore EXCEPT ![p] = "Pending"]
           /\ UNCHANGED <<gate, active, notices, waiter, processVars, inspect>>
  BY <1>1, <1>3, GotoEffect DEF StateTypeOK, GateTypeOK, processVars
<1>. QED
  BY <1>2, <1>3 DEF Commit

\* The schema of the migration under way.
LEMMA TargetFacts ==
    ASSUME StateTypeOK, manifest.active # NoScript
    PROVE  /\ Target \in Schema /\ Len(Target) = Generation + 1
           /\ \A i \in 1 .. Generation : Target[i] = manifest.history[i]
           /\ Target[Generation + 1] = manifest.active
BY ManifestParts, AppendFacts DEF Target, Generation

\* Types are kept by the steps that lead a coordinator to the root.
LEMMA EntryType ==
    ASSUME StateTypeOK, StoreInv, NEW p \in Process,
           \/ \E q \in Script : BeginMigration(p, q)
           \/ BeginStartup(p) \/ Wait(p) \/ Drained(p) \/ Examine(p) \/ Own(p) \/ Relock(p)
           \/ Downgrade(p)
    PROVE  StateTypeOK'
<1>1. ASSUME NEW q \in Script, BeginMigration(p, q) PROVE StateTypeOK'
  <2>1. coord' \in [Process -> Coordinator]
    BY <1>1 DEF BeginMigration, StateTypeOK, Coordinator, Step
  <2>2. GateTypeOK'
    BY <1>1 DEF BeginMigration, CloseGate, StateTypeOK, GateTypeOK, GateState, Waiter
  <2>. QED
    BY <1>1, <2>1, <2>2 DEF BeginMigration, StateTypeOK, storeVars, processVars
<1>2. CASE BeginStartup(p)
  <2>1. coord' \in [Process -> Coordinator]
    BY <1>2 DEF BeginStartup, StateTypeOK, Coordinator, Step
  <2>2. GateTypeOK'
    BY <1>2 DEF BeginStartup, CloseGate, StateTypeOK, GateTypeOK, GateState, Waiter
  <2>. QED
    BY <1>2, <2>1, <2>2 DEF BeginStartup, StateTypeOK, storeVars
<1>3. CASE Wait(p)
  <2>1. GateTypeOK'
    BY <1>3 DEF Wait, WaitForQuiescence, StateTypeOK, GateTypeOK, Waiter
  <2>. QED
    BY <1>3, <2>1 DEF Wait, StateTypeOK, storeVars, processVars
<1>4. CASE Drained(p)
  <2>1. coord' \in [Process -> Coordinator]
    BY <1>4, GotoEffect DEF Drained, Step
  <2>2. GateTypeOK'
    BY <1>4 DEF Drained, StateTypeOK, GateTypeOK, Waiter
  <2>. QED
    BY <1>4, <2>1, <2>2 DEF Drained, StateTypeOK, storeVars, processVars
<1>5. CASE Examine(p)
  <2>1. coord' \in [Process -> Coordinator]
    BY <1>5, GotoEffect DEF Examine, Step
  <2>. QED
    BY <1>5, <2>1 DEF Examine, StateTypeOK, GateTypeOK, gateVars, storeVars, processVars
<1>6. CASE Own(p)
  <2>1. CASE Fail(p)
    BY <2>1, FailureEffect
  <2>2. CASE ~ Fail(p)
    <3>1. \E step \in Step : Goto(p, step)
      BY <1>6, <2>2 DEF Own, Step, Exclusive
    <3>2. coord' \in [Process -> Coordinator]
      BY <3>1, GotoEffect
    <3>3. lease' \in [Process -> {"none", "shared", "exclusive"}]
      BY <1>6, <2>2 DEF Own, StateTypeOK
    <3>. QED
      BY <1>6, <2>2, <3>2, <3>3 DEF Own, StateTypeOK, GateTypeOK, gateVars, storeVars
  <2>. QED
    BY <2>1, <2>2
<1>7. CASE Relock(p)
  <2>1. CASE Fail(p)
    BY <2>1, FailureEffect
  <2>2. CASE ~ Fail(p)
    BY <1>7, <2>2 DEF Relock, StateTypeOK, GateTypeOK, gateVars, storeVars
  <2>. QED
    BY <2>1, <2>2
<1>8. CASE Downgrade(p)
  BY <1>8 DEF Downgrade, StateTypeOK, GateTypeOK, gateVars, storeVars
<1>. QED
  BY <1>1, <1>2, <1>3, <1>4, <1>5, <1>6, <1>7, <1>8

\* A coordinator that goes on without a change elsewhere keeps the types.
LEMMA ProceedType ==
    ASSUME StateTypeOK, NEW p \in Process, NEW step \in Step, Goto(p, step),
           GateTypeOK', manifest' \in Manifest, shard' \in [Shard -> Schema],
           catalog' \in [Process -> Nat],
           UNCHANGED <<lease, startup, handle, inspect>>
    PROVE  StateTypeOK'
BY GotoEffect DEF StateTypeOK

\* The manifest after each of the four commits is one.
LEMMA CommittedType ==
    ASSUME StateTypeOK, StoreInv, NEW p \in Process
    PROVE  /\ coord[p].step = "begin" =>
                 [manifest EXCEPT !.active = coord[p].script, !.next = 0,
                                  !.state = "Migrating"] \in Manifest
           /\ coord[p].step = "advance" => [manifest EXCEPT !.next = @ + 1] \in Manifest
           /\ coord[p].step = "finalize" =>
                 [history |-> Target, active |-> NoScript, next |-> 0, state |-> "Ready"]
                    \in Manifest
<1>1. ASSUME coord[p].step = "begin"
      PROVE  [manifest EXCEPT !.active = coord[p].script, !.next = 0, !.state = "Migrating"]
                \in Manifest
  <2>1. coord[p].script \in Script \cup {NoScript} /\ 0 \in 0 .. NumShards
    BY CoordinatorParts, MigrationAssumption
  <2>. QED
    BY <2>1 DEF StateTypeOK, Manifest
<1>2. ASSUME coord[p].step = "advance"
      PROVE  [manifest EXCEPT !.next = @ + 1] \in Manifest
  <2>1. manifest.next + 1 \in 0 .. NumShards
    BY <1>2, ManifestParts, MigrationAssumption DEF StoreInv
  <2>. QED
    BY <2>1, ManifestParts DEF Manifest
<1>3. ASSUME coord[p].step = "finalize"
      PROVE  [history |-> Target, active |-> NoScript, next |-> 0, state |-> "Ready"]
                \in Manifest
  BY <1>3, TargetFacts, MigrationAssumption DEF StoreInv, Manifest
<1>. QED
  BY <1>1, <1>2, <1>3

\* Types are kept by the steps that classify a script and journal it.
LEMMA JournalType ==
    ASSUME StateTypeOK, StoreInv, NEW p \in Process,
           Classify(p) \/ FinishCompleted(p) \/ Preflight(p) \/ BeginJournal(p)
    PROVE  StateTypeOK'
<1>1. CASE Fail(p) \/ Corrupt(p)
  BY <1>1, FailureEffect
<1>2. ASSUME ~ (Fail(p) \/ Corrupt(p)), Classify(p) PROVE StateTypeOK'
  <2>1. \E step \in Step : Goto(p, step)
    BY <1>2 DEF Classify, Step, Exclusive
  <2>2. GateTypeOK'
    BY <1>2 DEF Classify, StateTypeOK, GateTypeOK, gateVars
  <2>. QED
    BY <1>2, <2>1, <2>2, ProceedType DEF Classify, StateTypeOK, storeVars, processVars
<1>3. ASSUME ~ (Fail(p) \/ Corrupt(p)), FinishCompleted(p) PROVE StateTypeOK'
  <2> DEFINE done == CHOOSE i \in 1 .. Generation : manifest.history[i] = coord[p].script
             live == IF catalog[p] < done THEN done ELSE catalog[p]
  <2>1. /\ Goto(p, IF coord[p].opening THEN "verify" ELSE "ready")
        /\ catalog' = [catalog EXCEPT ![p] = live]
        /\ UNCHANGED <<gateVars, storeVars, lease, startup, handle, inspect>>
    BY <1>3, MismatchFails DEF FinishCompleted
  <2>2. live \in Nat
    <3>1. \E i \in 1 .. Generation : manifest.history[i] = coord[p].script
      BY <1>3 DEF FinishCompleted, StoreInv, Applied
    <3>2. done \in 1 .. Generation
      BY <3>1
    <3>. QED
      BY <3>2, ManifestParts DEF StateTypeOK
  <2>3. catalog' \in [Process -> Nat]
    BY <2>1, <2>2 DEF StateTypeOK
  <2>4. \E step \in Step : Goto(p, step)
    BY <2>1 DEF Step
  <2>. QED
    BY <2>1, <2>3, <2>4, ProceedType
       DEF StateTypeOK, GateTypeOK, gateVars, storeVars
<1>4. ASSUME ~ (Fail(p) \/ Corrupt(p)), Preflight(p) PROVE StateTypeOK'
  <2>1. /\ Goto(p, "begin") /\ UNCHANGED <<gateVars, storeVars, processVars, inspect>>
    BY <1>4, MismatchFails DEF Preflight
  <2>. QED
    BY <2>1, ProceedType
       DEF StateTypeOK, GateTypeOK, gateVars, storeVars, processVars, Step, Exclusive
<1>5. ASSUME ~ Fail(p), BeginJournal(p) PROVE StateTypeOK'
  BY <1>5, CommittedType, CommitType DEF BeginJournal, Step, Exclusive
<1>. QED
  BY <1>1, <1>2, <1>3, <1>4, <1>5

\* Types are kept by the steps that apply a script and finish it.
LEMMA ApplyType ==
    ASSUME StateTypeOK, StoreInv, NEW p \in Process,
           Resume(p) \/ ApplyShard(p) \/ Advance(p) \/ Validate(p) \/ Finalize(p) \/ Publish(p)
    PROVE  StateTypeOK'
<1>1. CASE Fail(p) \/ Corrupt(p)
  BY <1>1, FailureEffect
<1>2. ASSUME NEW step \in Step, Proceed(p, step) PROVE StateTypeOK'
  BY <1>2, ProceedType
     DEF Proceed, StateTypeOK, GateTypeOK, gateVars, storeVars, processVars
<1>3. CASE Resume(p)
  BY <1>1, <1>2, <1>3, MismatchFails DEF Resume, Step, Exclusive
<1>4. CASE ApplyShard(p)
  <2>1. CASE \E step \in Step : Proceed(p, step)
    BY <1>2, <2>1
  <2>2. CASE /\ shard' = [shard EXCEPT ![manifest.next] = Target]
             /\ Goto(p, "advance")
             /\ UNCHANGED <<gateVars, manifest, processVars, inspect>>
    <3>1. Target \in Schema
      BY <1>4, TargetFacts DEF ApplyShard, StoreInv
    <3>2. shard' \in [Shard -> Schema]
      BY <2>2, <3>1 DEF StateTypeOK
    <3>. QED
      BY <2>2, <3>2, ProceedType
         DEF StateTypeOK, GateTypeOK, gateVars, processVars, Step, Exclusive
  <2>. QED
    BY <1>1, <1>4, <2>1, <2>2, MismatchFails DEF ApplyShard, Step, Exclusive
<1>5. CASE Advance(p)
  BY <1>5, CommittedType, CommitType DEF Advance, Step, Exclusive
<1>6. CASE Validate(p)
  BY <1>1, <1>2, <1>6, MismatchFails DEF Validate, Step, Exclusive
<1>7. CASE Finalize(p)
  BY <1>7, CommittedType, CommitType DEF Finalize, Step, Exclusive
<1>8. ASSUME ~ Fail(p), Publish(p) PROVE StateTypeOK'
  <2>1. catalog' \in [Process -> Nat]
    BY <1>8, ManifestParts DEF Publish, StateTypeOK
  <2>2. \E step \in Step : Goto(p, step)
    BY <1>8 DEF Publish, Step
  <2>. QED
    BY <1>8, <2>1, <2>2, ProceedType DEF Publish, StateTypeOK, GateTypeOK, gateVars, storeVars
<1>. QED
  BY <1>1, <1>3, <1>4, <1>5, <1>6, <1>7, <1>8

\* Types are kept by a startup, by the end of a coordinator and by a crash.
LEMMA StartupType ==
    ASSUME StateTypeOK, StoreInv, NEW p \in Process,
           Load(p) \/ Verify(p) \/ PublishReady(p) \/ GiveUp(p) \/ Die(p)
    PROVE  StateTypeOK'
<1>1. CASE Fail(p) \/ Corrupt(p)
  BY <1>1, FailureEffect
<1>2. CASE Load(p)
  <2>1. CASE End(p, "Degraded") /\ UNCHANGED storeVars
    BY <2>1, EndType DEF StateTypeOK, storeVars, GateState
  <2>2. CASE Proceed(p, "verify")
    BY <2>2, ProceedType
       DEF Proceed, StateTypeOK, GateTypeOK, gateVars, storeVars, processVars, Step
  <2>3. CASE /\ restore' = [restore EXCEPT ![p] = "Pending"]
             /\ coord' = [coord EXCEPT ![p].step = "resume", ![p].script = manifest.active]
             /\ UNCHANGED <<gate, active, notices, waiter, storeVars, processVars, inspect>>
    <3>1. coord' \in [Process -> Coordinator]
      BY <2>3, AdoptEffect
    <3>. QED
      BY <2>3, <3>1 DEF StateTypeOK, GateTypeOK, storeVars, processVars
  <2>. QED
    BY <1>2, <2>1, <2>2, <2>3 DEF Load
<1>3. CASE Verify(p)
  <2>1. CASE /\ catalog' = [catalog EXCEPT ![p] = Generation]
             /\ Goto(p, "ready")
             /\ UNCHANGED <<gateVars, storeVars, lease, startup, handle, inspect>>
    <3>1. catalog' \in [Process -> Nat]
      BY <2>1, ManifestParts DEF StateTypeOK
    <3>. QED
      BY <2>1, <3>1, ProceedType DEF StateTypeOK, GateTypeOK, gateVars, storeVars, Step
  <2>. QED
    BY <1>1, <1>3, <2>1, MismatchFails DEF Verify
<1>4. CASE PublishReady(p)
  <2>1. CASE ~ Fail(p)
    <3>1. coord' \in [Process -> Coordinator]
      BY <1>4, <2>1, CoordinatorParts DEF PublishReady, StateTypeOK
    <3>2. GateTypeOK'
      BY <1>4, <2>1 DEF PublishReady, StateTypeOK, GateTypeOK, GateState
    <3>3. lease' \in [Process -> {"none", "shared", "exclusive"}]
      BY <1>4, <2>1 DEF PublishReady, StateTypeOK
    <3>. QED
      BY <1>4, <2>1, <3>1, <3>2, <3>3 DEF PublishReady, StateTypeOK, storeVars
  <2>. QED
    BY <1>1, <2>1
<1>5. CASE GiveUp(p)
  BY <1>1, <1>5 DEF GiveUp
<1>6. CASE Die(p)
  <2>1. coord' \in [Process -> Coordinator]
    BY <1>6, CoordinatorParts DEF Die, StateTypeOK
  <2>2. GateTypeOK'
    BY <1>6 DEF Die, StateTypeOK, GateTypeOK, GateState, Waiter
  <2>3. inspect' \in [Process -> Inspection]
    BY <1>6 DEF Die, StateTypeOK, Inspection, NoInspection, GateState
  <2>. QED
    BY <1>6, <2>1, <2>2, <2>3 DEF Die, StateTypeOK, storeVars
<1>. QED
  BY <1>2, <1>3, <1>4, <1>5, <1>6

\* Types are kept by operations and inspections.
LEMMA ClientType ==
    ASSUME StateTypeOK, NEW p \in Process, ClientStep(p)
    PROVE  StateTypeOK'
<1>1. ASSUME NEW corrupt, RecordDegraded(corrupt) PROVE manifest' \in Manifest
  BY <1>1 DEF RecordDegraded, StateTypeOK, Manifest
<1>2. ASSUME NEW c \in Client, BeginOperation(p, c) PROVE StateTypeOK'
  BY <1>2 DEF BeginOperation, AcquireOperation, StateTypeOK, GateTypeOK, storeVars, processVars
<1>3. ASSUME NEW c \in Client, EndOperation(p, c) PROVE StateTypeOK'
  <2>1. PICK s \in Shard :
           /\ ReleaseOperation(p, c, Len(shard[s]) < catalog[p])
           /\ RecordDegraded(Len(shard[s]) < catalog[p])
           /\ UNCHANGED <<shard, processVars, coord, inspect>>
    BY <1>3 DEF EndOperation
  <2>2. GateTypeOK'
    BY <2>1 DEF ReleaseOperation, StateTypeOK, GateTypeOK, GateState
  <2>. QED
    BY <1>1, <2>1, <2>2 DEF StateTypeOK, processVars
<1>4. ASSUME NEW c \in Client, SendNotice(p, c) PROVE StateTypeOK'
  <2>1. GateTypeOK'
    BY <1>4 DEF SendNotice, Notify, StateTypeOK, GateTypeOK, Waiter
  <2>. QED
    BY <1>4, <2>1 DEF SendNotice, StateTypeOK, storeVars, processVars
<1>5. ASSUME inspect' \in [Process -> Inspection],
             UNCHANGED <<gateVars, storeVars, processVars, coord>>
      PROVE  StateTypeOK'
  BY <1>5 DEF StateTypeOK, GateTypeOK, gateVars, storeVars, processVars
<1>6. NoInspection \in Inspection
  BY DEF NoInspection, Inspection, GateState
<1>7. CASE BeginInspect(p)
  <2>1. [NoInspection EXCEPT !.step = "before", !.before = catalog[p]] \in Inspection
    BY <1>6 DEF StateTypeOK, Inspection
  <2>2. inspect' \in [Process -> Inspection]
    BY <1>7, <2>1 DEF BeginInspect, StateTypeOK
  <2>. QED
    BY <1>5, <1>7, <2>2 DEF BeginInspect
<1>8. CASE InspectManifest(p)
  <2>1. inspect' \in [Process -> Inspection]
    BY <1>8, ManifestParts DEF InspectManifest, StateTypeOK, Inspection
  <2>. QED
    BY <1>5, <1>8, <2>1 DEF InspectManifest
<1>9. CASE InspectCompare(p)
  <2>1. [inspect[p] EXCEPT !.step = "differs"] \in Inspection
    BY DEF StateTypeOK, Inspection
  <2>2. inspect' \in [Process -> Inspection]
    BY <1>6, <1>9, <2>1 DEF InspectCompare, StateTypeOK
  <2>. QED
    BY <1>5, <1>9, <2>2 DEF InspectCompare
<1>10. CASE InspectGate(p)
  <2>1. gate[p] \in GateState
    BY DEF StateTypeOK, GateTypeOK
  <2>2. inspect' \in [Process -> Inspection]
    BY <1>10, <2>1 DEF InspectGate, StateTypeOK, Inspection
  <2>. QED
    BY <1>5, <1>10, <2>2 DEF InspectGate
<1>11. CASE InspectDecide(p)
  <2>1. GateTypeOK'
    BY <1>11 DEF InspectDecide, StateTypeOK, GateTypeOK, GateState
  <2>2. inspect' \in [Process -> Inspection]
    BY <1>6, <1>11 DEF InspectDecide, StateTypeOK
  <2>. QED
    BY <1>1, <1>11, <2>1, <2>2 DEF InspectDecide, StateTypeOK, processVars
<1>. QED
  BY <1>2, <1>3, <1>4, <1>7, <1>8, <1>9, <1>10, <1>11 DEF ClientStep

\* Types are kept by every step, given what the coordinators know of the journal.
LEMMA StepType ==
    ASSUME StateTypeOK, StoreInv, [MigrationNext]_migrationVars
    PROVE  StateTypeOK'
<1>1. ASSUME NEW p \in Process, CoordinatorStep(p) PROVE StateTypeOK'
  BY <1>1, EntryType, JournalType, ApplyType, StartupType DEF CoordinatorStep
<1>2. CASE UNCHANGED migrationVars
  BY <1>2 DEF migrationVars, gateVars, storeVars, processVars, StateTypeOK, GateTypeOK
<1>. QED
  BY <1>1, <1>2, ClientType DEF MigrationNext

--------------------------------------------------------------------------------
(* The files.                                                              *)

\* What the coordinator of p knows of the journal: its part of StoreInv.
Knows(p) ==
    LET step == coord[p].step
    IN  /\ step \in {"classify", "finish", "preflight", "begin"} => ~ coord[p].opening
        /\ step # "idle" /\ ~ coord[p].opening => coord[p].script # NoScript
        /\ step = "finish" => Applied(coord[p].script)
        /\ step \in {"resume", "apply", "advance", "validate", "finalize"} =>
              manifest.active = coord[p].script /\ manifest.active # NoScript
        /\ step = "advance" => manifest.next < NumShards /\ shard[manifest.next] = Target
        /\ step \in {"validate", "finalize"} => manifest.next = NumShards
        /\ step = "load" /\ lease[p] # "exclusive" =>
              manifest.active = NoScript \/ manifest.state = "Degraded"

\* StoreInv speaks of one coordinator at a time.
LEMMA StoreSplit ==
    StoreInv <=> /\ manifest.active # NoScript =>
                       ~ Applied(manifest.active) /\ manifest.state # "Ready"
                 /\ \A p \in Process : Knows(p)
BY DEF StoreInv, Knows

\* While a coordinator works on the files, no other process has a lock on the root.
LEMMA OthersOut ==
    ASSUME StateTypeOK, LockInv, NEW p \in Process, coord[p].step \in Exclusive,
           NEW q \in Process \ {p}
    PROVE  lease[q] = "none" /\ coord[q].step \in {"idle", "relock"}
BY DEF LockInv, StateTypeOK

\* A step leaves shards and journal alone; the integrity may become Degraded.
SameFiles ==
    /\ shard' = shard
    /\ manifest'.history = manifest.history
    /\ manifest'.active = manifest.active
    /\ manifest'.next = manifest.next
    /\ manifest'.state = manifest.state \/ manifest'.state = "Degraded"

\* A step of p leaves locks, handles and coordinators of the others alone.
OnlyOf(p) ==
    \A q \in Process \ {p} :
        coord'[q] = coord[q] /\ lease'[q] = lease[q] /\ (q \in handle' <=> q \in handle)

\* Its locks and its step fit together, and a lock was to be had.
LocksOf(p) ==
    /\ (p \in handle' \/ coord'[p].step # "idle") /\ coord'[p].step # "relock" =>
          lease'[p] # "none"
    /\ coord'[p].step \in Exclusive => lease'[p] = "exclusive"
    /\ lease'[p] = "exclusive" => lease[p] = "exclusive" \/ Alone(p)
    /\ lease'[p] # "none" => lease[p] # "none" \/ \A q \in Process : lease[q] # "exclusive"

\* Locks stay exclusive.
LEMMA LockStep ==
    ASSUME StateTypeOK, LockInv, NEW p \in Process, OnlyOf(p), LocksOf(p)
    PROVE  LockInv'
<1>1. ASSUME NEW q \in Process
      PROVE  /\ (q \in handle' \/ coord'[q].step # "idle") /\ coord'[q].step # "relock" =>
                   lease'[q] # "none"
             /\ coord'[q].step \in Exclusive => lease'[q] = "exclusive"
  BY DEF LockInv, OnlyOf, LocksOf
<1>2. ASSUME NEW q \in Process, NEW r \in Process, lease'[q] = "exclusive", lease'[r] # "none"
      PROVE  q = r
  BY <1>2 DEF LockInv, OnlyOf, LocksOf, Alone
<1>. QED
  BY <1>1, <1>2 DEF LockInv

\* A step that leaves the files alone keeps the invariant if its own coordinator knows
\* what it should.
LEMMA MoveDurable ==
    ASSUME StateTypeOK, DurableInv, NEW p \in Process,
           SameFiles, OnlyOf(p), LocksOf(p), Knows(p)'
    PROVE  DurableInv'
<1>1. LockInv'
  BY LockStep DEF DurableInv
<1>2. Generation' = Generation /\ Target' = Target
  BY DEF SameFiles, Generation, Target
<1>3. JournalPrefix' /\ ScriptOnce'
  BY <1>2 DEF SameFiles, DurableInv, JournalPrefix, ScriptOnce, Journaled
<1>4. \A q : Applied(q)' <=> Applied(q)
  BY <1>2 DEF SameFiles, Applied
<1>5. ASSUME NEW q \in Process \ {p} PROVE Knows(q)'
  <2>1. Knows(q)
    BY StoreSplit DEF DurableInv
  <2>. QED
    BY <1>2, <1>4, <2>1 DEF SameFiles, OnlyOf, Knows
<1>6. StoreInv'
  <2>1. \A q \in Process : Knows(q)'
    BY <1>5
  <2>2. (manifest.active # NoScript => ~ Applied(manifest.active) /\ manifest.state # "Ready")'
    BY <1>2, StoreSplit DEF SameFiles, DurableInv, Applied
  <2>. QED
    BY <2>1, <2>2 DEF StoreInv, Knows
<1>. QED
  BY <1>1, <1>3, <1>6 DEF DurableInv

\* An idle coordinator knows nothing.
LEMMA IdleKnows ==
    ASSUME NEW p, coord[p].step = "idle"
    PROVE  Knows(p)
BY DEF Knows

\* The end of a coordinator keeps the invariant.
LEMMA EndDurable ==
    ASSUME StateTypeOK, DurableInv, NEW p \in Process, NEW state \in GateState,
           End(p, state), SameFiles, p \in handle => lease[p] # "none"
    PROVE  DurableInv'
<1>1. OnlyOf(p) /\ coord'[p].step = "idle"
  BY EndEffect, CoordinatorParts DEF OnlyOf
<1>2. LocksOf(p)
  BY <1>1, EndEffect DEF LocksOf, Exclusive, StateTypeOK
<1>3. Knows(p)'
  BY <1>1 DEF Knows
<1>. QED
  BY <1>1, <1>2, <1>3, MoveDurable

\* So does a failure.
LEMMA FailureDurable ==
    ASSUME StateTypeOK, DurableInv, NEW p \in Process, Fail(p) \/ Corrupt(p),
           p \in handle => lease[p] # "none"
    PROVE  DurableInv'
<1>1. SameFiles
  BY FailureEffect, ManifestParts DEF SameFiles
<1>. QED
  BY <1>1, FailureEffect, EndDurable

\* A process with a handle has its lock, except while it waits for it.
LEMMA HandleHasLock ==
    ASSUME DurableInv, NEW p \in Process, coord[p].step # "relock"
    PROVE  p \in handle \/ coord[p].step # "idle" => lease[p] # "none"
BY DEF DurableInv, LockInv

\* The entry of a coordinator and the locks leave the files alone.
LEMMA EntryDurable ==
    ASSUME StateTypeOK, DurableInv, NEW p \in Process,
           \/ \E q \in Script : BeginMigration(p, q)
           \/ BeginStartup(p) \/ Drained(p) \/ Examine(p) \/ Own(p) \/ Relock(p) \/ Downgrade(p)
    PROVE  DurableInv'
<1>0. Knows(p)
  BY StoreSplit DEF DurableInv
<1>1. ASSUME NEW q \in Script, BeginMigration(p, q) PROVE DurableInv'
  <2>1. coord'[p].step = "drain" /\ coord'[p].script # NoScript /\ OnlyOf(p)
    BY <1>1, MigrationAssumption DEF BeginMigration, StateTypeOK, processVars, OnlyOf
  <2>2. SameFiles /\ lease' = lease /\ handle' = handle
    BY <1>1 DEF BeginMigration, SameFiles, storeVars, processVars
  <2>3. LocksOf(p)
    BY <1>1, <2>1, <2>2, HandleHasLock DEF BeginMigration, LocksOf, Exclusive
  <2>4. Knows(p)'
    BY <2>1 DEF Knows
  <2>. QED
    BY <2>1, <2>2, <2>3, <2>4, MoveDurable
<1>2. CASE BeginStartup(p)
  <2>1. coord'[p].step = "drain" /\ coord'[p].opening /\ OnlyOf(p)
    BY <1>2 DEF BeginStartup, StateTypeOK, OnlyOf
  <2>2. SameFiles /\ handle' = handle
    BY <1>2 DEF BeginStartup, SameFiles, storeVars
  <2>3. lease'[p] = IF lease[p] = "none" THEN "shared" ELSE lease[p]
    BY <1>2 DEF BeginStartup, StateTypeOK
  <2>4. LocksOf(p)
    BY <1>2, <2>1, <2>2, <2>3, HandleHasLock DEF BeginStartup, LocksOf, Exclusive
  <2>5. Knows(p)'
    BY <2>1 DEF Knows
  <2>. QED
    BY <2>1, <2>2, <2>4, <2>5, MoveDurable
<1>3. CASE Drained(p)
  <2>1. /\ coord'[p].step = IF coord[p].opening THEN "examine" ELSE "own"
        /\ coord'[p].opening = coord[p].opening /\ coord'[p].script = coord[p].script
        /\ OnlyOf(p)
    BY <1>3, GotoEffect DEF Drained, Step, OnlyOf, processVars
  <2>2. SameFiles /\ lease' = lease /\ handle' = handle
    BY <1>3 DEF Drained, SameFiles, storeVars, processVars
  <2>3. LocksOf(p)
    BY <1>3, <2>1, <2>2, HandleHasLock DEF Drained, LocksOf, Exclusive
  <2>4. Knows(p)'
    BY <1>0, <1>3, <2>1 DEF Knows, Drained
  <2>. QED
    BY <2>1, <2>2, <2>3, <2>4, MoveDurable
<1>4. CASE Examine(p)
  <2>1. /\ coord'[p].step = IF manifest.state \in {"Ready", "Degraded"} THEN "load" ELSE "own"
        /\ coord'[p].opening = coord[p].opening /\ coord'[p].script = coord[p].script
        /\ OnlyOf(p)
    BY <1>4, GotoEffect DEF Examine, Step, OnlyOf, processVars
  <2>2. SameFiles /\ lease' = lease /\ handle' = handle /\ manifest' = manifest
    BY <1>4 DEF Examine, SameFiles, storeVars, processVars
  <2>3. LocksOf(p)
    BY <1>4, <2>1, <2>2, HandleHasLock DEF Examine, LocksOf, Exclusive
  <2>4. Knows(p)'
    BY <1>0, <1>4, <2>1, <2>2, StoreSplit DEF Knows, Examine, DurableInv
  <2>. QED
    BY <2>1, <2>2, <2>3, <2>4, MoveDurable
<1>5. CASE Own(p)
  <2>1. CASE Fail(p)
    BY <1>5, <2>1, FailureDurable, HandleHasLock DEF Own
  <2>2. CASE ~ Fail(p)
    <3>1. /\ coord'[p].step = IF ~ Alone(p) THEN "relock"
                              ELSE IF coord[p].opening THEN "load" ELSE "classify"
          /\ coord'[p].opening = coord[p].opening /\ coord'[p].script = coord[p].script
          /\ OnlyOf(p)
      BY <1>5, <2>2, GotoEffect DEF Own, Step, Exclusive, OnlyOf, StateTypeOK
    <3>2. SameFiles /\ handle' = handle
      BY <1>5, <2>2 DEF Own, SameFiles, storeVars
    <3>3. lease'[p] = IF Alone(p) THEN "exclusive"
                      ELSE IF p \in Yielding THEN "none" ELSE lease[p]
      BY <1>5, <2>2 DEF Own, StateTypeOK
    <3>4. LocksOf(p)
      BY <1>5, <3>1, <3>2, <3>3, HandleHasLock DEF Own, LocksOf, Exclusive
    <3>5. Knows(p)'
      BY <1>0, <1>5, <3>1, <3>3 DEF Knows, Own
    <3>. QED
      BY <3>1, <3>2, <3>4, <3>5, MoveDurable
  <2>. QED
    BY <2>1, <2>2
<1>6. CASE Relock(p)
  <2>1. CASE lease[p] # "none"
    BY <1>6, <2>1, FailureDurable DEF Relock
  <2>2. CASE lease[p] = "none"
    <3>1. SameFiles /\ OnlyOf(p) /\ coord' = coord /\ handle' = handle /\ lease'[p] = "shared"
      BY <1>6, <2>2 DEF Relock, SameFiles, storeVars, OnlyOf, StateTypeOK
    <3>2. LocksOf(p)
      BY <1>6, <2>2, <3>1 DEF Relock, LocksOf, Exclusive
    <3>3. Knows(p)'
      BY <1>0, <1>6, <3>1 DEF Knows, Relock
    <3>. QED
      BY <3>1, <3>2, <3>3, MoveDurable
  <2>. QED
    BY <2>1, <2>2
<1>7. CASE Downgrade(p)
  <2>1. SameFiles /\ OnlyOf(p) /\ coord' = coord /\ handle' = handle /\ lease'[p] = "shared"
    BY <1>7 DEF Downgrade, SameFiles, storeVars, OnlyOf, StateTypeOK
  <2>2. LocksOf(p)
    BY <1>7, <2>1 DEF Downgrade, LocksOf, Exclusive
  <2>3. Knows(p)'
    BY <1>0, <1>7, <2>1 DEF Knows, Downgrade, SameFiles, Exclusive
  <2>. QED
    BY <2>1, <2>2, <2>3, MoveDurable
<1>. QED
  BY <1>1, <1>2, <1>3, <1>4, <1>5, <1>6, <1>7

\* A coordinator that goes to another step, with its locks, leaves the files alone.
LEMMA ProceedDurable ==
    ASSUME StateTypeOK, DurableInv, NEW p \in Process, NEW step \in Step, Goto(p, step),
           UNCHANGED <<storeVars, lease, handle>>,
           coord[p].step \notin {"idle", "relock"}, step # "relock",
           step \in Exclusive => lease[p] = "exclusive",
           Knows(p)'
    PROVE  DurableInv'
<1>1. SameFiles
  BY DEF SameFiles, storeVars
<1>2. OnlyOf(p)
  BY GotoEffect DEF OnlyOf
<1>3. LocksOf(p)
  BY GotoEffect, HandleHasLock DEF LocksOf
<1>. QED
  BY <1>1, <1>2, <1>3, MoveDurable

\* A step to one of the points where nothing is known of the journal but the script.
LEMMA PlainKnows ==
    ASSUME StateTypeOK, NEW p \in Process, NEW step \in Step, Goto(p, step), Knows(p),
           coord[p].step # "idle",
           step \notin {"classify", "finish", "preflight", "begin", "resume", "apply", "advance",
                        "validate", "finalize", "load"}
    PROVE  Knows(p)'
BY GotoEffect DEF Knows

\* Classifying a script and checking the shards leaves the files alone.
LEMMA JournalDurable ==
    ASSUME StateTypeOK, DurableInv, NEW p \in Process,
           Classify(p) \/ FinishCompleted(p) \/ Preflight(p)
    PROVE  DurableInv'
<1>0. Knows(p) /\ coord[p].step \in Exclusive
  BY StoreSplit DEF DurableInv, Classify, FinishCompleted, Preflight, Exclusive
<1>1. coord[p].step \notin {"idle", "relock"} /\ lease[p] = "exclusive"
  BY <1>0 DEF Exclusive, DurableInv, LockInv
<1>2. CASE Fail(p) \/ Corrupt(p)
  BY <1>1, <1>2, FailureDurable
<1>3. ASSUME ~ (Fail(p) \/ Corrupt(p)), Classify(p) PROVE DurableInv'
  <2> DEFINE q == coord[p].script
             next == IF manifest.active = q THEN "resume"
                     ELSE IF Applied(q) THEN "finish" ELSE "preflight"
  <2>1. Goto(p, next) /\ UNCHANGED <<storeVars, lease, handle>>
        /\ (manifest.active = q \/ manifest.active = NoScript) /\ next \in Step
    BY <1>3 DEF Classify, processVars, Step, Exclusive
  <2>2. Applied(q)' <=> Applied(q)
    BY <2>1, GotoEffect DEF Applied, Generation, storeVars
  <2>3. Knows(p)'
    BY <1>0, <1>3, <2>1, <2>2, GotoEffect DEF Knows, Classify, storeVars
  <2>. QED
    BY <1>1, <2>1, <2>3, ProceedDurable
<1>4. ASSUME ~ (Fail(p) \/ Corrupt(p)), FinishCompleted(p) PROVE DurableInv'
  <2>1. \E step \in {"verify", "ready"} :
           Goto(p, step) /\ UNCHANGED <<storeVars, lease, handle>>
    BY <1>4, MismatchFails DEF FinishCompleted
  <2>. QED
    BY <1>0, <1>1, <2>1, PlainKnows, ProceedDurable DEF Step, Exclusive
<1>5. ASSUME ~ (Fail(p) \/ Corrupt(p)), Preflight(p) PROVE DurableInv'
  <2>1. Goto(p, "begin") /\ UNCHANGED <<storeVars, lease, handle>> /\ "begin" \in Step
    BY <1>5, MismatchFails DEF Preflight, processVars, Step, Exclusive
  <2>2. Knows(p)'
    BY <1>0, <1>5, <2>1, GotoEffect DEF Knows, Preflight
  <2>. QED
    BY <1>1, <2>1, <2>2, ProceedDurable
<1>. QED
  BY <1>2, <1>3, <1>4, <1>5

\* The steps of a resumed migration that only look at the files.
LEMMA LookDurable ==
    ASSUME StateTypeOK, DurableInv, NEW p \in Process,
           Resume(p) \/ Validate(p) \/ Publish(p)
    PROVE  DurableInv'
<1>0. Knows(p) /\ coord[p].step \in Exclusive
  BY StoreSplit DEF DurableInv, Resume, Validate, Publish, Exclusive
<1>1. coord[p].step \notin {"idle", "relock"} /\ lease[p] = "exclusive"
  BY <1>0 DEF Exclusive, DurableInv, LockInv
<1>2. CASE Fail(p) \/ Corrupt(p)
  BY <1>1, <1>2, FailureDurable
<1>3. ASSUME ~ (Fail(p) \/ Corrupt(p)), Resume(p) PROVE DurableInv'
  <2>1. Goto(p, "apply") /\ UNCHANGED <<storeVars, lease, handle>> /\ "apply" \in Step
    BY <1>3, MismatchFails DEF Resume, Proceed, processVars, Step, Exclusive
  <2>2. Knows(p)'
    BY <1>0, <1>3, <2>1, GotoEffect DEF Knows, Resume, storeVars
  <2>. QED
    BY <1>1, <2>1, <2>2, ProceedDurable
<1>4. ASSUME ~ (Fail(p) \/ Corrupt(p)), Validate(p) PROVE DurableInv'
  <2>1. Goto(p, "finalize") /\ UNCHANGED <<storeVars, lease, handle>> /\ "finalize" \in Step
    BY <1>4, MismatchFails DEF Validate, Proceed, processVars, Step, Exclusive
  <2>2. Knows(p)'
    BY <1>0, <1>4, <2>1, GotoEffect DEF Knows, Validate, storeVars
  <2>. QED
    BY <1>1, <2>1, <2>2, ProceedDurable
<1>5. ASSUME ~ Fail(p), Publish(p) PROVE DurableInv'
  <2>1. \E step \in {"verify", "ready"} :
           Goto(p, step) /\ UNCHANGED <<storeVars, lease, handle>>
    BY <1>5 DEF Publish
  <2>. QED
    BY <1>0, <1>1, <2>1, PlainKnows, ProceedDurable DEF Step, Exclusive
<1>. QED
  BY <1>2, <1>3, <1>4, <1>5

\* A commit of the only process of the root: what changes besides the manifest.
LEMMA CommitEffect ==
    ASSUME StateTypeOK, DurableInv, NEW p \in Process, NEW kind, NEW committed,
           NEW next \in Exclusive, coord[p].step \in Exclusive,
           Commit(p, kind, committed, next)
    PROVE  /\ shard' = shard /\ LockInv'
           /\ manifest' = manifest \/ manifest' = committed
           /\ \A q \in Process \ {p} : Knows(q)'
           /\ \/ /\ manifest' = committed /\ coord'[p].step = next
                 /\ coord'[p].opening = coord[p].opening /\ coord'[p].script = coord[p].script
              \/ coord'[p].step = "idle"
<1>1. shard' = shard /\ (manifest' = manifest \/ manifest' = committed)
  BY DEF Commit
<1>2. next \in Step /\ next \notin {"idle", "relock"} /\ coord[p].step \notin {"idle", "relock"}
  BY DEF Step, Exclusive
<1>3. lease[p] = "exclusive"
  BY DEF DurableInv, LockInv
<1>4. ASSUME End(p, GateAfterDrop(p, "Pending"))
      PROVE  /\ OnlyOf(p) /\ LocksOf(p)
             /\ \/ /\ manifest' = committed /\ coord'[p].step = next
                   /\ coord'[p].opening = coord[p].opening /\ coord'[p].script = coord[p].script
                \/ coord'[p].step = "idle"
  <2>1. GateAfterDrop(p, "Pending") \in GateState
    BY DropType
  <2>2. OnlyOf(p) /\ coord'[p].step = "idle"
    BY <1>4, <2>1, EndEffect, CoordinatorParts DEF OnlyOf
  <2>3. LocksOf(p)
    BY <1>3, <1>4, <2>1, <2>2, EndEffect DEF LocksOf, Exclusive, StateTypeOK
  <2>. QED
    BY <2>2, <2>3
<1>5. ASSUME manifest' = committed, Goto(p, next), UNCHANGED processVars
      PROVE  /\ OnlyOf(p) /\ LocksOf(p)
             /\ \/ /\ manifest' = committed /\ coord'[p].step = next
                   /\ coord'[p].opening = coord[p].opening /\ coord'[p].script = coord[p].script
                \/ coord'[p].step = "idle"
  <2>1. OnlyOf(p)
    BY <1>2, <1>5, GotoEffect DEF OnlyOf, processVars
  <2>2. LocksOf(p)
    BY <1>2, <1>3, <1>5, GotoEffect DEF LocksOf, processVars
  <2>. QED
    BY <1>2, <1>5, <2>1, <2>2, GotoEffect
<1>6. /\ OnlyOf(p) /\ LocksOf(p)
      /\ \/ /\ manifest' = committed /\ coord'[p].step = next
            /\ coord'[p].opening = coord[p].opening /\ coord'[p].script = coord[p].script
         \/ coord'[p].step = "idle"
  BY <1>4, <1>5 DEF Commit
<1>7. LockInv'
  BY <1>6, LockStep DEF DurableInv
<1>8. ASSUME NEW q \in Process \ {p} PROVE Knows(q)'
  <2>1. coord[q].step \in {"idle", "relock"} /\ coord'[q] = coord[q] /\ Knows(q)
    BY <1>6, OthersOut, StoreSplit DEF OnlyOf, DurableInv
  <2>. QED
    BY <2>1 DEF Knows
<1>. QED
  BY <1>1, <1>6, <1>7, <1>8

\* The journal row is written over shards that all have the schema of the manifest.
LEMMA BeginJournalDurable ==
    ASSUME StateTypeOK, DurableInv, NEW p \in Process, BeginJournal(p)
    PROVE  DurableInv'
<1>0. Knows(p) /\ coord[p].step = "begin" /\ coord[p].step \in Exclusive
  BY StoreSplit DEF DurableInv, BeginJournal, Exclusive
<1>1. CASE Fail(p)
  BY <1>0, <1>1, FailureDurable, HandleHasLock
<1>2. CASE ~ Fail(p)
  <2> DEFINE committed == [manifest EXCEPT !.active = coord[p].script, !.next = 0,
                                           !.state = "Migrating"]
  <2>1. /\ manifest.active = NoScript /\ ~ Applied(coord[p].script)
        /\ Commit(p, "begin", committed, "resume") /\ "resume" \in Exclusive
    BY <1>2 DEF BeginJournal, Exclusive
  <2>2. /\ committed.history = manifest.history /\ committed.active = coord[p].script
        /\ committed.next = 0 /\ committed.state = "Migrating" /\ coord[p].script # NoScript
    BY <1>0, ManifestParts DEF Knows
  <2>3. JournalPrefix' /\ ScriptOnce'
    <3>1. shard' = shard /\ manifest'.history = manifest.history /\ Generation' = Generation
          /\ (manifest'.next = 0 \/ manifest' = manifest)
      BY <1>0, <2>1, <2>2, CommitEffect DEF Generation
    <3>2. \A s \in Shard : shard[s] = manifest.history /\ s >= 0
      BY <2>1 DEF DurableInv, JournalPrefix, Shard
    <3>3. JournalPrefix'
      BY <2>1, <3>1, <3>2 DEF JournalPrefix, Journaled
    <3>4. ScriptOnce'
      BY <3>1 DEF ScriptOnce, DurableInv
    <3>. QED
      BY <3>3, <3>4
  <2>4. (manifest.active # NoScript => ~ Applied(manifest.active) /\ manifest.state # "Ready")'
    BY <1>0, <2>1, <2>2, CommitEffect DEF Applied, Generation
  <2>5. Knows(p)'
    <3>1. \/ /\ manifest' = committed /\ coord'[p].step = "resume"
             /\ coord'[p].script = coord[p].script
          \/ coord'[p].step = "idle"
      BY <1>0, <2>1, CommitEffect
    <3>. QED
      BY <2>2, <3>1 DEF Knows
  <2>6. StoreInv'
    <3>1. \A q \in Process : Knows(q)'
      BY <1>0, <2>1, <2>5, CommitEffect
    <3>. QED
      BY <2>4, <3>1 DEF StoreInv, Knows
  <2>. QED
    BY <1>0, <2>1, <2>3, <2>6, CommitEffect DEF DurableInv
<1>. QED
  BY <1>1, <1>2

\* One shard gets the script, and only once: the shard the journal names.
LEMMA ApplyDurable ==
    ASSUME StateTypeOK, DurableInv, NEW p \in Process, ApplyShard(p)
    PROVE  DurableInv'
<1>0. Knows(p) /\ coord[p].step = "apply" /\ coord[p].step \in Exclusive
  BY StoreSplit DEF DurableInv, ApplyShard, Exclusive
<1>1. coord[p].step \notin {"idle", "relock"} /\ lease[p] = "exclusive"
      /\ manifest.active = coord[p].script /\ manifest.active # NoScript
  BY <1>0 DEF Exclusive, DurableInv, LockInv, Knows
<1>2. CASE Fail(p) \/ Corrupt(p)
  BY <1>1, <1>2, FailureDurable
<1>3. CASE Proceed(p, "validate") /\ manifest.next = NumShards
  <2>1. Goto(p, "validate") /\ UNCHANGED <<storeVars, lease, handle>> /\ "validate" \in Step
    BY <1>3 DEF Proceed, processVars, Step, Exclusive
  <2>2. Knows(p)'
    BY <1>0, <1>1, <1>3, <2>1, GotoEffect DEF Knows, storeVars
  <2>. QED
    BY <1>1, <2>1, <2>2, ProceedDurable
<1>4. CASE /\ manifest.next # NumShards
           /\ shard' = [shard EXCEPT ![manifest.next] = Target]
           /\ Goto(p, "advance")
           /\ UNCHANGED <<gateVars, manifest, processVars, inspect>>
  <2>1. /\ "advance" \in Step /\ "advance" \in Exclusive
        /\ manifest' = manifest /\ lease' = lease /\ handle' = handle
        /\ Generation' = Generation /\ Target' = Target
    BY <1>4 DEF Step, Exclusive, processVars, Generation, Target
  <2>2. manifest.next \in Shard /\ manifest.next < NumShards
    BY <1>4, ManifestParts, MigrationAssumption DEF Shard
  <2>3. shard'[manifest.next] = Target
        /\ \A s \in Shard \ {manifest.next} : shard'[s] = shard[s]
    BY <1>4, <2>2 DEF StateTypeOK
  <2>4. JournalPrefix'
    <3>1. \A s \in Shard : Journaled(s) /\ s \in Int
      BY <1>1 DEF DurableInv, JournalPrefix, Shard
    <3>2. ASSUME NEW s \in Shard PROVE Journaled(s)'
      BY <2>1, <2>3, <3>1, ManifestParts DEF Journaled
    <3>. QED
      BY <1>1, <2>1, <3>2 DEF JournalPrefix
  <2>5. LockInv'
    <3>1. OnlyOf(p) /\ LocksOf(p)
      BY <1>1, <1>4, <2>1, GotoEffect DEF OnlyOf, LocksOf
    <3>. QED
      BY <3>1, LockStep DEF DurableInv
  <2>6. ASSUME NEW q \in Process PROVE Knows(q)'
    <3>1. CASE q = p
      BY <1>0, <1>1, <1>4, <2>1, <2>2, <2>3, <3>1, GotoEffect DEF Knows
    <3>2. CASE q # p
      <4>1. coord[q].step \in {"idle", "relock"} /\ coord'[q] = coord[q] /\ Knows(q)
        BY <1>0, <1>4, <2>1, <3>2, GotoEffect, OthersOut, StoreSplit DEF DurableInv
      <4>. QED
        BY <4>1 DEF Knows
    <3>. QED
      BY <3>1, <3>2
  <2>7. StoreInv'
    BY <2>1, <2>6 DEF StoreInv, Knows, DurableInv, Applied
  <2>8. ScriptOnce'
    BY <2>1 DEF DurableInv, ScriptOnce
  <2>. QED
    BY <2>4, <2>5, <2>7, <2>8 DEF DurableInv
<1>. QED
  BY <1>1, <1>2, <1>3, <1>4, MismatchFails DEF ApplyShard

\* The journal advances past a shard that has the script.
LEMMA AdvanceDurable ==
    ASSUME StateTypeOK, DurableInv, NEW p \in Process, Advance(p)
    PROVE  DurableInv'
<1> DEFINE committed == [manifest EXCEPT !.next = @ + 1]
<1>0. Knows(p) /\ coord[p].step = "advance" /\ coord[p].step \in Exclusive
  BY StoreSplit DEF DurableInv, Advance, Exclusive
<1>1. Commit(p, "advance", committed, "apply") /\ "apply" \in Exclusive
  BY DEF Advance, Exclusive
<1>2. /\ committed.history = manifest.history /\ committed.active = manifest.active
      /\ committed.next = manifest.next + 1 /\ committed.state = manifest.state
  BY ManifestParts
<1>3. /\ shard' = shard /\ manifest'.history = manifest.history
      /\ manifest'.active = manifest.active /\ manifest'.state = manifest.state
      /\ manifest'.next \in {manifest.next, manifest.next + 1}
      /\ Generation' = Generation /\ Target' = Target
  BY <1>0, <1>1, <1>2, CommitEffect DEF Generation, Target
<1>4. manifest.active = coord[p].script /\ manifest.active # NoScript
      /\ shard[manifest.next] = Target /\ manifest.next < NumShards
  BY <1>0 DEF Knows
<1>5. JournalPrefix'
  <2>1. \A s \in Shard : Journaled(s) /\ s \in Int
    BY <1>4 DEF DurableInv, JournalPrefix, Shard
  <2>2. ASSUME NEW s \in Shard PROVE Journaled(s)'
    BY <1>3, <1>4, <2>1, ManifestParts DEF Journaled
  <2>. QED
    BY <1>3, <1>4, <2>2 DEF JournalPrefix
<1>6. ScriptOnce'
  BY <1>3 DEF ScriptOnce, DurableInv
<1>7. Knows(p)'
  <2>1. \/ /\ manifest' = committed /\ coord'[p].step = "apply"
           /\ coord'[p].script = coord[p].script
        \/ coord'[p].step = "idle"
    BY <1>0, <1>1, CommitEffect
  <2>. QED
    BY <1>2, <1>4, <2>1 DEF Knows
<1>8. StoreInv'
  <2>1. \A q \in Process : Knows(q)'
    BY <1>0, <1>1, <1>7, CommitEffect
  <2>. QED
    BY <1>3, <2>1 DEF StoreInv, Knows, DurableInv, Applied
<1>. QED
  BY <1>0, <1>1, <1>5, <1>6, <1>8, CommitEffect DEF DurableInv

\* The history grows by a script it did not have, when every shard has it.
LEMMA FinalizeDurable ==
    ASSUME StateTypeOK, DurableInv, NEW p \in Process, Finalize(p)
    PROVE  DurableInv'
<1> DEFINE committed == [history |-> Target, active |-> NoScript, next |-> 0, state |-> "Ready"]
<1>0. Knows(p) /\ coord[p].step = "finalize" /\ coord[p].step \in Exclusive
  BY StoreSplit DEF DurableInv, Finalize, Exclusive
<1>1. Commit(p, "finalize", committed, "publish") /\ "publish" \in Exclusive
  BY DEF Finalize, Exclusive
<1>2. manifest.active # NoScript /\ manifest.next = NumShards
      /\ ~ Applied(manifest.active) /\ manifest.state # "Ready"
  BY <1>0, StoreSplit DEF Knows, DurableInv
<1>3. \A s \in Shard : shard[s] = Target
  <2>1. \A s \in Shard : Journaled(s) /\ s \in Int /\ s < NumShards
    BY <1>2, MigrationAssumption DEF DurableInv, JournalPrefix, Shard
  <2>. QED
    BY <1>2, <2>1, MigrationAssumption DEF Journaled
<1>4. shard' = shard /\ (manifest' = manifest \/ manifest' = committed)
  BY <1>0, <1>1, CommitEffect
<1>5. JournalPrefix'
  BY <1>3, <1>4 DEF JournalPrefix, DurableInv, Journaled, Target
<1>6. ScriptOnce'
  <2>1. CASE manifest' = manifest
    BY <2>1 DEF ScriptOnce, Generation, DurableInv
  <2>2. CASE manifest' = committed
    <3>1. manifest'.history = Target /\ Generation' = Generation + 1
      BY <1>2, <2>2, TargetFacts DEF Generation
    <3>2. ASSUME NEW i \in 1 .. Generation + 1, NEW j \in 1 .. Generation + 1,
                 Target[i] = Target[j]
          PROVE  i = j
      <4>1. \A k \in 1 .. Generation : Target[k] # manifest.active
        BY <1>2, TargetFacts DEF Applied
      <4>2. CASE i = Generation + 1 \/ j = Generation + 1
        BY <1>2, <3>2, <4>1, <4>2, TargetFacts, ManifestParts
      <4>3. CASE i \in 1 .. Generation /\ j \in 1 .. Generation
        BY <1>2, <3>2, <4>3, TargetFacts DEF DurableInv, ScriptOnce
      <4>. QED
        BY <4>2, <4>3, ManifestParts
    <3>. QED
      BY <3>1, <3>2 DEF ScriptOnce
  <2>. QED
    BY <1>4, <2>1, <2>2
<1>7. Knows(p)'
  BY <1>0, <1>1, CommitEffect DEF Knows
<1>8. StoreInv'
  <2>1. \A q \in Process : Knows(q)'
    BY <1>0, <1>1, <1>7, CommitEffect
  <2>2. (manifest.active # NoScript => ~ Applied(manifest.active) /\ manifest.state # "Ready")'
    BY <1>2, <1>4 DEF Applied, Generation
  <2>. QED
    BY <2>1, <2>2 DEF StoreInv, Knows
<1>. QED
  BY <1>0, <1>1, <1>5, <1>6, <1>8, CommitEffect DEF DurableInv

\* A startup, the end of a coordinator and a crash leave the files alone.
LEMMA StartupDurable ==
    ASSUME StateTypeOK, DurableInv, NEW p \in Process,
           Load(p) \/ Verify(p) \/ PublishReady(p) \/ GiveUp(p) \/ Die(p)
    PROVE  DurableInv'
<1>0. Knows(p)
  BY StoreSplit DEF DurableInv
<1>1. ASSUME coord[p].step # "relock", Fail(p) \/ Corrupt(p) PROVE DurableInv'
  BY <1>1, FailureDurable, HandleHasLock
<1>2. CASE Load(p)
  <2>1. CASE End(p, "Degraded") /\ UNCHANGED storeVars
    BY <1>2, <2>1, EndDurable, HandleHasLock DEF Load, SameFiles, storeVars, GateState
  <2>2. CASE Proceed(p, "verify")
    BY <1>0, <1>2, <2>2, PlainKnows, ProceedDurable
       DEF Load, Proceed, processVars, Step, Exclusive
  <2>3. CASE /\ manifest.active # NoScript /\ manifest.state # "Degraded"
             /\ coord' = [coord EXCEPT ![p].step = "resume", ![p].script = manifest.active]
             /\ UNCHANGED <<gate, active, notices, waiter, storeVars, processVars, inspect>>
    <3>1. lease[p] = "exclusive"
      BY <1>0, <1>2, <2>3 DEF Knows, Load
    <3>2. /\ SameFiles /\ OnlyOf(p) /\ manifest' = manifest /\ handle' = handle
          /\ lease' = lease
      BY <2>3, AdoptEffect DEF SameFiles, OnlyOf, storeVars, processVars
    <3>3. LocksOf(p)
      BY <2>3, <3>1, <3>2, AdoptEffect DEF LocksOf
    <3>4. coord'[p].opening = coord[p].opening /\ coord'[p].step = "resume"
          /\ coord'[p].script = manifest.active
      BY <2>3, AdoptEffect
    <3>5. Knows(p)'
      BY <2>3, <3>2, <3>4 DEF Knows
    <3>. QED
      BY <3>2, <3>3, <3>5, MoveDurable
  <2>. QED
    BY <1>2, <2>1, <2>2, <2>3 DEF Load
<1>3. CASE Verify(p)
  <2>1. CASE Goto(p, "ready") /\ UNCHANGED <<storeVars, lease, handle>>
    BY <1>0, <1>3, <2>1, PlainKnows, ProceedDurable DEF Verify, Step, Exclusive
  <2>. QED
    BY <1>1, <1>3, <2>1, MismatchFails DEF Verify
<1>4. CASE PublishReady(p)
  <2>1. CASE ~ Fail(p)
    <3>1. coord'[p].step = "idle" /\ OnlyOf(p) /\ SameFiles
      BY <1>4, <2>1, CoordinatorParts
         DEF PublishReady, OnlyOf, SameFiles, storeVars, StateTypeOK
    <3>2. lease'[p] = IF coord[p].opening THEN "shared" ELSE lease[p]
      BY <1>4, <2>1 DEF PublishReady, StateTypeOK
    <3>3. LocksOf(p)
      BY <1>4, <3>1, <3>2, HandleHasLock DEF LocksOf, PublishReady, Exclusive
    <3>4. Knows(p)'
      BY <3>1 DEF Knows
    <3>. QED
      BY <3>1, <3>3, <3>4, MoveDurable
  <2>. QED
    BY <1>1, <1>4, <2>1 DEF PublishReady
<1>5. CASE GiveUp(p)
  BY <1>1, <1>5 DEF GiveUp
<1>6. CASE Die(p)
  <2>1. coord'[p].step = "idle" /\ OnlyOf(p) /\ SameFiles /\ p \notin handle'
        /\ lease'[p] = "none"
    BY <1>6, CoordinatorParts DEF Die, OnlyOf, SameFiles, storeVars, StateTypeOK
  <2>2. LocksOf(p) /\ Knows(p)'
    BY <2>1 DEF LocksOf, Knows, Exclusive
  <2>. QED
    BY <2>1, <2>2, MoveDurable
<1>. QED
  BY <1>2, <1>3, <1>4, <1>5, <1>6

\* A step that changes neither locks nor coordinators.
LEMMA QuietDurable ==
    ASSUME StateTypeOK, DurableInv, NEW p \in Process, SameFiles,
           UNCHANGED <<lease, handle, coord>>
    PROVE  DurableInv'
<1>1. OnlyOf(p)
  BY DEF OnlyOf
<1>2. LocksOf(p)
  BY DEF LocksOf, DurableInv, LockInv
<1>3. \A q : Applied(q)' <=> Applied(q)
  BY DEF Applied, Generation, SameFiles
<1>4. Target' = Target
  BY DEF Target, SameFiles
<1>5. Knows(p)'
  <2>1. Knows(p)
    BY StoreSplit DEF DurableInv
  <2>. QED
    BY <1>3, <1>4, <2>1 DEF Knows, SameFiles
<1>. QED
  BY <1>1, <1>2, <1>5, MoveDurable

\* Operations and inspections at most record that the root is degraded.
LEMMA ClientFiles ==
    ASSUME StateTypeOK, NEW p \in Process, ClientStep(p) \/ Wait(p)
    PROVE  SameFiles /\ UNCHANGED <<lease, handle, coord>>
<1>1. ASSUME NEW corrupt, RecordDegraded(corrupt), shard' = shard PROVE SameFiles
  BY <1>1, ManifestParts DEF RecordDegraded, SameFiles
<1>2. CASE UNCHANGED <<storeVars, processVars, coord>>
  BY <1>2 DEF SameFiles, storeVars, processVars
<1>3. ASSUME NEW c \in Client, EndOperation(p, c)
      PROVE  SameFiles /\ UNCHANGED <<lease, handle, coord>>
  BY <1>1, <1>3 DEF EndOperation, processVars
<1>4. CASE InspectDecide(p)
  BY <1>1, <1>4 DEF InspectDecide, processVars
<1>. QED
  BY <1>2, <1>3, <1>4 DEF ClientStep, Wait, BeginOperation, SendNotice, BeginInspect,
     InspectManifest, InspectCompare, InspectGate

\* Every step keeps the files.
LEMMA StepDurable ==
    ASSUME StateTypeOK, DurableInv, [MigrationNext]_migrationVars
    PROVE  DurableInv'
<1>1. ASSUME NEW p \in Process, CoordinatorStep(p) PROVE DurableInv'
  <2>1. CASE Wait(p)
    BY <2>1, ClientFiles, QuietDurable
  <2>. QED
    BY <1>1, <2>1, EntryDurable, JournalDurable, BeginJournalDurable, LookDurable, ApplyDurable,
       AdvanceDurable, FinalizeDurable, StartupDurable DEF CoordinatorStep
<1>2. ASSUME NEW p \in Process, ClientStep(p) PROVE DurableInv'
  BY <1>2, ClientFiles, QuietDurable
<1>3. CASE UNCHANGED migrationVars
  BY <1>3 DEF migrationVars, storeVars, processVars, DurableInv, JournalPrefix, Journaled,
     ScriptOnce, LockInv, StoreInv, Applied, Generation, Target
<1>. QED
  BY <1>1, <1>2, <1>3 DEF MigrationNext

\* A new root has no scripts.
LEMMA InitDurable ==
    ASSUME MigrationInit
    PROVE  StateTypeOK /\ DurableInv
<1>1. <<>> \in Schema /\ Len(<<>>) = 0 /\ 0 \in 0 .. NumShards
  BY MigrationAssumption DEF Schema
<1>2. manifest \in Manifest /\ shard \in [Shard -> Schema]
  BY <1>1 DEF MigrationInit, Manifest
<1>3. coord \in [Process -> Coordinator]
  BY DEF MigrationInit, Coordinator, NoCoordinator, Step
<1>4. inspect \in [Process -> Inspection]
  BY DEF MigrationInit, Inspection, NoInspection, GateState
<1>5. GateTypeOK
  BY DEF MigrationInit, GateInit, GateTypeOK, GateState, Waiter
<1>6. StateTypeOK
  BY <1>2, <1>3, <1>4, <1>5 DEF MigrationInit, StateTypeOK
<1>7. JournalPrefix /\ ScriptOnce
  BY <1>1 DEF MigrationInit, JournalPrefix, ScriptOnce, Generation
<1>8. LockInv
  BY DEF MigrationInit, LockInv, NoCoordinator, Exclusive
<1>9. StoreInv
  BY DEF MigrationInit, StoreInv, NoCoordinator
<1>. QED
  BY <1>6, <1>7, <1>8, <1>9 DEF DurableInv

--------------------------------------------------------------------------------
(* The history.                                                            *)

\* A step of p that leaves handles and overtaken processes alone, and makes nobody the
\* sole owner.
Plain(p) ==
    /\ overtaken' = overtaken /\ handle' = handle
    /\ misled' \in BOOLEAN /\ (misled => misled')
    /\ \A q \in Process \ {p} : lease'[q] = lease[q]
    /\ lease'[p] = "exclusive" => lease[p] = "exclusive"

\* What a step of p does to the history: it forgets nobody but p, and p only when p has
\* published or is gone.
Follows(p) ==
    /\ MigrationTypeOK' /\ HistoryInv' /\ (misled => misled')
    /\ \A q \in Process \ {p} : q \in overtaken => q \in overtaken'
    /\ p \in overtaken => p \in overtaken' \/ coord[p].step = "ready" \/ p \notin handle'

\* A plain step keeps the history: a process loses its lock only while nobody else is
\* the sole owner.
LEMMA PlainFollows ==
    ASSUME MigrationTypeOK, LockInv, HistoryInv, StateTypeOK', NEW p \in Process, Plain(p)
    PROVE  Follows(p)
<1>1. ASSUME NEW q \in handle', NEW r \in Process, lease'[q] = "none", lease'[r] = "exclusive"
      PROVE  q \in overtaken'
  <2>1. q \in handle /\ q \in Process /\ q # r
    BY <1>1 DEF Plain, MigrationTypeOK, StateTypeOK
  <2>2. lease[r] = "exclusive"
    BY <1>1 DEF Plain
  <2>3. lease[q] = "none"
    BY <1>1, <2>1, <2>2 DEF LockInv
  <2>. QED
    BY <2>1, <2>2, <2>3 DEF HistoryInv, Plain
<1>2. overtaken' # {} => misled'
  BY DEF HistoryInv, Plain
<1>3. MigrationTypeOK'
  BY DEF MigrationTypeOK, Plain
<1>. QED
  BY <1>1, <1>2, <1>3 DEF Follows, HistoryInv, Plain

\* A step that leaves locks, handles and history alone is plain.
LEMMA QuietPlain ==
    ASSUME MigrationTypeOK, NEW p \in Process, UNCHANGED <<lease, handle, historyVars>>
    PROVE  Plain(p)
BY DEF Plain, historyVars, MigrationTypeOK

\* So is the end of a coordinator,
LEMMA EndPlain ==
    ASSUME MigrationTypeOK, NEW p \in Process, NEW state, End(p, state), overtaken' = overtaken,
           misled' \in BOOLEAN, misled => misled'
    PROVE  Plain(p)
<1>1. handle' = handle
  BY DEF End
<1>2. /\ \A q \in Process \ {p} : lease'[q] = lease[q]
      /\ lease'[p] = "exclusive" => lease[p] = "exclusive"
  BY DEF End, MigrationTypeOK, StateTypeOK
<1>. QED
  BY <1>1, <1>2 DEF Plain

\* its failure,
LEMMA FailurePlain ==
    ASSUME MigrationTypeOK, NEW p \in Process, Fail(p) \/ Corrupt(p)
    PROVE  Plain(p)
<1>1. PICK state : End(p, state)
  BY DEF Fail, Corrupt
<1>2. overtaken' = overtaken /\ misled' = misled
  BY DEF Fail, Corrupt, historyVars
<1>. QED
  BY <1>1, <1>2, EndPlain DEF MigrationTypeOK

\* a commit, whether it tells the truth or not,
LEMMA CommitPlain ==
    ASSUME MigrationTypeOK, NEW p \in Process, NEW kind, NEW committed, NEW next,
           Commit(p, kind, committed, next)
    PROVE  Plain(p)
<1>1. CASE UNCHANGED <<processVars, historyVars>>
  BY <1>1, QuietPlain DEF processVars
<1>2. CASE /\ End(p, GateAfterDrop(p, "Pending"))
           /\ misled' = (misled \/ (kind = "finalize" /\ manifest' # manifest))
           /\ UNCHANGED overtaken
  <2>1. misled' \in BOOLEAN /\ (misled => misled')
    BY <1>2, Zenon DEF MigrationTypeOK
  <2>. QED
    BY <1>2, <2>1, EndPlain
<1>. QED
  BY <1>1, <1>2 DEF Commit

\* the entry of a coordinator that does not become the sole owner,
LEMMA EntryPlain ==
    ASSUME MigrationTypeOK, NEW p \in Process,
           \/ \E q \in Script : BeginMigration(p, q)
           \/ BeginStartup(p) \/ Wait(p) \/ Drained(p) \/ Examine(p) \/ Relock(p) \/ Downgrade(p)
    PROVE  Plain(p)
<1>1. CASE \E q \in Script : BeginMigration(p, q)
  BY <1>1, QuietPlain DEF BeginMigration, processVars
<1>2. CASE Wait(p) \/ Drained(p) \/ Examine(p)
  BY <1>2, QuietPlain DEF Wait, Drained, Examine, processVars
<1>3. CASE BeginStartup(p)
  BY <1>3 DEF BeginStartup, Plain, historyVars, MigrationTypeOK, StateTypeOK
<1>4. CASE Relock(p)
  <2>1. CASE Fail(p)
    BY <2>1, FailurePlain
  <2>2. CASE ~ Fail(p)
    BY <1>4, <2>2 DEF Relock, Plain, historyVars, MigrationTypeOK, StateTypeOK
  <2>. QED
    BY <2>1, <2>2
<1>5. CASE Downgrade(p)
  BY <1>5 DEF Downgrade, Plain, historyVars, MigrationTypeOK, StateTypeOK
<1>. QED
  BY <1>1, <1>2, <1>3, <1>4, <1>5

\* every step on the files,
LEMMA FilesPlain ==
    ASSUME MigrationTypeOK, NEW p \in Process,
           \/ Classify(p) \/ FinishCompleted(p) \/ Preflight(p) \/ BeginJournal(p)
           \/ Resume(p) \/ ApplyShard(p) \/ Advance(p) \/ Validate(p) \/ Finalize(p) \/ Publish(p)
    PROVE  Plain(p)
<1>1. CASE Fail(p) \/ Corrupt(p)
  BY <1>1, FailurePlain
<1>2. CASE ~ (Fail(p) \/ Corrupt(p))
  <2>1. CASE Classify(p) \/ FinishCompleted(p) \/ Preflight(p) \/ Publish(p)
    BY <1>2, <2>1, MismatchFails, QuietPlain
       DEF Classify, FinishCompleted, Preflight, Publish, processVars
  <2>2. CASE Resume(p) \/ ApplyShard(p) \/ Validate(p)
    BY <1>2, <2>2, MismatchFails, QuietPlain DEF Resume, ApplyShard, Validate, Proceed, processVars
  <2>3. CASE BeginJournal(p) \/ Advance(p) \/ Finalize(p)
    BY <1>2, <2>3, CommitPlain DEF BeginJournal, Advance, Finalize
  <2>. QED
    BY <2>1, <2>2, <2>3
<1>. QED
  BY <1>1, <1>2

\* and every step of a client.
LEMMA ClientPlain ==
    ASSUME MigrationTypeOK, NEW p \in Process, ClientStep(p)
    PROVE  Plain(p)
<1>1. UNCHANGED <<lease, handle>>
  BY ClientFiles DEF MigrationTypeOK
<1>2. UNCHANGED historyVars
  BY DEF ClientStep, BeginOperation, EndOperation, SendNotice, BeginInspect, InspectManifest,
     InspectCompare, InspectGate, InspectDecide
<1>. QED
  BY <1>1, <1>2, QuietPlain

\* A sole owner overtakes the live handles whose lock was given up.
LEMMA OwnFollows ==
    ASSUME MigrationTypeOK, LockInv, HistoryInv, StateTypeOK', NEW p \in Process, Own(p)
    PROVE  Follows(p)
<1>1. CASE Fail(p)
  BY <1>1, FailurePlain, PlainFollows
<1>2. CASE ~ Fail(p) /\ ~ Alone(p)
  <2>1. Plain(p)
    BY <1>2 DEF Own, Plain, historyVars, MigrationTypeOK, StateTypeOK
  <2>. QED
    BY <2>1, PlainFollows
<1>3. CASE ~ Fail(p) /\ Alone(p)
  <2>1. /\ handle' = handle /\ overtaken' = overtaken \cup Unseen(p)
        /\ misled' = (misled \/ Unseen(p) # {})
        /\ lease' = [lease EXCEPT ![p] = "exclusive"]
    BY <1>3 DEF Own
  <2>2. lease'[p] = "exclusive" /\ \A q \in Process \ {p} : lease'[q] = lease[q]
    BY <2>1 DEF MigrationTypeOK, StateTypeOK
  <2>3. MigrationTypeOK'
    BY <2>1 DEF MigrationTypeOK, Unseen
  <2>4. ASSUME NEW q \in handle', lease'[q] = "none" PROVE q \in overtaken'
    <3>1. q \in handle \ {p} /\ q \in Process
      BY <2>1, <2>2, <2>4 DEF MigrationTypeOK, StateTypeOK
    <3>. QED
      BY <2>1, <2>2, <2>4, <3>1 DEF Unseen
  <2>5. (overtaken' # {} => misled') /\ (misled => misled')
    BY <2>1 DEF HistoryInv
  <2>. QED
    BY <2>1, <2>3, <2>4, <2>5 DEF Follows, HistoryInv
<1>. QED
  BY <1>1, <1>2, <1>3

\* A process that publishes or dies is no longer overtaken.
LEMMA LeaveFollows ==
    ASSUME MigrationTypeOK, LockInv, HistoryInv, StateTypeOK', LockInv', NEW p \in Process,
           overtaken' = overtaken \ {p}, misled' = misled,
           \A q \in Process \ {p} : lease'[q] = lease[q] /\ (q \in handle' <=> q \in handle),
           lease'[p] = "exclusive" => lease[p] = "exclusive",
           p \in handle' => lease'[p] # "none" /\ coord[p].step = "ready"
    PROVE  Follows(p)
<1>1. MigrationTypeOK'
  BY DEF MigrationTypeOK, StateTypeOK
<1>2. ASSUME NEW q \in handle', NEW r \in Process, lease'[q] = "none", lease'[r] = "exclusive"
      PROVE  q \in overtaken'
  <2>1. q \in Process \ {p} /\ q \in handle
    BY <1>2 DEF StateTypeOK
  <2>2. lease[q] = "none" /\ lease[r] = "exclusive"
    BY <1>2, <2>1
  <2>. QED
    BY <2>1, <2>2 DEF HistoryInv
<1>3. overtaken' # {} => misled'
  BY DEF HistoryInv
<1>. QED
  BY <1>1, <1>2, <1>3 DEF Follows, HistoryInv

\* A startup, the end of a coordinator and a crash.
LEMMA StartupFollows ==
    ASSUME MigrationTypeOK, LockInv, HistoryInv, StateTypeOK', LockInv', NEW p \in Process,
           Load(p) \/ Verify(p) \/ PublishReady(p) \/ GiveUp(p) \/ Die(p)
    PROVE  Follows(p)
<1>1. CASE Fail(p) \/ Corrupt(p)
  BY <1>1, FailurePlain, PlainFollows
<1>2. ASSUME ~ (Fail(p) \/ Corrupt(p)), Load(p) \/ Verify(p) \/ GiveUp(p) PROVE Plain(p)
  <2>1. CASE End(p, "Degraded") /\ UNCHANGED historyVars
    BY <2>1, EndPlain DEF historyVars, MigrationTypeOK
  <2>2. CASE UNCHANGED <<lease, handle, historyVars>>
    BY <2>2, QuietPlain
  <2>. QED
    BY <1>2, <2>1, <2>2, MismatchFails DEF Load, Verify, GiveUp, Proceed, processVars
<1>3. ASSUME ~ (Fail(p) \/ Corrupt(p)), PublishReady(p) PROVE Follows(p)
  <2>1. /\ overtaken' = overtaken \ {p} /\ misled' = misled
        /\ coord[p].step = "ready" /\ coord'[p].step = "idle" /\ handle' = handle \cup {p}
    BY <1>3, CoordinatorParts DEF PublishReady, MigrationTypeOK, StateTypeOK
  <2>2. /\ \A q \in Process \ {p} : lease'[q] = lease[q] /\ (q \in handle' <=> q \in handle)
        /\ lease'[p] = "exclusive" => lease[p] = "exclusive"
    BY <1>3, <2>1 DEF PublishReady, MigrationTypeOK, StateTypeOK
  <2>3. lease'[p] # "none"
    BY <2>1 DEF LockInv
  <2>. QED
    BY <2>1, <2>2, <2>3, LeaveFollows
<1>4. CASE Die(p)
  <2>1. /\ overtaken' = overtaken \ {p} /\ misled' = misled /\ p \notin handle'
        /\ \A q \in Process \ {p} : lease'[q] = lease[q] /\ (q \in handle' <=> q \in handle)
        /\ lease'[p] = "none"
    BY <1>4 DEF Die, MigrationTypeOK, StateTypeOK
  <2>. QED
    BY <2>1, LeaveFollows
<1>. QED
  BY <1>1, <1>2, <1>3, <1>4, PlainFollows

\* Every step of a process does to the history what it may.
LEMMA StepFollows ==
    ASSUME MigrationTypeOK, DurableInv, HistoryInv, StateTypeOK', DurableInv', NEW p \in Process,
           CoordinatorStep(p) \/ ClientStep(p)
    PROVE  Follows(p)
<1>0. LockInv /\ LockInv'
  BY DEF DurableInv
<1>1. CASE ClientStep(p)
  BY <1>0, <1>1, ClientPlain, PlainFollows
<1>2. CASE CoordinatorStep(p)
  BY <1>0, <1>2, EntryPlain, FilesPlain, PlainFollows, OwnFollows, StartupFollows
     DEF CoordinatorStep
<1>. QED
  BY <1>1, <1>2

\* Types, files and history: what holds whatever happens.
Durable == MigrationTypeOK /\ DurableInv /\ HistoryInv

\* Every step keeps them.
LEMMA StepKeeps ==
    ASSUME Durable, [MigrationNext]_migrationVars
    PROVE  Durable'
<1>0. StateTypeOK' /\ DurableInv'
  BY StepType, StepDurable DEF Durable, MigrationTypeOK, DurableInv
<1>1. CASE UNCHANGED migrationVars
  BY <1>0, <1>1 DEF Durable, migrationVars, processVars, historyVars, MigrationTypeOK, HistoryInv
<1>2. ASSUME NEW p \in Process, CoordinatorStep(p) \/ ClientStep(p) PROVE Durable'
  BY <1>0, <1>2, StepFollows DEF Durable, Follows
<1>. QED
  BY <1>1, <1>2 DEF MigrationNext

\* The files of a root and the knowledge of its coordinators, whatever a failed flock
\* conversion gives up and whichever commits report an error that are durable
\* (apply_schema_migration, resume_active_schema_migration, Storage::open); and a live
\* handle without a lock beside a sole owner is on record as overtaken.
THEOREM DurableSafe == MigrationSpec => []Durable
<1>1. MigrationInit => Durable
  BY InitDurable DEF MigrationInit, Durable, MigrationTypeOK, HistoryInv
<1>2. Durable /\ [MigrationNext]_migrationVars => Durable'
  BY StepKeeps
<1>. QED
  BY <1>1, <1>2, PTL DEF MigrationSpec

\* Every variable keeps its type: in particular the journal never names a shard beyond
\* the last, and no history contains what is not a script.
THEOREM MigrationTyped == MigrationSpec => []MigrationTypeOK
<1>1. Durable => MigrationTypeOK
  BY DEF Durable
<1>. QED
  BY <1>1, DurableSafe, PTL

\* Whatever dies or fails wherever, the shards are the prefix of the migration that the
\* journal says (validate_schema_migration_prefix, advance_schema_migration).
THEOREM JournalSafe == MigrationSpec => []JournalPrefix
<1>1. Durable => JournalPrefix
  BY DEF Durable, DurableInv
<1>. QED
  BY <1>1, DurableSafe, PTL

\* No script is applied twice to a root, although a call that is told its commit failed
\* may repeat it from any process (classify_schema_migration, begin_schema_migration).
THEOREM ScriptsSafe == MigrationSpec => []ScriptOnce
<1>1. Durable => ScriptOnce
  BY DEF Durable, DurableInv
<1>. QED
  BY <1>1, DurableSafe, PTL

--------------------------------------------------------------------------------
(* Gates, catalogs and inspections.                                        *)

\* What the invariant says of one process: its gate,
GateOf(p) ==
    /\ gate[p] = "Migrating" <=> coord[p].step # "idle"
    /\ coord[p].step # "idle" /\ ~ coord[p].opening => p \in handle
    /\ coord[p].step \notin {"idle", "drain"} \/ Quiesced(p) => active[p] = {}
    /\ active[p] # {} => gate[p] # "Pending" /\ (gate[p] = "Migrating" => restore[p] = "Ready")
    /\ waiter[p] # "none" => coord[p].step = "drain"
    /\ p \notin handle => active[p] = {} /\ inspect[p].step = "idle" /\ gate[p] # "Pending"
    /\ gate[p] # "Degraded"

\* its coordinator and the journal,
JournalOf(p) ==
    /\ manifest.active # NoScript /\ p \in handle =>
          gate[p] # "Ready" /\ (gate[p] = "Migrating" => restore[p] = "Pending")
    /\ coord[p].step \in {"finish", "preflight", "begin", "publish", "verify", "ready"} =>
          manifest.active = NoScript

\* its catalogs,
CatalogOf(p) ==
    /\ p \in handle => catalog[p] = IF coord[p].step = "publish" THEN Generation - 1
                                    ELSE Generation
    /\ coord[p].step = "ready" => catalog[p] = Generation

\* and its inspection.
InspectOf(p) ==
    LET i == inspect[p]
    IN  /\ i.step # "idle" => i.before <= catalog[p]
        /\ i.step \in {"read", "differs", "gate"} => i.before <= i.read /\ i.read <= Generation
        /\ i.step \in {"differs", "gate"} => i.read # i.before
        /\ i.step = "gate" /\ catalog[p] = i.before => i.gate = "Migrating"

Sound(p) == GateOf(p) /\ JournalOf(p) /\ CatalogOf(p) /\ InspectOf(p)

\* The integrity that the manifest records follows its journal.
StateInv == manifest.state = IF manifest.active = NoScript THEN "Ready" ELSE "Migrating"

\* The invariant as long as nothing has misled the code.
ClearInv ==
    /\ DurableInv /\ HistoryInv /\ ~ misled
    /\ GateInv /\ JournalInv /\ CatalogInv /\ InspectInv /\ Healthy

\* The invariant speaks of one process at a time.
LEMMA MigrationSplit ==
    ASSUME StateTypeOK, ClearInv
    PROVE  DurableInv /\ StateInv /\ \A p \in Process : Sound(p) /\ Knows(p)
<1>1. ASSUME NEW p \in Process PROVE GateOf(p)
  BY DEF ClearInv, GateInv, Healthy, GateOf
<1>2. ASSUME NEW p \in Process PROVE JournalOf(p)
  BY DEF ClearInv, JournalInv, JournalOf
<1>3. ASSUME NEW p \in Process PROVE CatalogOf(p)
  BY DEF ClearInv, CatalogInv, CatalogOf
<1>4. ASSUME NEW p \in Process PROVE InspectOf(p)
  BY DEF ClearInv, InspectInv, InspectOf
<1>. QED
  BY <1>1, <1>2, <1>3, <1>4, StoreSplit DEF ClearInv, DurableInv, JournalInv, StateInv, Sound

\* And can be put together again after a step.
LEMMA MigrationJoin ==
    ASSUME StateTypeOK', DurableInv', HistoryInv', ~ misled', StateInv', \A p \in Process : Sound(p)'
    PROVE  ClearInv'
<1>1. GateInv' /\ Healthy'
  BY DEF GateInv, Healthy, StateInv, Sound, GateOf
<1>2. JournalInv'
  BY DEF JournalInv, StateInv, Sound, JournalOf, StateTypeOK
<1>3. CatalogInv'
  BY DEF CatalogInv, Sound, CatalogOf
<1>4. InspectInv'
  BY DEF InspectInv, Sound, InspectOf
<1>. QED
  BY <1>1, <1>2, <1>3, <1>4 DEF ClearInv

\* A step of p leaves what other processes have in memory alone.
OthersSame(p) ==
    \A q \in Process \ {p} :
        /\ gate'[q] = gate[q] /\ active'[q] = active[q] /\ restore'[q] = restore[q]
        /\ waiter'[q] = waiter[q] /\ coord'[q] = coord[q] /\ inspect'[q] = inspect[q]
        /\ catalog'[q] = catalog[q] /\ lease'[q] = lease[q]
        /\ q \in handle' <=> q \in handle

\* A process that is left alone stays sound: if the manifest is left alone too, or p is
\* the only process of the root.
LEMMA OthersSound ==
    ASSUME StateTypeOK, ClearInv, NEW p \in Process, OthersSame(p),
           manifest' = manifest \/ coord[p].step \in Exclusive, NEW q \in Process \ {p}
    PROVE  Sound(q)'
<1>1. Sound(q) /\ LockInv
  BY MigrationSplit DEF DurableInv
<1>2. CASE manifest' = manifest
  <2>1. Generation' = Generation
    BY <1>2 DEF Generation
  <2>2. GateOf(q)'
    BY <1>1 DEF Sound, OthersSame, GateOf, Quiesced
  <2>3. JournalOf(q)'
    BY <1>1, <1>2 DEF Sound, OthersSame, JournalOf
  <2>4. CatalogOf(q)'
    BY <1>1, <2>1 DEF Sound, OthersSame, CatalogOf
  <2>5. InspectOf(q)'
    BY <1>1, <2>1 DEF Sound, OthersSame, InspectOf
  <2>. QED
    BY <2>2, <2>3, <2>4, <2>5 DEF Sound
<1>3. CASE coord[p].step \in Exclusive
  <2>1. lease[q] = "none" /\ coord[q].step \in {"idle", "relock"}
    BY <1>1, <1>3, OthersOut
  <2>2. q \notin handle
    BY <1>1, <1>3, <2>1 DEF ClearInv, HistoryInv, LockInv
  <2>3. inspect[q].step = "idle"
    BY <1>1, <2>2 DEF Sound, GateOf
  <2>4. GateOf(q)'
    BY <1>1 DEF Sound, OthersSame, GateOf, Quiesced
  <2>5. JournalOf(q)' /\ CatalogOf(q)' /\ InspectOf(q)'
    BY <2>1, <2>2, <2>3 DEF OthersSame, JournalOf, CatalogOf, InspectOf
  <2>. QED
    BY <2>4, <2>5 DEF Sound
<1>. QED
  BY <1>2, <1>3

\* A step of p that leaves the manifest alone keeps the invariant if it leaves p sound.
LEMMA MoveSound ==
    ASSUME StateTypeOK, ClearInv, StateTypeOK', DurableInv', HistoryInv', ~ misled',
           NEW p \in Process, OthersSame(p), Sound(p)', manifest' = manifest
    PROVE  ClearInv'
<1>1. StateInv'
  BY MigrationSplit DEF StateInv
<1>2. \A q \in Process : Sound(q)'
  BY OthersSound
<1>. QED
  BY <1>1, <1>2, MigrationJoin

\* So does a step of the only process of the root that changes the manifest.
LEMMA WriteSound ==
    ASSUME StateTypeOK, ClearInv, StateTypeOK', DurableInv', HistoryInv', ~ misled',
           NEW p \in Process, OthersSame(p), Sound(p)', coord[p].step \in Exclusive, StateInv'
    PROVE  ClearInv'
<1>1. \A q \in Process : Sound(q)'
  BY OthersSound
<1>. QED
  BY <1>1, MigrationJoin

\* A coordinator that ends before its publication leaves the gate as the journal asks.
LEMMA EndSound ==
    ASSUME StateTypeOK, ClearInv, NEW p \in Process, NEW state \in {"Ready", "Pending"},
           End(p, state), coord[p].step \notin {"idle", "publish"},
           active[p] # {} => state = "Ready",
           manifest'.active # NoScript /\ p \in handle => state = "Pending",
           Generation' = Generation
    PROVE  OthersSame(p) /\ Sound(p)'
<1>0. Sound(p) /\ state \in GateState
  BY MigrationSplit DEF GateState
<1>1. OthersSame(p)
  BY <1>0, EndEffect DEF OthersSame
<1>2. /\ coord'[p].step = "idle" /\ gate'[p] = IF p \in handle THEN state ELSE "Ready"
      /\ waiter'[p] = "none"
      /\ active' = active /\ handle' = handle /\ catalog' = catalog /\ inspect' = inspect
  BY <1>0, EndEffect, CoordinatorParts
<1>3. GateOf(p)'
  BY <1>0, <1>2 DEF Sound, GateOf, Quiesced
<1>4. JournalOf(p)'
  BY <1>2 DEF JournalOf
<1>5. CatalogOf(p)' /\ InspectOf(p)'
  BY <1>0, <1>2 DEF Sound, CatalogOf, InspectOf
<1>. QED
  BY <1>1, <1>3, <1>4, <1>5 DEF Sound

\* So does one that fails.
LEMMA FailSound ==
    ASSUME StateTypeOK, ClearInv, StateTypeOK', DurableInv', HistoryInv', ~ misled', NEW p \in Process,
           Fail(p), coord[p].step \notin {"idle", "publish"}
    PROVE  ClearInv'
<1>0. Sound(p) /\ gate[p] = "Migrating"
  BY MigrationSplit DEF Sound, GateOf
<1>1. restore[p] \in {"Ready", "Pending"} /\ GateAfterDrop(p, restore[p]) = restore[p]
  <2>1. restore[p] \in {"Ready", "Pending"}
    BY DEF StateTypeOK, GateTypeOK
  <2>. QED
    BY <1>0, <2>1 DEF GateAfterDrop
<1>2. End(p, restore[p]) /\ manifest' = manifest
  BY <1>1 DEF Fail, storeVars
<1>3. active[p] # {} => restore[p] = "Ready"
  BY <1>0 DEF Sound, GateOf
<1>4. manifest.active # NoScript /\ p \in handle => restore[p] = "Pending"
  BY <1>0 DEF Sound, JournalOf
<1>5. Generation' = Generation
  BY <1>2 DEF Generation
<1>6. OthersSame(p) /\ Sound(p)'
  BY <1>1, <1>2, <1>3, <1>4, <1>5, EndSound
<1>. QED
  BY <1>2, <1>6, MoveSound

\* A coordinator at a step where the journal is idle finds all shards at the schema of the
\* manifest.
LEMMA SettledShards ==
    ASSUME StateTypeOK, ClearInv, manifest.active = NoScript, NEW s \in Shard
    PROVE  shard[s] = manifest.history /\ Len(shard[s]) = Generation
BY DEF ClearInv, DurableInv, JournalPrefix, Generation

\* A coordinator that only goes to another step stays sound.
LEMMA GotoSound ==
    ASSUME StateTypeOK, ClearInv, NEW p \in Process, NEW step \in Step, Goto(p, step),
           UNCHANGED <<gate, active, restore, waiter, handle, inspect, catalog, lease, manifest>>,
           coord[p].step \notin {"idle", "drain", "publish"},
           step \notin {"idle", "drain", "publish", "ready", "relock"},
           step \in {"finish", "preflight", "begin", "verify"} => manifest.active = NoScript
    PROVE  OthersSame(p) /\ Sound(p)'
<1>0. Sound(p)
  BY MigrationSplit
<1>1. OthersSame(p)
  BY GotoEffect DEF OthersSame
<1>2. coord'[p].step = step /\ coord'[p].opening = coord[p].opening /\ Generation' = Generation
  BY GotoEffect DEF Generation
<1>3. GateOf(p)'
  BY <1>0, <1>2 DEF Sound, GateOf, Quiesced
<1>4. JournalOf(p)'
  BY <1>0, <1>2 DEF Sound, JournalOf
<1>5. CatalogOf(p)' /\ InspectOf(p)'
  BY <1>0, <1>2 DEF Sound, CatalogOf, InspectOf
<1>. QED
  BY <1>1, <1>3, <1>4, <1>5 DEF Sound

\* Closing the gate keeps a process sound.
LEMMA CloseSound ==
    ASSUME StateTypeOK, ClearInv, NEW p \in Process, CloseGate(p),
           coord[p].step = "idle", coord'[p].step = "drain",
           ~ coord'[p].opening => p \in handle,
           \A q \in Process \ {p} : coord'[q] = coord[q] /\ lease'[q] = lease[q],
           UNCHANGED <<handle, inspect, catalog, manifest>>
    PROVE  OthersSame(p) /\ Sound(p)'
<1>0. Sound(p)
  BY MigrationSplit
<1>1. /\ gate[p] \in {"Ready", "Pending"} /\ gate'[p] = "Migrating" /\ restore'[p] = gate[p]
      /\ waiter'[p] = "start" /\ active' = active
      /\ \A q \in Process \ {p} : /\ gate'[q] = gate[q] /\ restore'[q] = restore[q]
                                  /\ waiter'[q] = waiter[q]
  BY DEF CloseGate, StateTypeOK, GateTypeOK
<1>2. OthersSame(p) /\ Generation' = Generation
  BY <1>1 DEF OthersSame, Generation
<1>3. GateOf(p)'
  BY <1>0, <1>1 DEF Sound, GateOf, Quiesced
<1>4. JournalOf(p)'
  BY <1>0, <1>1 DEF Sound, JournalOf
<1>5. CatalogOf(p)' /\ InspectOf(p)'
  BY <1>0, <1>2 DEF Sound, CatalogOf, InspectOf
<1>. QED
  BY <1>2, <1>3, <1>4, <1>5 DEF Sound

\* The entry of a coordinator, whatever its conversion gives up.
LEMMA EntrySound ==
    ASSUME StateTypeOK, ClearInv, StateTypeOK', DurableInv', HistoryInv', ~ misled',
           NEW p \in Process,
           \/ \E q \in Script : BeginMigration(p, q)
           \/ BeginStartup(p) \/ Wait(p) \/ Drained(p) \/ Examine(p) \/ Own(p) \/ Relock(p)
           \/ Downgrade(p)
    PROVE  ClearInv'
<1>0. Sound(p) /\ LockInv
  BY MigrationSplit DEF DurableInv
<1>1. ASSUME NEW q \in Script, BeginMigration(p, q) PROVE ClearInv'
  <2>1. /\ coord'[p].step = "drain" /\ p \in handle /\ manifest' = manifest
        /\ \A r \in Process \ {p} : coord'[r] = coord[r]
        /\ UNCHANGED <<handle, inspect, catalog, lease>>
    BY <1>1 DEF BeginMigration, StateTypeOK, storeVars, processVars
  <2>2. OthersSame(p) /\ Sound(p)'
    BY <1>1, <2>1, CloseSound DEF BeginMigration
  <2>. QED
    BY <2>1, <2>2, MoveSound
<1>2. CASE BeginStartup(p)
  <2>1. /\ coord'[p].step = "drain" /\ coord'[p].opening /\ manifest' = manifest
        /\ \A r \in Process \ {p} : coord'[r] = coord[r] /\ lease'[r] = lease[r]
        /\ UNCHANGED <<handle, inspect, catalog>>
    BY <1>2 DEF BeginStartup, StateTypeOK, storeVars
  <2>2. OthersSame(p) /\ Sound(p)'
    BY <1>2, <2>1, CloseSound DEF BeginStartup
  <2>. QED
    BY <2>1, <2>2, MoveSound
<1>3. CASE Wait(p)
  <2>1. /\ waiter[p] # "none" /\ waiter'[p] = "drained" => active[p] = {}
        /\ \A q \in Process \ {p} : waiter'[q] = waiter[q]
        /\ UNCHANGED <<gate, active, restore, coord, handle, inspect, catalog, lease, manifest>>
    BY <1>3 DEF Wait, WaitForQuiescence, StateTypeOK, GateTypeOK, storeVars, processVars
  <2>2. waiter[p] # "none"
    BY <1>3 DEF Wait, WaitForQuiescence
  <2>3. OthersSame(p) /\ Generation' = Generation
    BY <2>1 DEF OthersSame, Generation
  <2>4. GateOf(p)'
    BY <1>0, <2>1, <2>2 DEF Sound, GateOf, Quiesced
  <2>5. JournalOf(p)' /\ CatalogOf(p)' /\ InspectOf(p)'
    BY <1>0, <2>1, <2>3 DEF Sound, JournalOf, CatalogOf, InspectOf
  <2>6. Sound(p)'
    BY <2>4, <2>5 DEF Sound
  <2>. QED
    BY <2>1, <2>3, <2>6, MoveSound
<1>4. CASE Drained(p)
  <2>1. /\ coord'[p].step \in {"examine", "own"} /\ coord'[p].opening = coord[p].opening
        /\ \A q \in Process \ {p} : coord'[q] = coord[q]
    BY <1>4, GotoEffect DEF Drained, Step
  <2>2. /\ coord[p].step = "drain" /\ Quiesced(p) /\ waiter'[p] = "none"
        /\ \A q \in Process \ {p} : waiter'[q] = waiter[q]
        /\ UNCHANGED <<gate, active, restore, handle, inspect, catalog, lease, manifest>>
    BY <1>4 DEF Drained, StateTypeOK, GateTypeOK, storeVars, processVars
  <2>3. OthersSame(p) /\ Generation' = Generation
    BY <2>1, <2>2 DEF OthersSame, Generation
  <2>4. GateOf(p)'
    BY <1>0, <2>1, <2>2 DEF Sound, GateOf, Quiesced
  <2>5. JournalOf(p)' /\ CatalogOf(p)' /\ InspectOf(p)'
    BY <1>0, <2>1, <2>2, <2>3 DEF Sound, JournalOf, CatalogOf, InspectOf
  <2>6. Sound(p)'
    BY <2>4, <2>5 DEF Sound
  <2>. QED
    BY <2>2, <2>3, <2>6, MoveSound
<1>5. CASE Examine(p)
  <2>1. /\ \E step \in {"load", "own"} : Goto(p, step) /\ step \in Step
        /\ coord[p].step = "examine"
        /\ UNCHANGED <<gate, active, restore, waiter, handle, inspect, catalog, lease, manifest>>
    BY <1>5 DEF Examine, gateVars, storeVars, processVars, Step
  <2>2. OthersSame(p) /\ Sound(p)'
    BY <2>1, GotoSound
  <2>. QED
    BY <2>1, <2>2, MoveSound
<1>6. CASE Own(p)
  <2>1. CASE Fail(p)
    BY <1>6, <2>1, FailSound DEF Own
  <2>2. CASE ~ Fail(p)
    <3>1. PICK step \in {"load", "classify", "relock"} : Goto(p, step)
      BY <1>6, <2>2 DEF Own
    <3>2. /\ step \in Step /\ coord[p].step = "own"
          /\ UNCHANGED <<gate, active, restore, waiter, handle, inspect, catalog, manifest>>
          /\ \A q \in Process \ {p} : lease'[q] = lease[q]
      BY <1>6, <2>2, <3>1 DEF Own, Step, Exclusive, gateVars, storeVars, StateTypeOK
    <3>4. /\ coord'[p].step = step /\ coord'[p].opening = coord[p].opening
          /\ \A q \in Process \ {p} : coord'[q] = coord[q]
      BY <3>1, <3>2, GotoEffect
    <3>5. OthersSame(p) /\ Generation' = Generation
      BY <3>2, <3>4 DEF OthersSame, Generation
    <3>6. GateOf(p)'
      BY <1>0, <3>1, <3>2, <3>4 DEF Sound, GateOf, Quiesced
    <3>7. JournalOf(p)' /\ CatalogOf(p)' /\ InspectOf(p)'
      BY <1>0, <3>1, <3>2, <3>4, <3>5 DEF Sound, JournalOf, CatalogOf, InspectOf
    <3>8. Sound(p)'
      BY <3>6, <3>7 DEF Sound
    <3>. QED
      BY <3>2, <3>5, <3>8, MoveSound
  <2>. QED
    BY <2>1, <2>2
<1>7. CASE Relock(p)
  <2>1. CASE Fail(p)
    BY <1>7, <2>1, FailSound DEF Relock
  <2>2. CASE ~ Fail(p)
    <3>1. /\ \A q \in Process \ {p} : lease'[q] = lease[q]
          /\ UNCHANGED <<gate, active, restore, waiter, coord, handle, inspect, catalog, manifest>>
      BY <1>7, <2>2 DEF Relock, StateTypeOK, gateVars, storeVars
    <3>2. OthersSame(p) /\ Generation' = Generation
      BY <3>1 DEF OthersSame, Generation
    <3>3. GateOf(p)'
      BY <1>0, <3>1 DEF Sound, GateOf, Quiesced
    <3>4. JournalOf(p)' /\ CatalogOf(p)' /\ InspectOf(p)'
      BY <1>0, <3>1, <3>2 DEF Sound, JournalOf, CatalogOf, InspectOf
    <3>5. Sound(p)'
      BY <3>3, <3>4 DEF Sound
    <3>. QED
      BY <3>1, <3>2, <3>5, MoveSound
  <2>. QED
    BY <2>1, <2>2
<1>8. CASE Downgrade(p)
  <2>1. /\ lease'[p] = "shared" /\ \A q \in Process \ {p} : lease'[q] = lease[q]
        /\ UNCHANGED <<gate, active, restore, waiter, coord, handle, inspect, catalog, manifest>>
    BY <1>8 DEF Downgrade, StateTypeOK, gateVars, storeVars
  <2>2. OthersSame(p) /\ Generation' = Generation
    BY <2>1 DEF OthersSame, Generation
  <2>3. GateOf(p)'
    BY <1>0, <2>1 DEF Sound, GateOf, Quiesced
  <2>4. JournalOf(p)' /\ CatalogOf(p)' /\ InspectOf(p)'
    BY <1>0, <2>1, <2>2 DEF Sound, JournalOf, CatalogOf, InspectOf
  <2>5. Sound(p)'
    BY <2>3, <2>4 DEF Sound
  <2>. QED
    BY <2>1, <2>2, <2>5, MoveSound
<1>. QED
  BY <1>1, <1>2, <1>3, <1>4, <1>5, <1>6, <1>7, <1>8

\* A coordinator that takes up the journal leaves its gate pending from here on.
LEMMA ResumeSound ==
    ASSUME StateTypeOK, ClearInv, NEW p \in Process,
           coord[p].step \in {"classify", "load"}, coord'[p].step = "resume",
           coord'[p].opening = coord[p].opening,
           \A q \in Process \ {p} : coord'[q] = coord[q],
           restore' = [restore EXCEPT ![p] = "Pending"],
           UNCHANGED <<gate, active, waiter, handle, inspect, catalog, lease, manifest>>
    PROVE  OthersSame(p) /\ Sound(p)'
<1>0. Sound(p)
  BY MigrationSplit
<1>1. restore'[p] = "Pending" /\ \A q \in Process \ {p} : restore'[q] = restore[q]
  BY DEF StateTypeOK, GateTypeOK
<1>2. OthersSame(p) /\ Generation' = Generation
  BY <1>1 DEF OthersSame, Generation
<1>3. GateOf(p)'
  BY <1>0 DEF Sound, GateOf, Quiesced
<1>4. JournalOf(p)'
  BY <1>0, <1>1 DEF Sound, JournalOf
<1>5. CatalogOf(p)' /\ InspectOf(p)'
  BY <1>0, <1>2 DEF Sound, CatalogOf, InspectOf
<1>. QED
  BY <1>2, <1>3, <1>4, <1>5 DEF Sound

\* A commit keeps the gates, unless it lies and is the one that moves the generation.
LEMMA CommitSound ==
    ASSUME StateTypeOK, ClearInv, StateTypeOK', DurableInv', HistoryInv', ~ misled', NEW p \in Process,
           NEW kind, NEW committed, NEW next \in {"resume", "apply", "publish"},
           coord[p].step \in {"begin", "advance", "finalize"}, Commit(p, kind, committed, next),
           committed.state = IF committed.active = NoScript THEN "Ready" ELSE "Migrating",
           Len(committed.history) = IF next = "publish" THEN Generation + 1 ELSE Generation,
           next = "publish" => committed.active = NoScript /\ kind = "finalize"
    PROVE  ClearInv'
<1>0. /\ Sound(p) /\ StateInv /\ gate[p] = "Migrating" /\ active[p] = {}
      /\ coord[p].step \in Exclusive /\ Generation \in Nat
  BY MigrationSplit, ManifestParts DEF Sound, GateOf, Exclusive
<1>1. CASE /\ manifest' = committed /\ Goto(p, next)
           /\ restore' = [restore EXCEPT ![p] = "Pending"]
           /\ UNCHANGED <<gate, active, notices, waiter, processVars, inspect>>
  <2>1. /\ coord'[p].step = next /\ coord'[p].opening = coord[p].opening
        /\ \A q \in Process \ {p} : coord'[q] = coord[q]
    BY <1>1, GotoEffect DEF Step, Exclusive
  <2>2. restore'[p] = "Pending" /\ \A q \in Process \ {p} : restore'[q] = restore[q]
    BY <1>1 DEF StateTypeOK, GateTypeOK
  <2>3. OthersSame(p)
    BY <1>1, <2>1, <2>2 DEF OthersSame, processVars
  <2>4. Generation' = IF next = "publish" THEN Generation + 1 ELSE Generation
    BY <1>1 DEF Generation
  <2>5. GateOf(p)'
    BY <1>0, <1>1, <2>1 DEF Sound, GateOf, Quiesced, processVars
  <2>6. JournalOf(p)'
    BY <1>0, <1>1, <2>1, <2>2 DEF Sound, JournalOf, processVars
  <2>7. CatalogOf(p)'
    BY <1>0, <1>1, <2>1, <2>4 DEF Sound, CatalogOf, processVars
  <2>8. InspectOf(p)'
    <3>1. inspect[p].read \in Nat
      BY DEF StateTypeOK, Inspection
    <3>. QED
      BY <1>0, <1>1, <2>4, <3>1 DEF Sound, InspectOf, processVars
  <2>9. StateInv' /\ Sound(p)'
    BY <1>1, <2>5, <2>6, <2>7, <2>8 DEF StateInv, Sound
  <2>. QED
    BY <1>0, <2>3, <2>9, WriteSound
<1>2. CASE /\ End(p, GateAfterDrop(p, "Pending"))
           /\ manifest' \in {manifest} \cup (IF kind \in Ambiguous THEN {committed} ELSE {})
           /\ misled' = (misled \/ (kind = "finalize" /\ manifest' # manifest))
  <2>0. next = "publish" => manifest' = manifest
    BY <1>2
  <2>1. End(p, "Pending")
    BY <1>0, <1>2 DEF GateAfterDrop
  <2>2. Generation' = Generation /\ StateInv'
    BY <1>0, <1>2, <2>0 DEF Generation, StateInv
  <2>3. OthersSame(p) /\ Sound(p)'
    BY <1>0, <2>1, <2>2, EndSound
  <2>. QED
    BY <1>0, <2>2, <2>3, WriteSound
<1>. QED
  BY <1>1, <1>2 DEF Commit

\* Classifying, checking and journaling a script.
LEMMA JournalSound ==
    ASSUME StateTypeOK, ClearInv, StateTypeOK', DurableInv', HistoryInv', ~ misled', NEW p \in Process,
           Classify(p) \/ FinishCompleted(p) \/ Preflight(p) \/ BeginJournal(p)
    PROVE  ClearInv'
<1>0. Sound(p) /\ Knows(p) /\ Generation \in Nat
  BY MigrationSplit, ManifestParts
<1>1. ASSUME Fail(p) PROVE ClearInv'
  BY <1>1, FailSound DEF Classify, FinishCompleted, Preflight, BeginJournal
<1>2. ASSUME Classify(p), ~ Fail(p) PROVE ClearInv'
  <2>1. CASE /\ restore' = [restore EXCEPT ![p] = "Pending"]
             /\ Goto(p, "resume")
             /\ UNCHANGED <<gate, active, notices, waiter, storeVars, processVars, inspect>>
    <3>1. OthersSame(p) /\ Sound(p)' /\ manifest' = manifest
      BY <1>2, <2>1, GotoEffect, ResumeSound DEF Classify, storeVars, processVars, Step, Exclusive
    <3>. QED
      BY <3>1, MoveSound
  <2>2. CASE /\ manifest.active = NoScript
             /\ Goto(p, IF Applied(coord[p].script) THEN "finish" ELSE "preflight")
             /\ UNCHANGED <<gateVars, storeVars, processVars, inspect>>
    <3>1. \E step \in {"finish", "preflight"} : Goto(p, step) /\ step \in Step
      BY <2>2 DEF Step, Exclusive
    <3>2. OthersSame(p) /\ Sound(p)' /\ manifest' = manifest
      BY <1>2, <2>2, <3>1, GotoSound DEF Classify, gateVars, storeVars, processVars
    <3>. QED
      BY <3>2, MoveSound
  <2>. QED
    BY <1>2, <2>1, <2>2 DEF Classify
<1>3. ASSUME FinishCompleted(p) PROVE ClearInv'
  <2> DEFINE done == CHOOSE i \in 1 .. Generation : manifest.history[i] = coord[p].script
             live == IF catalog[p] < done THEN done ELSE catalog[p]
  <2>1. /\ coord[p].step = "finish" /\ ~ coord[p].opening /\ p \in handle
        /\ manifest.active = NoScript /\ catalog[p] = Generation
    BY <1>0, <1>3 DEF FinishCompleted, Knows, Sound, GateOf, JournalOf, CatalogOf
  <2>2. done \in 1 .. Generation
    BY <1>0, <2>1 DEF Knows, Applied
  <2>3. live = Generation /\ ~ (catalog[p] < done - 1)
    BY <1>0, <2>1, <2>2
  <2>4. {s \in Shard : Len(shard[s]) # live} = {}
    BY <2>1, <2>3, SettledShards
  <2>5. /\ catalog' = [catalog EXCEPT ![p] = live] /\ Goto(p, "ready")
        /\ UNCHANGED <<gateVars, storeVars, lease, startup, handle, inspect>>
    BY <1>3, <2>1, <2>3, <2>4 DEF FinishCompleted
  <2>6. catalog' = catalog
    BY <2>1, <2>3, <2>5 DEF StateTypeOK
  <2>7. /\ coord'[p].step = "ready" /\ coord'[p].opening = coord[p].opening
        /\ \A q \in Process \ {p} : coord'[q] = coord[q]
    BY <2>5, GotoEffect DEF Step
  <2>8. OthersSame(p) /\ Generation' = Generation /\ manifest' = manifest
    BY <2>5, <2>6, <2>7 DEF OthersSame, Generation, gateVars, storeVars
  <2>9. GateOf(p)' /\ JournalOf(p)'
    BY <1>0, <2>1, <2>5, <2>7 DEF Sound, GateOf, JournalOf, Quiesced, gateVars, storeVars
  <2>10. CatalogOf(p)' /\ InspectOf(p)'
    BY <1>0, <2>1, <2>5, <2>6, <2>7, <2>8 DEF Sound, CatalogOf, InspectOf
  <2>11. Sound(p)'
    BY <2>9, <2>10 DEF Sound
  <2>. QED
    BY <2>8, <2>11, MoveSound
<1>4. ASSUME Preflight(p) PROVE ClearInv'
  <2>1. /\ coord[p].step = "preflight" /\ ~ coord[p].opening /\ p \in handle
        /\ manifest.active = NoScript /\ catalog[p] = Generation
    BY <1>0, <1>4 DEF Preflight, Knows, Sound, GateOf, JournalOf, CatalogOf
  <2>2. {s \in Shard : Len(shard[s]) # catalog[p]} = {}
    BY <2>1, SettledShards
  <2>3. Goto(p, "begin") /\ UNCHANGED <<gateVars, storeVars, processVars, inspect>>
        /\ "begin" \in Step
    BY <1>4, <2>2 DEF Preflight, Step, Exclusive
  <2>4. OthersSame(p) /\ Sound(p)' /\ manifest' = manifest
    BY <2>1, <2>3, GotoSound DEF gateVars, storeVars, processVars
  <2>. QED
    BY <2>4, MoveSound
<1>5. ASSUME BeginJournal(p), ~ Fail(p) PROVE ClearInv'
  <2> DEFINE committed == [manifest EXCEPT !.active = coord[p].script, !.next = 0,
                                           !.state = "Migrating"]
  <2>1. coord[p].step = "begin" /\ Commit(p, "begin", committed, "resume")
    BY <1>5 DEF BeginJournal
  <2>2. coord[p].script # NoScript
    BY <1>0, <2>1 DEF Knows
  <2>3. /\ committed.state = "Migrating" /\ committed.active = coord[p].script
        /\ committed.history = manifest.history
    BY ManifestParts
  <2>4. Len(committed.history) = Generation
    BY <2>3 DEF Generation
  <2>5. committed.state = IF committed.active = NoScript THEN "Ready" ELSE "Migrating"
    BY <2>2, <2>3
  <2> HIDE DEF committed
  <2>. QED
    BY <2>1, <2>4, <2>5, CommitSound
<1>. QED
  BY <1>1, <1>2, <1>3, <1>4, <1>5

\* Applying the script, finalising and publishing it.
LEMMA ApplySound ==
    ASSUME StateTypeOK, ClearInv, StateTypeOK', DurableInv', HistoryInv', ~ misled', NEW p \in Process,
           Resume(p) \/ ApplyShard(p) \/ Advance(p) \/ Validate(p) \/ Finalize(p) \/ Publish(p)
    PROVE  ClearInv'
<1>0. Sound(p) /\ Knows(p) /\ StateInv /\ Generation \in Nat
  BY MigrationSplit, ManifestParts
<1>1. ASSUME NEW step \in {"apply", "validate", "finalize"}, Proceed(p, step),
             coord[p].step \in {"resume", "apply", "validate"}
      PROVE  ClearInv'
  <2>1. OthersSame(p) /\ Sound(p)' /\ manifest' = manifest
    BY <1>1, GotoSound DEF Proceed, gateVars, storeVars, processVars, Step, Exclusive
  <2>. QED
    BY <2>1, MoveSound
<1>2. CASE Resume(p)
  <2>1. coord[p].step = "resume" /\ manifest.active # NoScript
    BY <1>0, <1>2 DEF Resume, Knows
  <2>2. manifest.state = "Migrating" /\ (~ coord[p].opening => catalog[p] = Generation)
    BY <1>0, <2>1 DEF StateInv, Sound, GateOf, CatalogOf
  <2>3. {s \in Shard : ~ Journaled(s)} = {}
    BY <2>1 DEF ClearInv, DurableInv, JournalPrefix
  <2>. QED
    BY <1>1, <1>2, <2>1, <2>2, <2>3 DEF Resume
<1>3. CASE ApplyShard(p)
  <2>1. coord[p].step = "apply" /\ manifest.active # NoScript
        /\ manifest.active = coord[p].script
    BY <1>0, <1>3 DEF ApplyShard, Knows
  <2>2. CASE manifest.next = NumShards
    BY <1>1, <1>3, <2>1, <2>2 DEF ApplyShard
  <2>3. CASE manifest.next # NumShards
    <3>1. manifest.next \in Shard
      BY <2>3, ManifestParts, MigrationAssumption DEF Shard
    <3>2. shard[manifest.next] \in {manifest.history, Target}
      BY <2>1, <3>1 DEF ClearInv, DurableInv, JournalPrefix, Journaled
    <3>3. Goto(p, "advance") /\ UNCHANGED <<gateVars, manifest, processVars, inspect>>
      BY <1>3, <2>1, <2>3, <3>2 DEF ApplyShard
    <3>4. OthersSame(p) /\ Sound(p)'
      BY <2>1, <3>3, GotoSound DEF gateVars, processVars, Step, Exclusive
    <3>. QED
      BY <3>3, <3>4, MoveSound
  <2>. QED
    BY <2>2, <2>3
<1>4. CASE Advance(p)
  <2> DEFINE committed == [manifest EXCEPT !.next = @ + 1]
  <2>1. coord[p].step = "advance" /\ Commit(p, "advance", committed, "apply")
    BY <1>4 DEF Advance
  <2>2. /\ committed.state = manifest.state /\ committed.active = manifest.active
        /\ committed.history = manifest.history
    BY ManifestParts
  <2>3. /\ committed.state = IF committed.active = NoScript THEN "Ready" ELSE "Migrating"
        /\ Len(committed.history) = Generation
    BY <1>0, <2>2 DEF StateInv, Generation
  <2> HIDE DEF committed
  <2>. QED
    BY <2>1, <2>3, CommitSound
<1>5. CASE Validate(p)
  <2>1. coord[p].step = "validate" /\ manifest.active # NoScript /\ manifest.next = NumShards
    BY <1>0, <1>5 DEF Validate, Knows
  <2>2. ASSUME NEW s \in Shard PROVE shard[s] = Target
    <3>1. Journaled(s) /\ s < manifest.next /\ s \in Int /\ manifest.next \in Int
      BY <2>1, MigrationAssumption DEF ClearInv, DurableInv, JournalPrefix, Shard
    <3>. QED
      BY <3>1 DEF Journaled
  <2>. QED
    BY <1>1, <1>5, <2>1, <2>2 DEF Validate
<1>6. CASE Finalize(p)
  <2> DEFINE committed == [history |-> Target, active |-> NoScript, next |-> 0,
                           state |-> "Ready"]
  <2>1. coord[p].step = "finalize" /\ Commit(p, "finalize", committed, "publish")
    BY <1>6 DEF Finalize
  <2>2. /\ committed.state = IF committed.active = NoScript THEN "Ready" ELSE "Migrating"
        /\ committed.active = NoScript /\ Len(committed.history) = Generation + 1
    BY <1>0, <2>1, TargetFacts DEF Knows
  <2> HIDE DEF committed
  <2>. QED
    BY <2>1, <2>2, CommitSound
<1>7. CASE Publish(p)
  <2>1. /\ coord[p].step = "publish" /\ manifest.active = NoScript
        /\ p \in handle => catalog[p] = Generation - 1
    BY <1>0, <1>7 DEF Publish, Sound, JournalOf, CatalogOf
  <2>0. /\ catalog' = [catalog EXCEPT ![p] = IF p \in handle THEN Generation ELSE @]
        /\ Goto(p, IF coord[p].opening THEN "verify" ELSE "ready")
        /\ UNCHANGED <<gateVars, storeVars, lease, startup, handle, inspect, historyVars>>
    BY <1>7, <2>1 DEF Publish
  <2>2. /\ coord'[p].step = IF coord[p].opening THEN "verify" ELSE "ready"
        /\ coord'[p].opening = coord[p].opening
        /\ \A q \in Process \ {p} : coord'[q] = coord[q]
    BY <2>0, GotoEffect DEF Step
  <2>3. /\ catalog'[p] = IF p \in handle THEN Generation ELSE catalog[p]
        /\ \A q \in Process \ {p} : catalog'[q] = catalog[q]
        /\ UNCHANGED <<gate, active, restore, waiter, handle, inspect, lease, manifest>>
    BY <2>0 DEF StateTypeOK, gateVars, storeVars
  <2>4. OthersSame(p) /\ Generation' = Generation
    BY <2>2, <2>3 DEF OthersSame, Generation
  <2>5. GateOf(p)' /\ JournalOf(p)'
    BY <1>0, <2>1, <2>2, <2>3 DEF Sound, GateOf, JournalOf, Quiesced
  <2>6. CatalogOf(p)'
    BY <1>0, <2>1, <2>2, <2>3, <2>4 DEF Sound, GateOf, CatalogOf
  <2>7. InspectOf(p)'
    <3>1. inspect[p].before \in Nat /\ inspect[p].read \in Nat
      BY DEF StateTypeOK, Inspection
    <3>2. CASE p \in handle
      BY <1>0, <2>1, <2>3, <2>4, <3>1, <3>2 DEF Sound, InspectOf
    <3>3. CASE p \notin handle
      BY <1>0, <2>3, <3>3 DEF Sound, GateOf, InspectOf
    <3>. QED
      BY <3>2, <3>3
  <2>8. Sound(p)'
    BY <2>5, <2>6, <2>7 DEF Sound
  <2>. QED
    BY <2>3, <2>4, <2>8, MoveSound
<1>. QED
  BY <1>2, <1>3, <1>4, <1>5, <1>6, <1>7

\* A startup, the end of a coordinator and a crash.
LEMMA StartupSound ==
    ASSUME StateTypeOK, ClearInv, StateTypeOK', DurableInv', HistoryInv', ~ misled', NEW p \in Process,
           Load(p) \/ Verify(p) \/ PublishReady(p) \/ GiveUp(p) \/ Die(p)
    PROVE  ClearInv'
<1>0. Sound(p) /\ Knows(p) /\ StateInv /\ Generation \in Nat
  BY MigrationSplit, ManifestParts
<1>1. CASE Load(p)
  <2>1. coord[p].step = "load" /\ manifest.state # "Degraded"
    BY <1>0, <1>1 DEF Load, StateInv
  <2>2. CASE manifest.active = NoScript
    <3>1. OthersSame(p) /\ Sound(p)' /\ manifest' = manifest
      BY <1>1, <2>1, <2>2, GotoSound DEF Load, Proceed, gateVars, storeVars, processVars, Step
    <3>. QED
      BY <3>1, MoveSound
  <2>3. CASE manifest.active # NoScript
    <3>1. /\ restore' = [restore EXCEPT ![p] = "Pending"]
          /\ coord' = [coord EXCEPT ![p].step = "resume", ![p].script = manifest.active]
          /\ UNCHANGED <<gate, active, notices, waiter, storeVars, processVars, inspect>>
      BY <1>1, <2>1, <2>3 DEF Load
    <3>2. OthersSame(p) /\ Sound(p)' /\ manifest' = manifest
      BY <2>1, <3>1, AdoptEffect, ResumeSound DEF storeVars, processVars
    <3>. QED
      BY <3>2, MoveSound
  <2>. QED
    BY <2>2, <2>3
<1>2. CASE Verify(p)
  <2>1. /\ coord[p].step = "verify" /\ manifest.active = NoScript /\ manifest.state # "Degraded"
        /\ p \in handle => catalog[p] = Generation
    BY <1>0, <1>2 DEF Verify, Sound, JournalOf, CatalogOf, StateInv
  <2>2. {s \in Shard : shard[s] # manifest.history} = {}
    BY <2>1, SettledShards
  <2>3. /\ catalog' = [catalog EXCEPT ![p] = Generation] /\ Goto(p, "ready")
        /\ UNCHANGED <<gateVars, storeVars, lease, startup, handle, inspect>>
    BY <1>2, <2>1, <2>2 DEF Verify
  <2>4. /\ coord'[p].step = "ready" /\ coord'[p].opening = coord[p].opening
        /\ \A q \in Process \ {p} : coord'[q] = coord[q]
    BY <2>3, GotoEffect DEF Step
  <2>5. /\ catalog'[p] = Generation /\ \A q \in Process \ {p} : catalog'[q] = catalog[q]
        /\ UNCHANGED <<gate, active, restore, waiter, handle, inspect, lease, manifest>>
    BY <2>3 DEF StateTypeOK, gateVars, storeVars
  <2>6. OthersSame(p) /\ Generation' = Generation
    BY <2>4, <2>5 DEF OthersSame, Generation
  <2>7. GateOf(p)' /\ JournalOf(p)'
    BY <1>0, <2>1, <2>4, <2>5 DEF Sound, GateOf, JournalOf, Quiesced
  <2>8. CatalogOf(p)'
    BY <2>4, <2>5, <2>6 DEF CatalogOf
  <2>9. InspectOf(p)'
    <3>1. CASE p \in handle
      BY <1>0, <2>1, <2>5, <2>6, <3>1 DEF Sound, InspectOf
    <3>2. CASE p \notin handle
      BY <1>0, <2>5, <3>2 DEF Sound, GateOf, InspectOf
    <3>. QED
      BY <3>1, <3>2
  <2>10. Sound(p)'
    BY <2>7, <2>8, <2>9 DEF Sound
  <2>. QED
    BY <2>5, <2>6, <2>10, MoveSound
<1>3. CASE PublishReady(p)
  <2>1. /\ coord[p].step = "ready" /\ gate[p] = "Migrating" /\ active[p] = {}
        /\ manifest.active = NoScript /\ catalog[p] = Generation
    BY <1>0, <1>3 DEF PublishReady, Sound, GateOf, JournalOf, CatalogOf
  <2>2. /\ coord'[p].step = "idle" /\ gate'[p] = "Ready" /\ p \in handle'
        /\ UNCHANGED <<active, waiter, catalog, inspect, manifest>>
        /\ \A q \in Process \ {p} :
              /\ coord'[q] = coord[q] /\ gate'[q] = gate[q] /\ restore'[q] = restore[q]
              /\ lease'[q] = lease[q] /\ (q \in handle' <=> q \in handle)
    BY <1>3, <2>1, CoordinatorParts DEF PublishReady, StateTypeOK, GateTypeOK, storeVars
  <2>3. OthersSame(p) /\ Generation' = Generation
    BY <2>2 DEF OthersSame, Generation
  <2>4. GateOf(p)' /\ JournalOf(p)'
    BY <1>0, <2>1, <2>2 DEF Sound, GateOf, JournalOf, Quiesced
  <2>5. CatalogOf(p)' /\ InspectOf(p)'
    BY <1>0, <2>1, <2>2, <2>3 DEF Sound, CatalogOf, InspectOf
  <2>6. Sound(p)'
    BY <2>4, <2>5 DEF Sound
  <2>. QED
    BY <2>2, <2>3, <2>6, MoveSound
<1>4. CASE GiveUp(p)
  BY <1>4, FailSound DEF GiveUp
<1>5. CASE Die(p)
  <2>1. /\ coord'[p].step = "idle" /\ gate'[p] = "Ready" /\ active'[p] = {}
        /\ waiter'[p] = "none" /\ p \notin handle' /\ inspect'[p].step = "idle"
        /\ manifest' = manifest
    BY <1>5, CoordinatorParts
       DEF Die, StateTypeOK, GateTypeOK, NoInspection, storeVars
  <2>2. OthersSame(p)
    BY <1>5 DEF Die, OthersSame, StateTypeOK, GateTypeOK
  <2>3. Sound(p)'
    BY <2>1 DEF Sound, GateOf, JournalOf, CatalogOf, InspectOf, Quiesced
  <2>. QED
    BY <2>1, <2>2, <2>3, MoveSound
<1>. QED
  BY <1>1, <1>2, <1>3, <1>4, <1>5

\* Under the invariant, an admitted operation finds every shard at the generation of the
\* catalogs of its process.
LEMMA AdmittedFinds ==
    ASSUME StateTypeOK, ClearInv, NEW p \in Process, p \in handle,
           gate[p] = "Ready" \/ active[p] # {}, NEW s \in Shard
    PROVE  shard[s] = manifest.history /\ Len(shard[s]) = catalog[p]
<1>0. Sound(p)
  BY MigrationSplit
<1>1. manifest.active = NoScript /\ coord[p].step # "publish"
  <2>1. CASE gate[p] = "Ready"
    BY <1>0, <2>1 DEF Sound, GateOf, JournalOf
  <2>2. CASE active[p] # {}
    <3>1. gate[p] \in {"Ready", "Migrating"} /\ coord[p].step \in {"idle", "drain"}
      BY <1>0, <2>2 DEF Sound, GateOf, StateTypeOK, GateTypeOK, GateState
    <3>. QED
      BY <1>0, <2>2, <3>1 DEF Sound, GateOf, JournalOf
  <2>. QED
    BY <2>1, <2>2
<1>. QED
  BY <1>0, <1>1, SettledShards DEF Sound, CatalogOf

\* Operations are admitted through an open gate and find what they expect.
LEMMA OperationSound ==
    ASSUME StateTypeOK, ClearInv, StateTypeOK', DurableInv', HistoryInv', ~ misled', NEW p \in Process,
           NEW c \in Client, BeginOperation(p, c) \/ EndOperation(p, c) \/ SendNotice(p, c)
    PROVE  ClearInv'
<1>0. Sound(p)
  BY MigrationSplit
<1>1. ASSUME UNCHANGED <<gate, restore, coord, handle, inspect, catalog, lease, manifest>>,
             \A q \in Process \ {p} : active'[q] = active[q] /\ waiter'[q] = waiter[q],
             GateOf(p)'
      PROVE  ClearInv'
  <2>1. OthersSame(p) /\ Generation' = Generation
    BY <1>1 DEF OthersSame, Generation
  <2>2. JournalOf(p)' /\ CatalogOf(p)' /\ InspectOf(p)'
    BY <1>0, <1>1, <2>1 DEF Sound, JournalOf, CatalogOf, InspectOf
  <2>3. Sound(p)'
    BY <1>1, <2>2 DEF Sound
  <2>. QED
    BY <1>1, <2>1, <2>3, MoveSound
<1>2. CASE BeginOperation(p, c)
  <2>1. /\ p \in handle /\ gate[p] = "Ready"
        /\ UNCHANGED <<gate, restore, waiter, coord, handle, inspect, catalog, lease, manifest>>
        /\ \A q \in Process \ {p} : active'[q] = active[q]
    BY <1>2 DEF BeginOperation, AcquireOperation, StateTypeOK, GateTypeOK, storeVars, processVars
  <2>2. GateOf(p)'
    BY <1>0, <2>1 DEF Sound, GateOf, Quiesced
  <2>. QED
    BY <1>1, <2>1, <2>2
<1>3. CASE EndOperation(p, c)
  <2>1. PICK s \in Shard :
           /\ ReleaseOperation(p, c, Len(shard[s]) < catalog[p])
           /\ RecordDegraded(Len(shard[s]) < catalog[p])
           /\ UNCHANGED <<shard, processVars, coord, inspect>>
    BY <1>3 DEF EndOperation
  <2>2. active[p] # {} /\ p \in handle
    BY <1>0, <2>1 DEF ReleaseOperation, Sound, GateOf
  <2>3. ~ (Len(shard[s]) < catalog[p])
    <3>1. Len(shard[s]) = catalog[p]
      BY <2>2, AdmittedFinds
    <3>2. catalog[p] \in Nat
      BY DEF StateTypeOK
    <3>. QED
      BY <3>1, <3>2
  <2>4. manifest' = manifest /\ gate' = gate
    BY <2>1, <2>3 DEF RecordDegraded, ReleaseOperation, StateTypeOK, GateTypeOK
  <2>5. /\ UNCHANGED <<restore, waiter, coord, handle, inspect, catalog, lease>>
        /\ active'[p] \subseteq active[p]
        /\ \A q \in Process \ {p} : active'[q] = active[q]
    BY <2>1 DEF ReleaseOperation, StateTypeOK, GateTypeOK, processVars
  <2>6. GateOf(p)'
    BY <1>0, <2>4, <2>5 DEF Sound, GateOf, Quiesced
  <2>. QED
    BY <1>1, <2>4, <2>5, <2>6
<1>4. CASE SendNotice(p, c)
  <2>1. /\ UNCHANGED <<gate, active, restore, coord, handle, inspect, catalog, lease, manifest>>
        /\ \A q \in Process \ {p} : waiter'[q] = waiter[q]
        /\ waiter'[p] = waiter[p] \/ (waiter[p] # "none" /\ waiter'[p] # "drained")
    BY <1>4 DEF SendNotice, Notify, StateTypeOK, GateTypeOK, storeVars, processVars
  <2>2. GateOf(p)'
    BY <1>0, <2>1 DEF Sound, GateOf, Quiesced
  <2>. QED
    BY <1>1, <2>1, <2>2
<1>. QED
  BY <1>2, <1>3, <1>4

\* An inspection that overlaps with a publication takes it for what it is.
LEMMA InspectSound ==
    ASSUME StateTypeOK, ClearInv, StateTypeOK', DurableInv', HistoryInv', ~ misled', NEW p \in Process,
           \/ BeginInspect(p) \/ InspectManifest(p) \/ InspectCompare(p) \/ InspectGate(p)
           \/ InspectDecide(p)
    PROVE  ClearInv'
<1>0. Sound(p) /\ Generation \in Nat
  BY MigrationSplit, ManifestParts
<1>1. /\ inspect[p] \in Inspection /\ inspect[p].before \in Nat /\ inspect[p].read \in Nat
      /\ catalog[p] \in Nat
  BY DEF StateTypeOK, Inspection
<1>2. ASSUME UNCHANGED <<gate, active, restore, waiter, coord, handle, catalog, lease, manifest>>,
             \A q \in Process \ {p} : inspect'[q] = inspect[q],
             p \in handle \/ inspect'[p].step = "idle", InspectOf(p)'
      PROVE  ClearInv'
  <2>1. OthersSame(p) /\ Generation' = Generation
    BY <1>2 DEF OthersSame, Generation
  <2>2. GateOf(p)' /\ JournalOf(p)' /\ CatalogOf(p)'
    BY <1>0, <1>2, <2>1 DEF Sound, GateOf, JournalOf, CatalogOf, Quiesced
  <2>3. Sound(p)'
    BY <1>2, <2>2 DEF Sound
  <2>. QED
    BY <1>2, <2>1, <2>3, MoveSound
<1>3. inspect[p].step # "idle" => p \in handle
  BY <1>0 DEF Sound, GateOf
<1>4. CASE BeginInspect(p)
  <2>1. /\ inspect'[p].step = "before" /\ inspect'[p].before = catalog[p] /\ p \in handle
        /\ \A q \in Process \ {p} : inspect'[q] = inspect[q]
        /\ UNCHANGED <<gate, active, restore, waiter, coord, handle, catalog, lease, manifest>>
    BY <1>4 DEF BeginInspect, NoInspection, StateTypeOK, gateVars, storeVars, processVars
  <2>2. InspectOf(p)'
    BY <1>1, <2>1 DEF InspectOf
  <2>. QED
    BY <1>2, <2>1, <2>2
<1>5. CASE InspectManifest(p)
  <2>1. /\ inspect[p].step = "before" /\ inspect'[p].step = "read"
        /\ inspect'[p].before = inspect[p].before /\ inspect'[p].read = Generation
        /\ \A q \in Process \ {p} : inspect'[q] = inspect[q]
        /\ UNCHANGED <<gate, active, restore, waiter, coord, handle, catalog, lease, manifest>>
    BY <1>1, <1>5
       DEF InspectManifest, Inspection, StateTypeOK, gateVars, storeVars, processVars
  <2>2. inspect[p].before <= Generation /\ Generation' = Generation
    BY <1>0, <1>1, <1>3, <2>1 DEF Sound, InspectOf, CatalogOf, Generation
  <2>3. InspectOf(p)'
    BY <1>0, <2>1, <2>2 DEF Sound, InspectOf
  <2>. QED
    BY <1>2, <1>3, <2>1, <2>3
<1>6. CASE InspectCompare(p)
  <2>1. /\ inspect[p].step = "read"
        /\ \A q \in Process \ {p} : inspect'[q] = inspect[q]
        /\ UNCHANGED <<gate, active, restore, waiter, coord, handle, catalog, lease, manifest>>
        /\ inspect'[p] = IF catalog[p] = inspect[p].before /\ inspect[p].read # inspect[p].before
                         THEN [inspect[p] EXCEPT !.step = "differs"] ELSE NoInspection
    BY <1>6 DEF InspectCompare, StateTypeOK, gateVars, storeVars, processVars
  <2>2. \/ inspect'[p].step = "idle"
        \/ /\ inspect'[p].step = "differs" /\ inspect[p].read # inspect[p].before
           /\ inspect'[p].read = inspect[p].read /\ inspect'[p].before = inspect[p].before
    BY <1>1, <2>1 DEF NoInspection, Inspection
  <2>3. InspectOf(p)'
    BY <1>0, <2>1, <2>2 DEF Sound, InspectOf, Generation
  <2>. QED
    BY <1>2, <1>3, <2>1, <2>3
<1>7. CASE InspectGate(p)
  <2>1. /\ inspect[p].step = "differs" /\ inspect'[p].step = "gate"
        /\ inspect'[p].before = inspect[p].before /\ inspect'[p].read = inspect[p].read
        /\ inspect'[p].gate = gate[p]
        /\ \A q \in Process \ {p} : inspect'[q] = inspect[q]
        /\ UNCHANGED <<gate, active, restore, waiter, coord, handle, catalog, lease, manifest>>
    BY <1>1, <1>7 DEF InspectGate, Inspection, StateTypeOK, gateVars, storeVars, processVars
  <2>2. catalog[p] = inspect[p].before => gate[p] = "Migrating"
    <3>1. ASSUME catalog[p] = inspect[p].before PROVE catalog[p] < Generation
      BY <1>0, <1>1, <2>1, <3>1 DEF Sound, InspectOf
    <3>2. ASSUME catalog[p] < Generation PROVE coord[p].step = "publish"
      BY <1>0, <1>3, <2>1, <3>2 DEF Sound, CatalogOf
    <3>. QED
      BY <1>0, <3>1, <3>2 DEF Sound, GateOf
  <2>3. InspectOf(p)'
    BY <1>0, <2>1, <2>2 DEF Sound, InspectOf, Generation
  <2>. QED
    BY <1>2, <1>3, <2>1, <2>3
<1>8. CASE InspectDecide(p)
  <2> DEFINE i == inspect[p]
             corrupt == /\ catalog[p] = i.before
                        /\ ~ (i.read = i.before + 1 /\ i.gate \in {"Migrating", "Pending"})
  <2>1. i.step = "gate"
    BY <1>8 DEF InspectDecide
  <2>2. ~ corrupt
    <3>1. SUFFICES ASSUME catalog[p] = i.before
                   PROVE  i.read = i.before + 1 /\ i.gate = "Migrating"
      OBVIOUS
    <3>2. i.gate = "Migrating" /\ i.before < i.read /\ i.read <= Generation
      BY <1>0, <1>1, <2>1, <3>1 DEF Sound, InspectOf
    <3>3. catalog[p] \in {Generation - 1, Generation}
      BY <1>0, <1>3, <2>1 DEF Sound, CatalogOf
    <3>. QED
      BY <1>0, <1>1, <3>1, <3>2, <3>3
  <2>3. /\ gate' = [gate EXCEPT ![p] = IF corrupt THEN "Degraded" ELSE @]
        /\ RecordDegraded(corrupt) /\ inspect' = [inspect EXCEPT ![p] = NoInspection]
        /\ UNCHANGED <<active, notices, restore, waiter, shard, processVars, coord>>
    BY <1>8 DEF InspectDecide
  <2>4. gate' = gate /\ manifest' = manifest
    BY <2>2, <2>3 DEF RecordDegraded, StateTypeOK, GateTypeOK
  <2>5. inspect'[p].step = "idle" /\ \A q \in Process \ {p} : inspect'[q] = inspect[q]
    BY <2>3 DEF NoInspection, StateTypeOK
  <2>6. InspectOf(p)'
    BY <2>5 DEF InspectOf
  <2>. QED
    BY <1>2, <2>3, <2>4, <2>5, <2>6 DEF processVars
<1>. QED
  BY <1>4, <1>5, <1>6, <1>7, <1>8

\* Every step keeps the invariant, unless it misleads the code.
LEMMA StepSound ==
    ASSUME MigrationTypeOK, ClearInv, [MigrationNext]_migrationVars, Durable', ~ misled'
    PROVE  ClearInv'
<1>0. StateTypeOK /\ StateTypeOK' /\ DurableInv' /\ HistoryInv'
  BY DEF Durable, MigrationTypeOK
<1>1. ASSUME NEW p \in Process, CoordinatorStep(p) PROVE ClearInv'
  BY <1>0, <1>1, EntrySound, JournalSound, ApplySound, StartupSound DEF CoordinatorStep
<1>2. ASSUME NEW p \in Process, ClientStep(p) PROVE ClearInv'
  BY <1>0, <1>2, OperationSound, InspectSound DEF ClientStep
<1>3. CASE UNCHANGED migrationVars
  <2>1. UNCHANGED <<gate, active, restore, waiter, coord, handle, inspect, catalog, lease, manifest>>
    BY <1>3 DEF migrationVars, gateVars, storeVars, processVars
  <2>2. Generation' = Generation
    BY <2>1 DEF Generation
  <2>3. GateInv' /\ Healthy'
    BY <2>1 DEF ClearInv, GateInv, Healthy, Quiesced
  <2>4. JournalInv'
    BY <2>1 DEF ClearInv, JournalInv
  <2>5. CatalogInv' /\ InspectInv'
    BY <2>1, <2>2 DEF ClearInv, CatalogInv, InspectInv
  <2>. QED
    BY <1>0, <2>3, <2>4, <2>5 DEF ClearInv
<1>. QED
  BY <1>1, <1>2, <1>3 DEF MigrationNext

\* A new root: nobody has opened it.
LEMMA InitSound ==
    ASSUME MigrationInit
    PROVE  Durable /\ ClearInv
<1>0. Durable /\ ~ misled
  BY InitDurable DEF MigrationInit, Durable, MigrationTypeOK, HistoryInv
<1>1. GateInv /\ Healthy
  BY DEF MigrationInit, GateInit, GateInv, Healthy, NoCoordinator, NoInspection, Quiesced
<1>2. JournalInv
  BY DEF MigrationInit, GateInit, JournalInv, NoCoordinator
<1>3. CatalogInv
  BY DEF MigrationInit, CatalogInv, NoCoordinator
<1>4. InspectInv
  BY DEF MigrationInit, InspectInv, NoInspection
<1>. QED
  BY <1>0, <1>1, <1>2, <1>3, <1>4 DEF ClearInv, Durable

\* Nothing takes back that the code has been misled.
LEMMA MisledStays ==
    ASSUME Durable, [MigrationNext]_migrationVars, ~ misled'
    PROVE  ~ misled
<1>0. StateTypeOK' /\ DurableInv'
  BY StepKeeps DEF Durable, MigrationTypeOK
<1>1. ASSUME NEW p \in Process, CoordinatorStep(p) \/ ClientStep(p) PROVE ~ misled
  BY <1>0, <1>1, StepFollows DEF Durable, Follows
<1>2. CASE UNCHANGED migrationVars
  BY <1>2 DEF migrationVars, historyVars
<1>. QED
  BY <1>1, <1>2 DEF MigrationNext

\* The inductive invariant of files, locks, gates, catalogs and inspections, whatever a
\* failed flock conversion gives up and whichever commits lie.  Gates, catalogs and
\* inspections are right until a sole owner fails to see a live handle, or a final commit
\* lies (try_acquire_exclusive, finalize_schema_migration).
THEOREM MigrationSafe == MigrationSpec => []MigrationInv
<1> DEFINE Clear == Durable /\ (~ misled => ClearInv)
<1>1. MigrationInit => Clear
  BY InitSound
<1>2. Clear /\ [MigrationNext]_migrationVars => Clear'
  BY StepKeeps, MisledStays, StepSound DEF Durable
<1>3. Clear => MigrationInv
  BY DEF Durable, ClearInv, MigrationInv, NeverDegraded
<1> HIDE DEF Clear
<1>. QED
  BY <1>1, <1>2, <1>3, PTL DEF MigrationSpec

\* Corruption is never reported of files nobody has tampered with, unless a sole owner
\* failed to see a live handle or a final commit lied: no shard is taken for one it is
\* not, and no inspection mistakes a publication for damage (record_schema_degraded,
\* schema_migration_summary).
THEOREM DegradedNever == MigrationSpec => []NeverDegraded
<1>1. MigrationInv => NeverDegraded
  BY DEF MigrationInv
<1>. QED
  BY <1>1, MigrationSafe, PTL
--------------------------------------------------------------------------------
(* Admission.                                                              *)

\* Process p admits operations, has admitted some, or would if its guard were dropped.
Open(p) ==
    /\ p \in handle
    /\ gate[p] = "Ready" \/ active[p] # {} \/ (gate[p] = "Migrating" /\ restore[p] = "Ready")

\* A coordinator has closed the gate of its process, which may have degraded since.
Guards(p) ==
    /\ gate[p] = "Migrating" => coord[p].step # "idle"
    /\ coord[p].step # "idle" => gate[p] \notin {"Ready", "Pending"}
    /\ coord[p].step # "idle" /\ ~ coord[p].opening => p \in handle
    /\ coord[p].step \notin {"idle", "drain"} \/ Quiesced(p) => active[p] = {}
    /\ waiter[p] # "none" => coord[p].step = "drain"
    /\ p \notin handle => active[p] = {}

\* An open process, and one about to open, is up to date with the manifest, unless a
\* sole owner could not see it.
Current(p) ==
    /\ Open(p) /\ p \notin overtaken => manifest.active = NoScript /\ catalog[p] = Generation
    /\ coord[p].step \in {"finish", "preflight", "begin", "publish", "ready"} =>
          manifest.active = NoScript
    /\ coord[p].step = "ready" => catalog[p] = Generation

AdmissionInv == DurableInv /\ HistoryInv /\ \A p \in Process : Guards(p) /\ Current(p)

\* A process that was open, and is not overtaken after a step of its own, was current.
LEMMA StillCurrent ==
    ASSUME NEW p \in Process, Current(p), Follows(p), Open(p), p \in handle', p \notin overtaken'
    PROVE  manifest.active = NoScript /\ catalog[p] = Generation
BY DEF Current, Follows

\* A step leaves the journal alone.
SameJournal == manifest'.active = manifest.active /\ manifest'.history = manifest.history

\* A step of p keeps the invariant if it keeps what it says of p, and leaves the journal
\* alone unless p is the only process of the root.
LEMMA MoveAdmits ==
    ASSUME StateTypeOK, AdmissionInv, DurableInv', NEW p \in Process, Follows(p), OthersSame(p),
           SameJournal \/ coord[p].step \in Exclusive, Guards(p)', Current(p)'
    PROVE  AdmissionInv'
<1>1. ASSUME NEW q \in Process \ {p} PROVE Guards(q)' /\ Current(q)'
  <2>0. Guards(q) /\ Current(q) /\ LockInv /\ HistoryInv /\ (q \in overtaken => q \in overtaken')
    BY DEF AdmissionInv, DurableInv, Follows
  <2>1. Guards(q)'
    BY <2>0 DEF OthersSame, Guards, Quiesced
  <2>2. CASE SameJournal
    <3>1. Generation' = Generation
      BY <2>2 DEF SameJournal, Generation
    <3>2. Open(q)' <=> Open(q)
      BY DEF OthersSame, Open
    <3>3. Current(q)'
      BY <2>0, <2>2, <3>1, <3>2 DEF OthersSame, Current, SameJournal
    <3>. QED
      BY <2>1, <3>3
  <2>3. CASE coord[p].step \in Exclusive
    <3>1. lease[q] = "none" /\ coord[q].step \in {"idle", "relock"}
      BY <2>0, <2>3, OthersOut
    <3>2. q \in handle => q \in overtaken
      BY <2>0, <2>3, <3>1 DEF HistoryInv, LockInv
    <3>3. Current(q)'
      BY <2>0, <3>1, <3>2 DEF OthersSame, Current, Open
    <3>. QED
      BY <2>1, <3>3
  <2>. QED
    BY <2>2, <2>3
<1>. QED
  BY <1>1 DEF AdmissionInv, Follows

\* The end of a coordinator: if it leaves the process open, the process is current.
LEMMA EndAdmits ==
    ASSUME StateTypeOK, AdmissionInv, DurableInv', NEW p \in Process, Follows(p),
           NEW state \in {"Ready", "Pending", "Degraded"}, End(p, state),
           SameJournal \/ coord[p].step \in Exclusive,
           p \in handle /\ p \notin overtaken' /\ (state = "Ready" \/ active[p] # {}) =>
              manifest'.active = NoScript /\ catalog[p] = Generation'
    PROVE  AdmissionInv'
<1>0. Guards(p) /\ state \in GateState
  BY DEF AdmissionInv, GateState
<1>1. OthersSame(p)
  BY <1>0, EndEffect DEF OthersSame
<1>2. /\ coord'[p].step = "idle" /\ gate'[p] = IF p \in handle THEN state ELSE "Ready"
      /\ waiter'[p] = "none"
      /\ active' = active /\ handle' = handle /\ catalog' = catalog
  BY <1>0, EndEffect, CoordinatorParts
<1>3. Guards(p)'
  BY <1>0, <1>2 DEF Guards, Quiesced
<1>4. Open(p)' => p \in handle /\ (state = "Ready" \/ active[p] # {})
  BY <1>2 DEF Open
<1>5. Current(p)'
  BY <1>2, <1>4 DEF Current
<1>. QED
  BY <1>1, <1>3, <1>5, MoveAdmits

\* A failure opens nothing that was not open.
LEMMA FailAdmits ==
    ASSUME StateTypeOK, AdmissionInv, DurableInv', NEW p \in Process, Follows(p),
           Fail(p) \/ Corrupt(p), coord[p].step # "idle"
    PROVE  AdmissionInv'
<1>0. Guards(p) /\ Current(p)
  BY DEF AdmissionInv
<1>1. gate[p] \in {"Migrating", "Degraded"} /\ restore[p] \in {"Ready", "Pending"}
  BY <1>0 DEF Guards, StateTypeOK, GateTypeOK, GateState
<1>2. SameJournal /\ Generation' = Generation
  BY FailureEffect, ManifestParts DEF SameJournal, Generation
<1>3. \E state \in {"Ready", "Pending", "Degraded"} :
         End(p, state) /\ (state = "Ready" => gate[p] = "Migrating" /\ restore[p] = "Ready")
  <2>1. GateAfterDrop(p, restore[p]) \in {"Ready", "Pending", "Degraded"}
    BY <1>1 DEF GateAfterDrop
  <2>2. GateAfterDrop(p, restore[p]) = "Ready" => gate[p] = "Migrating" /\ restore[p] = "Ready"
    BY <1>1 DEF GateAfterDrop
  <2>. QED
    BY <2>1, <2>2 DEF Fail, Corrupt
<1>4. PICK state \in {"Ready", "Pending", "Degraded"} :
         End(p, state) /\ (state = "Ready" => gate[p] = "Migrating" /\ restore[p] = "Ready")
  BY <1>3
<1>5. p \in handle /\ p \notin overtaken' /\ (state = "Ready" \/ active[p] # {}) =>
         manifest'.active = NoScript /\ catalog[p] = Generation'
  <2>1. handle' = handle
    BY <1>4 DEF End
  <2>. QED
    BY <1>0, <1>2, <1>4, <2>1, StillCurrent DEF Open, SameJournal
<1>. QED
  BY <1>2, <1>4, <1>5, EndAdmits

\* A coordinator that goes on, past its drain and before it is ready; from some point on
\* its guard is to leave the gate pending.
LEMMA GoAdmits ==
    ASSUME StateTypeOK, AdmissionInv, DurableInv', NEW p \in Process, Follows(p), OthersSame(p),
           coord'[p].opening = coord[p].opening,
           coord[p].step \notin {"idle", "drain"},
           coord'[p].step \notin {"idle", "drain", "relock", "ready"},
           coord'[p].step \in {"finish", "preflight", "begin", "publish"} =>
              manifest'.active = NoScript,
           UNCHANGED <<gate, active, waiter, handle, catalog>>,
           \/ SameJournal /\ restore'[p] \in {restore[p], "Pending"}
           \/ coord[p].step \in Exclusive /\ restore'[p] = "Pending"
    PROVE  AdmissionInv'
<1>0. Guards(p) /\ Current(p) /\ active[p] = {} /\ gate[p] \notin {"Ready", "Pending"}
  BY DEF AdmissionInv, Guards
<1>1. Guards(p)'
  BY <1>0 DEF Guards, Quiesced
<1>2. Open(p)' => SameJournal /\ Open(p)
  BY <1>0 DEF Open
<1>3. SameJournal => Generation' = Generation
  BY DEF SameJournal, Generation
<1>4. Open(p)' /\ p \notin overtaken' => manifest'.active = NoScript /\ catalog'[p] = Generation'
  BY <1>0, <1>2, <1>3, StillCurrent DEF SameJournal, Open
<1>5. Current(p)'
  BY <1>4 DEF Current
<1>. QED
  BY <1>1, <1>5, MoveAdmits

\* A coordinator that proceeds.
LEMMA ProceedAdmits ==
    ASSUME StateTypeOK, AdmissionInv, DurableInv', NEW p \in Process, Follows(p), NEW step \in Step,
           Goto(p, step),
           UNCHANGED <<gate, active, restore, waiter, handle, inspect, catalog, lease, manifest>>,
           coord[p].step \notin {"idle", "drain"},
           step \notin {"idle", "drain", "relock", "ready"},
           step \in {"finish", "preflight", "begin", "publish"} => manifest.active = NoScript
    PROVE  AdmissionInv'
<1>1. OthersSame(p) /\ coord'[p].step = step /\ coord'[p].opening = coord[p].opening
  BY GotoEffect DEF OthersSame
<1>2. SameJournal /\ restore'[p] = restore[p]
  BY DEF SameJournal
<1>. QED
  BY <1>1, <1>2, GoAdmits

\* A commit, whether it tells the truth or not: from the attempt on the gate stays shut.
LEMMA CommitAdmits ==
    ASSUME StateTypeOK, AdmissionInv, DurableInv', NEW p \in Process, Follows(p),
           NEW kind, NEW committed, NEW next \in {"resume", "apply", "publish"},
           coord[p].step \in Exclusive, Commit(p, kind, committed, next),
           next = "publish" => committed.active = NoScript
    PROVE  AdmissionInv'
<1>0. /\ Guards(p) /\ active[p] = {} /\ gate[p] \in {"Migrating", "Degraded"}
      /\ coord[p].step \notin {"idle", "drain"}
  BY DEF AdmissionInv, Guards, Exclusive, StateTypeOK, GateTypeOK, GateState
<1>1. CASE /\ manifest' = committed /\ Goto(p, next)
           /\ restore' = [restore EXCEPT ![p] = "Pending"]
           /\ UNCHANGED <<gate, active, notices, waiter, processVars, inspect>>
  <2>1. /\ coord'[p].step = next /\ coord'[p].opening = coord[p].opening
        /\ \A q \in Process \ {p} : coord'[q] = coord[q]
    BY <1>1, GotoEffect DEF Step, Exclusive
  <2>2. restore'[p] = "Pending" /\ \A q \in Process \ {p} : restore'[q] = restore[q]
    BY <1>1 DEF StateTypeOK, GateTypeOK
  <2>3. OthersSame(p)
    BY <1>1, <2>1, <2>2 DEF OthersSame, processVars
  <2>4. UNCHANGED <<gate, active, waiter, handle, catalog>>
    BY <1>1 DEF processVars
  <2>. QED
    BY <1>0, <1>1, <2>1, <2>2, <2>3, <2>4, GoAdmits
<1>2. CASE End(p, GateAfterDrop(p, "Pending"))
  <2>1. PICK state \in {"Pending", "Degraded"} : End(p, state)
    BY <1>0, <1>2 DEF GateAfterDrop
  <2>. QED
    BY <1>0, <2>1, EndAdmits
<1>. QED
  BY <1>1, <1>2 DEF Commit

\* Closing the gate leaves a process as open as it was.
LEMMA CloseAdmits ==
    ASSUME StateTypeOK, AdmissionInv, DurableInv', NEW p \in Process, Follows(p), CloseGate(p),
           coord[p].step = "idle", coord'[p].step = "drain",
           ~ coord'[p].opening => p \in handle,
           \A q \in Process \ {p} : coord'[q] = coord[q] /\ lease'[q] = lease[q],
           UNCHANGED <<handle, inspect, catalog, manifest>>
    PROVE  AdmissionInv'
<1>0. Guards(p) /\ Current(p)
  BY DEF AdmissionInv
<1>1. /\ gate[p] \in {"Ready", "Pending"} /\ gate'[p] = "Migrating" /\ restore'[p] = gate[p]
      /\ waiter'[p] = "start" /\ active' = active
      /\ \A q \in Process \ {p} : /\ gate'[q] = gate[q] /\ restore'[q] = restore[q]
                                  /\ waiter'[q] = waiter[q]
  BY DEF CloseGate, StateTypeOK, GateTypeOK
<1>2. OthersSame(p) /\ SameJournal /\ Generation' = Generation
  BY <1>1 DEF OthersSame, SameJournal, Generation
<1>3. Guards(p)'
  BY <1>0, <1>1 DEF Guards, Quiesced
<1>4. Open(p)' => Open(p)
  BY <1>1 DEF Open
<1>5. Current(p)'
  BY <1>0, <1>2, <1>4 DEF Current, SameJournal, Follows, Open
<1>. QED
  BY <1>2, <1>3, <1>5, MoveAdmits

\* A step of p that leaves coordinators, handles, locks and catalogs alone, and neither
\* opens the gate of p nor lets an operation in where none would be.
LEMMA QuietAdmits ==
    ASSUME StateTypeOK, AdmissionInv, DurableInv', NEW p \in Process, Follows(p), OthersSame(p),
           SameJournal, UNCHANGED <<coord, handle, catalog, lease, restore>>,
           gate'[p] \in {gate[p], "Degraded"}, active'[p] # {} => Open(p),
           coord[p].step \notin {"idle", "drain"} \/ Quiesced(p)' => active'[p] = {},
           waiter'[p] # "none" => waiter[p] # "none"
    PROVE  AdmissionInv'
<1>0. Guards(p) /\ Current(p)
  BY DEF AdmissionInv
<1>1. Guards(p)'
  BY <1>0 DEF Guards, Open
<1>2. Open(p)' => Open(p)
  BY DEF Open
<1>3. Generation' = Generation
  BY DEF SameJournal, Generation
<1>4. Current(p)'
  BY <1>0, <1>2, <1>3 DEF Current, SameJournal, Follows, Open
<1>. QED
  BY <1>1, <1>4, MoveAdmits

\* The entry of a coordinator, whatever its conversion gives up.
LEMMA EntryAdmits ==
    ASSUME StateTypeOK, AdmissionInv, DurableInv', NEW p \in Process, Follows(p),
           \/ \E q \in Script : BeginMigration(p, q)
           \/ BeginStartup(p) \/ Wait(p) \/ Drained(p) \/ Examine(p) \/ Own(p) \/ Relock(p)
           \/ Downgrade(p)
    PROVE  AdmissionInv'
<1>0. Guards(p) /\ Current(p) /\ LockInv
  BY DEF AdmissionInv, DurableInv
<1>1. ASSUME NEW q \in Script, BeginMigration(p, q) PROVE AdmissionInv'
  <2>1. /\ coord'[p].step = "drain" /\ p \in handle /\ manifest' = manifest
        /\ \A r \in Process \ {p} : coord'[r] = coord[r]
        /\ UNCHANGED <<handle, inspect, catalog, lease>>
    BY <1>1 DEF BeginMigration, StateTypeOK, storeVars, processVars
  <2>. QED
    BY <1>1, <2>1, CloseAdmits DEF BeginMigration
<1>2. CASE BeginStartup(p)
  <2>1. /\ coord'[p].step = "drain" /\ coord'[p].opening /\ manifest' = manifest
        /\ \A r \in Process \ {p} : coord'[r] = coord[r] /\ lease'[r] = lease[r]
        /\ UNCHANGED <<handle, inspect, catalog>>
    BY <1>2 DEF BeginStartup, StateTypeOK, storeVars
  <2>. QED
    BY <1>2, <2>1, CloseAdmits DEF BeginStartup
<1>3. CASE Wait(p)
  <2>1. /\ waiter'[p] = "drained" => active[p] = {}
        /\ \A q \in Process \ {p} : waiter'[q] = waiter[q]
        /\ UNCHANGED <<gate, active, restore, coord, handle, inspect, catalog, lease, manifest>>
        /\ waiter[p] # "none"
    BY <1>3 DEF Wait, WaitForQuiescence, StateTypeOK, GateTypeOK, storeVars, processVars
  <2>2. OthersSame(p) /\ SameJournal
    BY <2>1 DEF OthersSame, SameJournal
  <2>4. coord[p].step = "drain"
    BY <1>0, <2>1 DEF Guards
  <2>5. active[p] # {} => Open(p)
    BY <1>0 DEF Guards, Open
  <2>. QED
    BY <2>1, <2>2, <2>4, <2>5, QuietAdmits DEF Quiesced
<1>4. CASE Drained(p)
  <2>1. /\ coord'[p].step \in {"examine", "own"} /\ coord'[p].opening = coord[p].opening
        /\ \A q \in Process \ {p} : coord'[q] = coord[q]
    BY <1>4, GotoEffect DEF Drained, Step
  <2>2. /\ coord[p].step = "drain" /\ Quiesced(p) /\ waiter'[p] = "none"
        /\ \A q \in Process \ {p} : waiter'[q] = waiter[q]
        /\ UNCHANGED <<gate, active, restore, handle, inspect, catalog, lease, manifest>>
    BY <1>4 DEF Drained, StateTypeOK, GateTypeOK, storeVars, processVars
  <2>3. OthersSame(p) /\ SameJournal /\ Generation' = Generation
    BY <2>1, <2>2 DEF OthersSame, SameJournal, Generation
  <2>4. Guards(p)'
    BY <1>0, <2>1, <2>2 DEF Guards, Quiesced
  <2>5. Open(p)' <=> Open(p)
    BY <2>2 DEF Open
  <2>6. Current(p)'
    BY <1>0, <2>1, <2>2, <2>3, <2>5 DEF Current, Follows, Open
  <2>. QED
    BY <2>3, <2>4, <2>6, MoveAdmits
<1>5. CASE Examine(p)
  <2>1. /\ \E step \in {"load", "own"} : Goto(p, step) /\ step \in Step
        /\ coord[p].step = "examine"
        /\ UNCHANGED <<gate, active, restore, waiter, handle, inspect, catalog, lease, manifest>>
    BY <1>5 DEF Examine, gateVars, storeVars, processVars, Step
  <2>. QED
    BY <2>1, ProceedAdmits
<1>6. CASE Own(p)
  <2>1. CASE Fail(p)
    BY <1>6, <2>1, FailAdmits DEF Own
  <2>2. CASE ~ Fail(p)
    <3>1. PICK step \in {"load", "classify", "relock"} : Goto(p, step)
      BY <1>6, <2>2 DEF Own
    <3>2. /\ step \in Step /\ coord[p].step = "own"
          /\ UNCHANGED <<gate, active, restore, waiter, handle, inspect, catalog, manifest>>
          /\ \A q \in Process \ {p} : lease'[q] = lease[q]
      BY <1>6, <2>2, <3>1 DEF Own, Step, Exclusive, gateVars, storeVars, StateTypeOK
    <3>4. /\ coord'[p].step = step /\ coord'[p].opening = coord[p].opening
          /\ \A q \in Process \ {p} : coord'[q] = coord[q]
      BY <3>1, <3>2, GotoEffect
    <3>5. OthersSame(p) /\ SameJournal /\ Generation' = Generation
      BY <3>2, <3>4 DEF OthersSame, SameJournal, Generation
    <3>6. Guards(p)'
      BY <1>0, <3>1, <3>2, <3>4 DEF Guards, Quiesced
    <3>7. Open(p)' <=> Open(p)
      BY <3>2 DEF Open
    <3>8. Current(p)'
      BY <1>0, <3>1, <3>2, <3>4, <3>5, <3>7 DEF Current, Follows, Open
    <3>. QED
      BY <3>5, <3>6, <3>8, MoveAdmits
  <2>. QED
    BY <2>1, <2>2
<1>7. CASE Relock(p)
  <2>1. CASE Fail(p)
    BY <1>7, <2>1, FailAdmits DEF Relock
  <2>2. CASE ~ Fail(p)
    <3>1. /\ coord[p].step = "relock" /\ \A q \in Process \ {p} : lease'[q] = lease[q]
          /\ UNCHANGED <<gate, active, restore, waiter, coord, handle, inspect, catalog, manifest>>
      BY <1>7, <2>2 DEF Relock, StateTypeOK, gateVars, storeVars
    <3>2. OthersSame(p) /\ SameJournal /\ Generation' = Generation
      BY <3>1 DEF OthersSame, SameJournal, Generation
    <3>3. Guards(p)' /\ (Open(p)' <=> Open(p))
      BY <1>0, <3>1 DEF Guards, Quiesced, Open
    <3>4. Current(p)'
      BY <1>0, <3>1, <3>2, <3>3 DEF Current, Follows, Open
    <3>. QED
      BY <3>2, <3>3, <3>4, MoveAdmits
  <2>. QED
    BY <2>1, <2>2
<1>8. CASE Downgrade(p)
  <2>1. /\ lease'[p] = "shared" /\ \A q \in Process \ {p} : lease'[q] = lease[q]
        /\ UNCHANGED <<gate, active, restore, waiter, coord, handle, inspect, catalog, manifest>>
    BY <1>8 DEF Downgrade, StateTypeOK, gateVars, storeVars
  <2>2. OthersSame(p) /\ SameJournal /\ Generation' = Generation
    BY <2>1 DEF OthersSame, SameJournal, Generation
  <2>3. Guards(p)' /\ (Open(p)' <=> Open(p))
    BY <1>0, <2>1 DEF Guards, Quiesced, Open
  <2>4. Current(p)'
    BY <1>0, <2>1, <2>2, <2>3 DEF Current, Follows, Open
  <2>. QED
    BY <2>2, <2>3, <2>4, MoveAdmits
<1>. QED
  BY <1>1, <1>2, <1>3, <1>4, <1>5, <1>6, <1>7, <1>8

\* A catalog that learns its generation while the coordinator goes on to be ready.
LEMMA LearnAdmits ==
    ASSUME StateTypeOK, AdmissionInv, DurableInv', NEW p \in Process, Follows(p), NEW step, NEW live,
           step = "ready" \/ (step = "verify" /\ coord[p].step = "publish"),
           Goto(p, step), coord[p].step \notin {"idle", "drain"},
           catalog' = [catalog EXCEPT ![p] = live], manifest.active = NoScript,
           p \in handle \/ step = "ready" => live = Generation,
           UNCHANGED <<gateVars, storeVars, lease, handle, inspect>>
    PROVE  AdmissionInv'
<1>0. Guards(p) /\ Current(p) /\ step \in Step
  BY DEF AdmissionInv, Step
<1>1. /\ coord'[p].step = step /\ coord'[p].opening = coord[p].opening
      /\ \A q \in Process \ {p} : coord'[q] = coord[q]
  BY <1>0, GotoEffect
<1>2. /\ catalog'[p] = live /\ \A q \in Process \ {p} : catalog'[q] = catalog[q]
      /\ UNCHANGED <<gate, active, restore, waiter, manifest>>
  BY DEF StateTypeOK, gateVars, storeVars
<1>3. OthersSame(p) /\ SameJournal /\ Generation' = Generation
  BY <1>1, <1>2 DEF OthersSame, SameJournal, Generation
<1>4. Guards(p)'
  BY <1>0, <1>1, <1>2 DEF Guards, Quiesced
<1>5. Open(p)' => p \in handle
  BY DEF Open
<1>6. Current(p)'
  BY <1>1, <1>2, <1>3, <1>5 DEF Current
<1>. QED
  BY <1>3, <1>4, <1>6, MoveAdmits

\* Classifying, checking and journaling a script.
LEMMA JournalAdmits ==
    ASSUME StateTypeOK, AdmissionInv, DurableInv', NEW p \in Process, Follows(p),
           Classify(p) \/ FinishCompleted(p) \/ Preflight(p) \/ BeginJournal(p)
    PROVE  AdmissionInv'
<1>0. Guards(p) /\ Current(p) /\ Knows(p) /\ Generation \in Nat
  BY StoreSplit, ManifestParts DEF AdmissionInv, DurableInv
<1>1. CASE Fail(p) \/ Corrupt(p)
  BY <1>1, FailAdmits DEF Classify, FinishCompleted, Preflight, BeginJournal
<1>2. ASSUME Classify(p), ~ Fail(p) PROVE AdmissionInv'
  <2>1. CASE /\ restore' = [restore EXCEPT ![p] = "Pending"]
             /\ Goto(p, "resume")
             /\ UNCHANGED <<gate, active, notices, waiter, storeVars, processVars, inspect>>
    <3>1. /\ coord'[p].step = "resume" /\ coord'[p].opening = coord[p].opening
          /\ \A q \in Process \ {p} : coord'[q] = coord[q]
      BY <2>1, GotoEffect DEF Step, Exclusive
    <3>2. /\ restore'[p] = "Pending" /\ \A q \in Process \ {p} : restore'[q] = restore[q]
          /\ UNCHANGED <<gate, active, waiter, handle, catalog, lease, inspect, manifest>>
      BY <2>1 DEF StateTypeOK, GateTypeOK, storeVars, processVars
    <3>3. OthersSame(p) /\ SameJournal
      BY <3>1, <3>2 DEF OthersSame, SameJournal
    <3>. QED
      BY <1>2, <3>1, <3>2, <3>3, GoAdmits DEF Classify
  <2>2. CASE /\ manifest.active = NoScript
             /\ Goto(p, IF Applied(coord[p].script) THEN "finish" ELSE "preflight")
             /\ UNCHANGED <<gateVars, storeVars, processVars, inspect>>
    <3>1. \E step \in {"finish", "preflight"} : Goto(p, step) /\ step \in Step
      BY <2>2 DEF Step, Exclusive
    <3>. QED
      BY <1>2, <2>2, <3>1, ProceedAdmits DEF Classify, gateVars, storeVars, processVars
  <2>. QED
    BY <1>2, <2>1, <2>2 DEF Classify
<1>3. ASSUME FinishCompleted(p), ~ (Fail(p) \/ Corrupt(p)) PROVE AdmissionInv'
  <2> DEFINE done == CHOOSE i \in 1 .. Generation : manifest.history[i] = coord[p].script
             live == IF catalog[p] < done THEN done ELSE catalog[p]
  <2>1. coord[p].step = "finish" /\ ~ coord[p].opening /\ manifest.active = NoScript
    BY <1>0, <1>3 DEF FinishCompleted, Knows, Current
  <2>2. /\ {s \in Shard : Len(shard[s]) # live} = {}
        /\ catalog' = [catalog EXCEPT ![p] = live] /\ Goto(p, "ready")
        /\ UNCHANGED <<gateVars, storeVars, lease, startup, handle, inspect>>
    BY <1>3, <2>1, MismatchFails DEF FinishCompleted
  <2>3. 0 \in Shard /\ shard[0] = manifest.history
    BY <2>1, MigrationAssumption DEF Shard, AdmissionInv, DurableInv, JournalPrefix
  <2>4. live = Generation
    BY <2>2, <2>3 DEF Generation
  <2> HIDE DEF live
  <2>. QED
    BY <2>1, <2>2, <2>4, LearnAdmits
<1>4. ASSUME Preflight(p), ~ (Fail(p) \/ Corrupt(p)) PROVE AdmissionInv'
  <2>1. coord[p].step = "preflight" /\ manifest.active = NoScript
    BY <1>0, <1>4 DEF Preflight, Current
  <2>2. /\ Goto(p, "begin") /\ UNCHANGED <<gateVars, storeVars, processVars, inspect>>
        /\ "begin" \in Step
    BY <1>4, MismatchFails DEF Preflight, Step, Exclusive
  <2>. QED
    BY <2>1, <2>2, ProceedAdmits DEF gateVars, storeVars, processVars
<1>5. ASSUME BeginJournal(p), ~ Fail(p) PROVE AdmissionInv'
  <2>1. PICK committed : coord[p].step = "begin" /\ Commit(p, "begin", committed, "resume")
    BY <1>5 DEF BeginJournal
  <2>. QED
    BY <2>1, CommitAdmits DEF Exclusive
<1>. QED
  BY <1>1, <1>2, <1>3, <1>4, <1>5

\* Applying the script, finalising and publishing it.
LEMMA ApplyAdmits ==
    ASSUME StateTypeOK, AdmissionInv, DurableInv', NEW p \in Process, Follows(p),
           Resume(p) \/ ApplyShard(p) \/ Advance(p) \/ Validate(p) \/ Finalize(p) \/ Publish(p)
    PROVE  AdmissionInv'
<1>0. Guards(p) /\ Current(p) /\ Knows(p)
  BY StoreSplit DEF AdmissionInv, DurableInv
<1>1. CASE Fail(p) \/ Corrupt(p)
  <2>1. coord[p].step # "idle"
    BY DEF Resume, ApplyShard, Advance, Validate, Finalize, Publish
  <2>. QED
    BY <1>1, <2>1, FailAdmits
<1>2. ASSUME NEW step \in {"apply", "validate", "finalize", "advance"}, Goto(p, step),
             UNCHANGED <<gateVars, manifest, processVars, inspect>>,
             coord[p].step \in {"resume", "apply", "validate"}
      PROVE  AdmissionInv'
  BY <1>2, ProceedAdmits DEF gateVars, processVars, Step, Exclusive
<1>3. ASSUME Resume(p), ~ (Fail(p) \/ Corrupt(p)) PROVE AdmissionInv'
  BY <1>2, <1>3, MismatchFails DEF Resume, Proceed, storeVars
<1>4. ASSUME ApplyShard(p), ~ (Fail(p) \/ Corrupt(p)) PROVE AdmissionInv'
  <2>1. coord[p].step = "apply" /\ manifest.active = coord[p].script
    BY <1>0, <1>4 DEF ApplyShard, Knows
  <2>2. \E step \in {"validate", "advance"} :
           Goto(p, step) /\ UNCHANGED <<gateVars, manifest, processVars, inspect>>
    BY <1>4, <2>1, MismatchFails DEF ApplyShard, Proceed, storeVars
  <2>. QED
    BY <1>2, <2>1, <2>2
<1>5. CASE Advance(p)
  <2>1. PICK committed : coord[p].step = "advance" /\ Commit(p, "advance", committed, "apply")
    BY <1>5 DEF Advance
  <2>. QED
    BY <2>1, CommitAdmits DEF Exclusive
<1>6. ASSUME Validate(p), ~ (Fail(p) \/ Corrupt(p)) PROVE AdmissionInv'
  BY <1>2, <1>6, MismatchFails DEF Validate, Proceed, storeVars
<1>7. CASE Finalize(p)
  <2>1. PICK committed : /\ committed.active = NoScript /\ coord[p].step = "finalize"
                         /\ Commit(p, "finalize", committed, "publish")
    BY <1>7 DEF Finalize
  <2>. QED
    BY <2>1, CommitAdmits DEF Exclusive
<1>8. ASSUME Publish(p), ~ Fail(p) PROVE AdmissionInv'
  <2>1. PICK step \in {"verify", "ready"} :
           Goto(p, step) /\ (step = "ready" => ~ coord[p].opening)
    BY <1>8 DEF Publish
  <2>2. PICK live : live = IF p \in handle THEN Generation ELSE catalog[p]
    OBVIOUS
  <2>3. /\ coord[p].step = "publish" /\ manifest.active = NoScript
        /\ step = "ready" => p \in handle
    BY <1>0, <1>8, <2>1 DEF Publish, Guards, Current
  <2>4. /\ catalog' = [catalog EXCEPT ![p] = live]
        /\ UNCHANGED <<gateVars, storeVars, lease, handle, inspect>>
    BY <1>8, <2>2 DEF Publish
  <2>. QED
    BY <2>1, <2>2, <2>3, <2>4, LearnAdmits
<1>. QED
  BY <1>1, <1>3, <1>4, <1>5, <1>6, <1>7, <1>8

\* A startup, the end of a coordinator and a crash.
LEMMA StartupAdmits ==
    ASSUME StateTypeOK, AdmissionInv, DurableInv', NEW p \in Process, Follows(p),
           Load(p) \/ Verify(p) \/ PublishReady(p) \/ GiveUp(p) \/ Die(p)
    PROVE  AdmissionInv'
<1>0. Guards(p) /\ Current(p)
  BY DEF AdmissionInv
<1>1. CASE Load(p)
  <2>1. coord[p].step = "load"
    BY <1>1 DEF Load
  <2>2. CASE End(p, "Degraded") /\ UNCHANGED storeVars
    <3>1. active[p] = {} /\ SameJournal
      BY <1>0, <2>1, <2>2 DEF Guards, SameJournal, storeVars
    <3>. QED
      BY <2>2, <3>1, EndAdmits
  <2>3. CASE /\ restore' = [restore EXCEPT ![p] = "Pending"]
             /\ coord' = [coord EXCEPT ![p].step = "resume", ![p].script = manifest.active]
             /\ UNCHANGED <<gate, active, notices, waiter, storeVars, processVars, inspect>>
    <3>1. /\ coord'[p].step = "resume" /\ coord'[p].opening = coord[p].opening
          /\ \A q \in Process \ {p} : coord'[q] = coord[q]
      BY <2>3, AdoptEffect
    <3>2. /\ restore'[p] = "Pending" /\ \A q \in Process \ {p} : restore'[q] = restore[q]
          /\ UNCHANGED <<gate, active, waiter, handle, catalog, lease, inspect, manifest>>
      BY <2>3 DEF StateTypeOK, GateTypeOK, storeVars, processVars
    <3>3. OthersSame(p) /\ SameJournal
      BY <3>1, <3>2 DEF OthersSame, SameJournal
    <3>. QED
      BY <2>1, <3>1, <3>2, <3>3, GoAdmits
  <2>4. CASE Proceed(p, "verify")
    BY <2>1, <2>4, ProceedAdmits DEF Proceed, gateVars, storeVars, processVars, Step
  <2>. QED
    BY <1>1, <2>2, <2>3, <2>4 DEF Load
<1>2. CASE Verify(p)
  <2>1. CASE Fail(p) \/ Corrupt(p)
    BY <1>2, <2>1, FailAdmits DEF Verify
  <2>2. CASE ~ (Fail(p) \/ Corrupt(p))
    <3>1. /\ coord[p].step = "verify" /\ manifest.active = NoScript
          /\ catalog' = [catalog EXCEPT ![p] = Generation] /\ Goto(p, "ready")
          /\ UNCHANGED <<gateVars, storeVars, lease, startup, handle, inspect>>
      BY <1>2, <2>2, MismatchFails DEF Verify
    <3>. QED
      BY <3>1, LearnAdmits
  <2>. QED
    BY <2>1, <2>2
<1>3. CASE PublishReady(p)
  <2>1. CASE Fail(p)
    BY <1>3, <2>1, FailAdmits DEF PublishReady
  <2>2. CASE ~ Fail(p)
    <3>1. /\ coord[p].step = "ready" /\ gate[p] = "Migrating" /\ active[p] = {}
          /\ manifest.active = NoScript /\ catalog[p] = Generation
      BY <1>0, <1>3, <2>2 DEF PublishReady, Current
    <3>2. /\ coord'[p].step = "idle" /\ gate'[p] = "Ready" /\ p \in handle'
          /\ UNCHANGED <<active, waiter, catalog, inspect, manifest>>
          /\ \A q \in Process \ {p} :
                /\ coord'[q] = coord[q] /\ gate'[q] = gate[q] /\ restore'[q] = restore[q]
                /\ lease'[q] = lease[q] /\ (q \in handle' <=> q \in handle)
      BY <1>3, <3>1, CoordinatorParts DEF PublishReady, StateTypeOK, GateTypeOK, storeVars
    <3>3. OthersSame(p) /\ SameJournal /\ Generation' = Generation
      BY <3>2 DEF OthersSame, SameJournal, Generation
    <3>4. Guards(p)'
      BY <1>0, <3>1, <3>2 DEF Guards, Quiesced
    <3>5. Current(p)'
      BY <3>1, <3>2, <3>3 DEF Current
    <3>. QED
      BY <3>3, <3>4, <3>5, MoveAdmits
  <2>. QED
    BY <2>1, <2>2
<1>4. CASE GiveUp(p)
  BY <1>4, FailAdmits DEF GiveUp
<1>5. CASE Die(p)
  <2>1. /\ coord'[p].step = "idle" /\ gate'[p] = "Ready" /\ active'[p] = {}
        /\ waiter'[p] = "none" /\ p \notin handle' /\ manifest' = manifest
    BY <1>5, CoordinatorParts DEF Die, StateTypeOK, GateTypeOK, storeVars
  <2>2. OthersSame(p) /\ SameJournal
    BY <1>5, <2>1 DEF Die, OthersSame, SameJournal, StateTypeOK, GateTypeOK
  <2>3. Guards(p)' /\ Current(p)'
    BY <2>1 DEF Guards, Current, Open, Quiesced
  <2>. QED
    BY <2>2, <2>3, MoveAdmits
<1>. QED
  BY <1>1, <1>2, <1>3, <1>4, <1>5

\* Operations and inspections: the gate is passed only where it is open.
LEMMA ClientAdmits ==
    ASSUME StateTypeOK, AdmissionInv, DurableInv', NEW p \in Process, Follows(p), ClientStep(p)
    PROVE  AdmissionInv'
<1>0. Guards(p) /\ Current(p) /\ (active[p] # {} => Open(p))
  BY DEF AdmissionInv, Guards, Open
<1>1. SameJournal /\ UNCHANGED <<lease, handle, coord>>
  BY ClientFiles DEF SameFiles, SameJournal
<1>2. ASSUME UNCHANGED <<catalog, restore>>,
             \A q \in Process \ {p} : /\ gate'[q] = gate[q] /\ active'[q] = active[q]
                                      /\ waiter'[q] = waiter[q] /\ inspect'[q] = inspect[q],
             gate'[p] \in {gate[p], "Degraded"},
             active'[p] \subseteq active[p] \/ (gate[p] = "Ready" /\ p \in handle),
             waiter'[p] = waiter[p] \/ (waiter[p] # "none" /\ waiter'[p] # "drained")
      PROVE  AdmissionInv'
  <2>1. OthersSame(p)
    BY <1>1, <1>2 DEF OthersSame
  <2>2. active'[p] # {} => Open(p)
    BY <1>0, <1>2 DEF Open
  <2>3. coord[p].step \notin {"idle", "drain"} \/ Quiesced(p)' => active'[p] = {}
    BY <1>0, <1>2 DEF Guards, Quiesced
  <2>. QED
    BY <1>1, <1>2, <2>1, <2>2, <2>3, QuietAdmits
<1>3. ASSUME NEW c \in Client, BeginOperation(p, c) PROVE AdmissionInv'
  <2>1. /\ p \in handle /\ gate[p] = "Ready"
        /\ UNCHANGED <<gate, restore, waiter, inspect, catalog>>
        /\ \A q \in Process \ {p} : active'[q] = active[q]
    BY <1>3 DEF BeginOperation, AcquireOperation, StateTypeOK, GateTypeOK, processVars
  <2>. QED
    BY <1>2, <2>1
<1>4. ASSUME NEW c \in Client, EndOperation(p, c) PROVE AdmissionInv'
  <2>1. PICK s \in Shard :
           /\ ReleaseOperation(p, c, Len(shard[s]) < catalog[p])
           /\ UNCHANGED <<shard, processVars, coord, inspect>>
    BY <1>4 DEF EndOperation
  <2>2. /\ UNCHANGED <<restore, waiter, inspect, catalog>>
        /\ active'[p] \subseteq active[p] /\ gate'[p] \in {gate[p], "Degraded"}
        /\ \A q \in Process \ {p} : active'[q] = active[q] /\ gate'[q] = gate[q]
    BY <2>1 DEF ReleaseOperation, StateTypeOK, GateTypeOK, processVars
  <2>. QED
    BY <1>2, <2>2
<1>5. ASSUME NEW c \in Client, SendNotice(p, c) PROVE AdmissionInv'
  <2>1. /\ UNCHANGED <<gate, active, restore, inspect, catalog>>
        /\ \A q \in Process \ {p} : waiter'[q] = waiter[q]
        /\ waiter'[p] = waiter[p] \/ (waiter[p] # "none" /\ waiter'[p] # "drained")
    BY <1>5 DEF SendNotice, Notify, StateTypeOK, GateTypeOK, processVars
  <2>. QED
    BY <1>2, <2>1
<1>6. CASE InspectDecide(p)
  <2>1. /\ UNCHANGED <<active, restore, waiter, catalog>>
        /\ gate'[p] \in {gate[p], "Degraded"}
        /\ \A q \in Process \ {p} : inspect'[q] = inspect[q] /\ gate'[q] = gate[q]
    BY <1>6 DEF InspectDecide, StateTypeOK, GateTypeOK, processVars
  <2>. QED
    BY <1>2, <2>1
<1>7. CASE BeginInspect(p) \/ InspectManifest(p) \/ InspectCompare(p) \/ InspectGate(p)
  <2>1. /\ UNCHANGED <<gate, active, restore, waiter, catalog>>
        /\ \A q \in Process \ {p} : inspect'[q] = inspect[q]
    BY <1>7 DEF BeginInspect, InspectManifest, InspectCompare, InspectGate, StateTypeOK,
       gateVars, processVars
  <2>. QED
    BY <1>2, <2>1
<1>. QED
  BY <1>3, <1>4, <1>5, <1>6, <1>7 DEF ClientStep

\* Every step keeps the invariant.
LEMMA StepAdmits ==
    ASSUME MigrationTypeOK, AdmissionInv, [MigrationNext]_migrationVars
    PROVE  AdmissionInv'
<1>0. StateTypeOK /\ Durable'
  BY StepKeeps DEF Durable, AdmissionInv, MigrationTypeOK
<1>1. ASSUME NEW p \in Process, CoordinatorStep(p) PROVE AdmissionInv'
  <2>1. Follows(p) /\ DurableInv'
    BY <1>0, <1>1, StepFollows DEF Durable, AdmissionInv, MigrationTypeOK
  <2>. QED
    BY <1>0, <1>1, <2>1, EntryAdmits, JournalAdmits, ApplyAdmits, StartupAdmits DEF CoordinatorStep
<1>2. ASSUME NEW p \in Process, ClientStep(p) PROVE AdmissionInv'
  <2>1. Follows(p) /\ DurableInv'
    BY <1>0, <1>2, StepFollows DEF Durable, AdmissionInv, MigrationTypeOK
  <2>. QED
    BY <1>0, <1>2, <2>1, ClientAdmits
<1>3. CASE UNCHANGED migrationVars
  <2>1. UNCHANGED <<gate, active, restore, waiter, coord, handle, catalog, lease, manifest,
                    overtaken>>
    BY <1>3 DEF migrationVars, gateVars, storeVars, processVars, historyVars
  <2>2. ASSUME NEW p \in Process PROVE Guards(p)' /\ Current(p)'
    BY <2>1 DEF AdmissionInv, Guards, Current, Open, Quiesced, Generation
  <2>. QED
    BY <1>0, <2>2 DEF AdmissionInv, Durable
<1>. QED
  BY <1>1, <1>2, <1>3 DEF MigrationNext

\* An operation that a process has admitted, or would admit, finds every shard at the
\* generation its catalogs have, although other processes migrate the root, conversions
\* give up locks, calls are told that a commit failed which is durable, and gates may be
\* degraded by mistake (try_acquire_operation, acquire_process_ownership, publish_ready).
\* Excepted is exactly the process whose lock was given up while another one became the
\* sole owner, until it publishes again or dies.
THEOREM AdmissionSafe == MigrationSpec => []AdmissionSound
<1>1. MigrationInit => AdmissionInv
  <2>1. ASSUME MigrationInit, NEW p \in Process PROVE Guards(p) /\ Current(p)
    BY <2>1 DEF MigrationInit, GateInit, Guards, Current, Open, NoCoordinator, Quiesced
  <2>. QED
    BY <2>1, InitSound DEF AdmissionInv, Durable
<1>2. MigrationTypeOK /\ AdmissionInv /\ [MigrationNext]_migrationVars => AdmissionInv'
  BY StepAdmits
<1>3. MigrationTypeOK /\ AdmissionInv => AdmissionSound
  <2>1. SUFFICES ASSUME MigrationTypeOK, AdmissionInv, NEW p \in handle \ overtaken,
                        gate[p] = "Ready" \/ active[p] # {}, NEW s \in Shard
                 PROVE  shard[s] = manifest.history /\ Len(shard[s]) = catalog[p]
    BY DEF AdmissionSound, Admits
  <2>2. manifest.active = NoScript /\ catalog[p] = Generation
    BY <2>1 DEF AdmissionInv, Current, Open, MigrationTypeOK, StateTypeOK
  <2>. QED
    BY <2>1, <2>2 DEF AdmissionInv, DurableInv, JournalPrefix, Generation
<1>. QED
  BY <1>1, <1>2, <1>3, MigrationTyped, PTL DEF MigrationSpec
================================================================================
