---------------------------- MODULE SchemaMigration ----------------------------
(***************************************************************************)
(* Application-schema migrations over all shards of a root that several    *)
(* processes share (src/storage/migration.rs, manifest.rs, mod.rs,         *)
(* shard.rs, process_lock.rs).                                             *)
(*                                                                         *)
(* A coordinator closes the gate of its process, becomes the only process  *)
(* of the root, journals the script in manifest.sqlite, applies it to one  *)
(* shard file after the other, finalises the journal, and tells the        *)
(* catalogs of its process the new generation.  No transaction spans two   *)
(* of the files.  Whoever opens the root next, or repeats the script,      *)
(* finishes a migration that was cut short.                                *)
(*                                                                         *)
(* A schema is the sequence of the scripts that produced it, its           *)
(* generation the length; a fingerprint stands for the sequence.  The root *)
(* exists, has its shards, and has no global index (a root with one        *)
(* refuses migrations).                                                    *)
(***************************************************************************)
EXTENDS Integers, Sequences, SchemaGate

CONSTANTS
    NumShards,
    Script,             \* SQL texts; equal texts are equal migrations
    NoScript, NoProcess,
    Inspector,          \* the processes whose status is inspected
    Yielding,           \* processes whose failed flock conversions give the lock up
    Ambiguous           \* manifest commits that may report an error and be durable

ASSUME MigrationAssumption ==
    /\ NumShards \in Nat \ {0}
    /\ NoScript \notin Script
    /\ NoProcess \notin Process
    /\ Inspector \subseteq Process
    /\ Yielding \subseteq Process
    /\ Ambiguous \subseteq {"begin", "advance", "finalize"}

VARIABLES
    manifest,   \* manifest.sqlite: completed migrations, the active one, integrity
    shard,      \* shard[s]: the schema of shard file s
    lease,      \* lease[p]: the mode of p's lock on the process-lease file
    startup,    \* the process that holds the startup lock
    handle,     \* the processes with a live database handle
    catalog,    \* catalog[p]: the generation its live catalogs carry
    coord,      \* coord[p]: the migration or startup under way in p
    inspect,    \* inspect[p]: a status inspection under way in p
    overtaken,  \* history: live handles a sole owner could not see, their lock given up
    misled      \* history: there was such a handle, or a final commit lied

storeVars == <<manifest, shard>>
processVars == <<lease, startup, handle, catalog>>
historyVars == <<overtaken, misled>>
migrationVars == <<gateVars, storeVars, processVars, coord, inspect, historyVars>>

Shard == 0 .. NumShards - 1
Schema == Seq(Script)

Manifest == [history : Schema, active : Script \cup {NoScript}, next : 0 .. NumShards,
             state : {"Ready", "Migrating", "Degraded"}]

\* The steps of a coordinator; opening tells a startup from a broadcast.
Exclusive == {"classify", "finish", "preflight", "begin", "resume", "apply", "advance",
              "validate", "finalize", "publish"}
Step == {"idle", "drain", "examine", "own", "relock", "load", "verify", "ready"} \cup Exclusive
Coordinator == [step : Step, opening : BOOLEAN, script : Script \cup {NoScript}]
NoCoordinator == [step |-> "idle", opening |-> FALSE, script |-> NoScript]

Inspection == [step : {"idle", "before", "read", "differs", "gate"},
               before : Nat, read : Nat, gate : GateState]
NoInspection == [step |-> "idle", before |-> 0, read |-> 0, gate |-> "Ready"]

StateTypeOK ==
    /\ GateTypeOK
    /\ manifest \in Manifest
    /\ shard \in [Shard -> Schema]
    /\ lease \in [Process -> {"none", "shared", "exclusive"}]
    /\ startup \in Process \cup {NoProcess}
    /\ handle \subseteq Process
    /\ catalog \in [Process -> Nat]
    /\ coord \in [Process -> Coordinator]
    /\ inspect \in [Process -> Inspection]

MigrationTypeOK == StateTypeOK /\ overtaken \subseteq handle /\ misled \in BOOLEAN

Generation == Len(manifest.history)
Target == Append(manifest.history, manifest.active)

\* Mutant: the latest migration is not found in the history.
AppliedEarlier(q) == \E i \in 1 .. Generation - 1 : manifest.history[i] = q

Applied(q) == \E i \in 1 .. Generation : manifest.history[i] = q

MigrationInit ==
    /\ GateInit
    /\ manifest = [history |-> <<>>, active |-> NoScript, next |-> 0, state |-> "Ready"]
    /\ shard = [s \in Shard |-> <<>>]
    /\ lease = [p \in Process |-> "none"]
    /\ startup = NoProcess
    /\ handle = {}
    /\ catalog = [p \in Process |-> 0]
    /\ coord = [p \in Process |-> NoCoordinator]
    /\ inspect = [p \in Process |-> NoInspection]
    /\ overtaken = {}
    /\ misled = FALSE

--------------------------------------------------------------------------------
(* How a coordinator goes on, gives up, or reports corruption.             *)

Goto(p, step) == coord' = [coord EXCEPT ![p].step = step]

\* The coordinator of p ends with an error.  A broadcast drops its gate guard here and
\* its lease afterwards (Downgrade); a startup drops both, and the coordination with
\* them if the process has no other handle.
End(p, state) ==
    /\ coord' = [coord EXCEPT ![p] = NoCoordinator]
    /\ startup' = IF startup = p THEN NoProcess ELSE startup
    /\ lease' = [lease EXCEPT ![p] = IF ~ coord[p].opening THEN @
                                     ELSE IF p \in handle THEN "shared" ELSE "none"]
    /\ gate' = [gate EXCEPT ![p] = IF p \in handle THEN state ELSE "Ready"]
    /\ restore' = [restore EXCEPT ![p] = "Ready"]
    /\ waiter' = [waiter EXCEPT ![p] = "none"]
    /\ UNCHANGED <<active, notices, handle, catalog, inspect>>

Fail(p) == End(p, GateAfterDrop(p, restore[p])) /\ UNCHANGED <<storeVars, historyVars>>

\* record_schema_degraded: one attempt to record it, which may not get the lock.
RecordDegraded(corrupt) ==
    \/ UNCHANGED manifest
    \/ corrupt /\ manifest' = [manifest EXCEPT !.state = "Degraded"]

\* DataCorruption: the gate degrades, and so does the manifest.
Corrupt(p) == End(p, "Degraded") /\ RecordDegraded(TRUE) /\ UNCHANGED <<shard, historyVars>>

\* A shard is not what a check expects: newer than the target generation is refused,
\* anything else is corruption.  The first such shard decides.
Mismatch(p, source, bad) ==
    IF Len(shard[CHOOSE s \in bad : \A t \in bad : s <= t]) > source + 1
    THEN Fail(p) ELSE Corrupt(p)

Proceed(p, step) ==
    /\ Goto(p, step)
    /\ UNCHANGED <<gateVars, storeVars, processVars, inspect, historyVars>>

\* Mutant: an error of COMMIT is taken for a rollback.
CommitAssumed(p, kind, committed, next) ==
    /\ \/ /\ manifest' = committed /\ Goto(p, next)
          /\ restore' = [restore EXCEPT ![p] = "Pending"]
          /\ UNCHANGED <<gate, active, notices, waiter, processVars, inspect, historyVars>>
       \/ /\ End(p, GateAfterDrop(p, restore[p]))
          /\ manifest' \in {manifest} \cup (IF kind \in Ambiguous THEN {committed} ELSE {})
          /\ misled' = (misled \/ (kind = "finalize" /\ manifest' # manifest))
          /\ UNCHANGED overtaken
    /\ UNCHANGED shard

\* COMMIT of manifest.sqlite: it works, or it reports an error and may still be durable.
\* From the attempt on, a dropped guard leaves the gate Pending.
Commit(p, kind, committed, next) ==
    /\ \/ /\ manifest' = committed /\ Goto(p, next)
          /\ restore' = [restore EXCEPT ![p] = "Pending"]
          /\ UNCHANGED <<gate, active, notices, waiter, processVars, inspect, historyVars>>
       \/ /\ End(p, GateAfterDrop(p, "Pending"))
          /\ manifest' \in {manifest} \cup (IF kind \in Ambiguous THEN {committed} ELSE {})
          /\ misled' = (misled \/ (kind = "finalize" /\ manifest' # manifest))
          /\ UNCHANGED overtaken
    /\ UNCHANGED shard

--------------------------------------------------------------------------------
(* Entry: gate, quiescence, sole ownership of the root.                    *)

\* broadcast: begin_schema_migration
BeginMigration(p, q) ==
    /\ p \in handle /\ coord[p].step = "idle"
    /\ CloseGate(p)
    /\ coord' = [coord EXCEPT ![p] = [step |-> "drain", opening |-> FALSE, script |-> q]]
    /\ UNCHANGED <<storeVars, processVars, inspect, historyVars>>

\* Storage::open: startup lock, then the shared process lease unless the process has
\* it already, then the gate.
BeginStartup(p) ==
    /\ startup = NoProcess /\ coord[p].step = "idle"
    /\ p \notin handle => \A q \in Process : lease[q] # "exclusive"
    /\ CloseGate(p)
    /\ startup' = p
    /\ lease' = [lease EXCEPT ![p] = IF @ = "none" THEN "shared" ELSE @]
    /\ coord' = [coord EXCEPT ![p] = [step |-> "drain", opening |-> TRUE, script |-> NoScript]]
    /\ UNCHANGED <<storeVars, handle, catalog, inspect, historyVars>>

Drained(p) ==
    /\ coord[p].step = "drain" /\ Quiesced(p)
    /\ Goto(p, IF coord[p].opening THEN "examine" ELSE "own")
    /\ waiter' = [waiter EXCEPT ![p] = "none"]
    /\ UNCHANGED <<gate, active, notices, restore, storeVars, processVars, inspect, historyVars>>

\* startup_profile: only a settled manifest is opened next to other processes.
Examine(p) ==
    /\ coord[p].step = "examine"
    /\ Goto(p, IF manifest.state \in {"Ready", "Degraded"} THEN "load" ELSE "own")
    /\ UNCHANGED <<gateVars, storeVars, processVars, inspect, historyVars>>

\* Mutant: the upgrade does not look for other holders.
AloneAlways(p) == TRUE

\* No other process holds the process-lease file.
Alone(p) == \A q \in Process \ {p} : lease[q] = "none"

\* The live handles that this does not see: a failed conversion has given up their lock.
Unseen(p) == {q \in handle \ {p} : lease[q] = "none"}

\* try_acquire_exclusive: a nonblocking conversion of the flock.  On Linux a conversion
\* that fails has already given up the shared lock.
Own(p) ==
    /\ coord[p].step = "own"
    /\ IF lease[p] = "exclusive" THEN Fail(p)    \* an earlier guard is not yet dropped
       ELSE /\ IF Alone(p)
               THEN /\ lease' = [lease EXCEPT ![p] = "exclusive"]
                    /\ Goto(p, IF coord[p].opening THEN "load" ELSE "classify")
                    /\ overtaken' = overtaken \cup Unseen(p)
                    /\ misled' = (misled \/ Unseen(p) # {})
               ELSE /\ lease' = [lease EXCEPT ![p] = IF p \in Yielding THEN "none" ELSE @]
                    /\ Goto(p, "relock")
                    /\ UNCHANGED historyVars
            /\ UNCHANGED <<gateVars, storeVars, startup, handle, catalog, inspect>>

\* The blocking LOCK_SH that takes a lost lock back, and then the Busy error.
Relock(p) ==
    /\ coord[p].step = "relock"
    /\ IF lease[p] = "none"
       THEN /\ \A q \in Process : lease[q] # "exclusive"
            /\ lease' = [lease EXCEPT ![p] = "shared"]
            /\ UNCHANGED <<gateVars, storeVars, startup, handle, catalog, coord, inspect, historyVars>>
       ELSE Fail(p)

\* The guard of the process lease, dropped after the gate guard.
Downgrade(p) ==
    /\ lease[p] = "exclusive" /\ coord[p].step \notin Exclusive \cup {"load", "verify", "ready"}
    /\ lease' = [lease EXCEPT ![p] = "shared"]
    /\ UNCHANGED <<gateVars, storeVars, startup, handle, catalog, coord, inspect, historyVars>>

--------------------------------------------------------------------------------
(* A broadcast: what to do with the script, and its journal.               *)

\* classify_schema_migration
Classify(p) ==
    LET q == coord[p].script
    IN  /\ coord[p].step = "classify"
        /\ IF manifest.active = q
           THEN /\ restore' = [restore EXCEPT ![p] = "Pending"]
                /\ Goto(p, "resume")
                /\ UNCHANGED <<gate, active, notices, waiter, storeVars, processVars, inspect, historyVars>>
           ELSE IF manifest.active # NoScript
           THEN Fail(p)                       \* a different migration is active
           ELSE /\ Goto(p, IF Applied(q) THEN "finish" ELSE "preflight")
                /\ UNCHANGED <<gateVars, storeVars, processVars, inspect, historyVars>>

\* finish_completed_schema_migration: the journal says complete; the catalogs learn it
\* now if they have not, and the shards are checked at the generation they should have.
FinishCompleted(p) ==
    LET done == CHOOSE i \in 1 .. Generation : manifest.history[i] = coord[p].script
        live == IF catalog[p] < done THEN done ELSE catalog[p]
        bad == {s \in Shard : Len(shard[s]) # live}
    IN  /\ coord[p].step = "finish"
        /\ IF catalog[p] < done - 1 THEN Corrupt(p)
           ELSE IF bad # {} THEN Mismatch(p, live - 1, bad)
           ELSE /\ catalog' = [catalog EXCEPT ![p] = live]
                /\ Goto(p, IF coord[p].opening THEN "verify" ELSE "ready")
                /\ UNCHANGED <<gateVars, storeVars, lease, startup, handle, inspect, historyVars>>

\* preflight_new_schema_migration: every shard is at the generation of the catalog.
Preflight(p) ==
    LET bad == {s \in Shard : Len(shard[s]) # catalog[p]}
    IN  /\ coord[p].step = "preflight"
        /\ IF bad # {} THEN Mismatch(p, catalog[p], bad)
           ELSE Goto(p, "begin") /\ UNCHANGED <<gateVars, storeVars, processVars, inspect, historyVars>>

\* begin_schema_migration: the journal row, under the generation the preflight used.
BeginJournal(p) ==
    /\ coord[p].step = "begin"
    /\ IF manifest.active = NoScript /\ ~ Applied(coord[p].script)
             /\ Generation = catalog[p] /\ manifest.state = "Ready"
       THEN Commit(p, "begin", [manifest EXCEPT !.active = coord[p].script, !.next = 0,
                                                !.state = "Migrating"], "resume")
       ELSE Fail(p)

--------------------------------------------------------------------------------
(* Applying the journaled script, new or resumed.                          *)

\* validate_schema_migration_prefix: what the journal says of shard s.
Journaled(s) ==
    \/ s <= manifest.next /\ shard[s] = Target
    \/ s >= manifest.next /\ shard[s] = manifest.history

\* resume_active_schema_migration, up to its loop
Resume(p) ==
    LET bad == {s \in Shard : ~ Journaled(s)}
    IN  /\ coord[p].step = "resume"
        /\ IF \/ ~ coord[p].opening /\ catalog[p] # Generation
              \/ manifest.state # "Migrating"
           THEN Corrupt(p)
           ELSE IF bad # {} THEN Mismatch(p, Generation, bad)
           ELSE Proceed(p, "apply")

\* Mutant: a shard that has the script already gets it again.
ApplyShardAgain(p) ==
    LET s == manifest.next
    IN  /\ coord[p].step = "apply"
        /\ IF s = NumShards THEN Proceed(p, "validate")
           ELSE /\ shard' = [shard EXCEPT ![s] = Append(@, manifest.active)]
                /\ Goto(p, "advance")
                /\ UNCHANGED <<gateVars, manifest, processVars, inspect, historyVars>>

\* One round of the loop: under a manifest transaction, the shard of the journal gets
\* the script and its new generation in one transaction of its own.
ApplyShard(p) ==
    LET s == manifest.next
    IN  /\ coord[p].step = "apply"
        /\ IF manifest.active # coord[p].script
           THEN IF Applied(coord[p].script) THEN Proceed(p, "finish") ELSE Fail(p)
           ELSE IF s = NumShards THEN Proceed(p, "validate")
           ELSE IF shard[s] \notin {manifest.history, Target} THEN Mismatch(p, Generation, {s})
           ELSE /\ shard' = [shard EXCEPT ![s] = Target]
                /\ Goto(p, "advance")
                /\ UNCHANGED <<gateVars, manifest, processVars, inspect, historyVars>>

\* advance_schema_migration: the transaction that was open records the progress.
Advance(p) ==
    /\ coord[p].step = "advance"
    /\ Commit(p, "advance", [manifest EXCEPT !.next = @ + 1], "apply")

Validate(p) ==
    LET bad == {s \in Shard : shard[s] # Target}
    IN  /\ coord[p].step = "validate"
        /\ IF bad # {} THEN Mismatch(p, Generation, bad) ELSE Proceed(p, "finalize")

\* finalize_schema_migration: generation, journal and integrity in one transaction.
Finalize(p) ==
    /\ coord[p].step = "finalize"
    /\ Commit(p, "finalize", [history |-> Target, active |-> NoScript, next |-> 0,
                              state |-> "Ready"], "publish")

\* publish_schema_generation: the live catalogs of the process, not those of others.  A
\* catalog at neither the source nor the target generation is an error.
Publish(p) ==
    /\ coord[p].step = "publish"
    /\ IF p \in handle /\ catalog[p] \notin {Generation - 1, Generation} THEN Fail(p)
       ELSE /\ catalog' = [catalog EXCEPT ![p] = IF p \in handle THEN Generation ELSE @]
            /\ Goto(p, IF coord[p].opening THEN "verify" ELSE "ready")
            /\ UNCHANGED <<gateVars, storeVars, lease, startup, handle, inspect, historyVars>>

--------------------------------------------------------------------------------
(* Startup, and the end of both.                                           *)

\* The manifest is loaded; an active migration is resumed before anything else.
Load(p) ==
    /\ coord[p].step = "load"
    /\ IF manifest.state = "Degraded"
       THEN End(p, "Degraded") /\ UNCHANGED <<storeVars, historyVars>>
       ELSE IF manifest.active # NoScript
       THEN /\ restore' = [restore EXCEPT ![p] = "Pending"]
            /\ coord' = [coord EXCEPT ![p].step = "resume", ![p].script = manifest.active]
            /\ UNCHANGED <<gate, active, notices, waiter, storeVars, processVars, inspect, historyVars>>
       ELSE Proceed(p, "verify")

\* Mutant: the catalogs are left one generation behind.
VerifyBehind(p) ==
    /\ coord[p].step = "verify"
    /\ \A s \in Shard : shard[s] = manifest.history
    /\ catalog' = [catalog EXCEPT ![p] = Generation - 1]
    /\ Goto(p, "ready")
    /\ UNCHANGED <<gateVars, storeVars, lease, startup, handle, inspect, historyVars>>

\* verify_current_schema_consensus, seal_verified_schema and the reconciliation of the
\* catalogs of other handles, which may be one generation behind.
Verify(p) ==
    LET bad == {s \in Shard : shard[s] # manifest.history}
    IN  /\ coord[p].step = "verify"
        /\ IF bad # {} THEN Mismatch(p, Generation - 1, bad)
           ELSE IF manifest.state = "Degraded" THEN Corrupt(p)
           ELSE IF \/ manifest.active # NoScript
                   \/ p \in handle /\ catalog[p] \notin {Generation - 1, Generation}
           THEN Fail(p)
           ELSE /\ catalog' = [catalog EXCEPT ![p] = Generation]
                /\ Goto(p, "ready")
                /\ UNCHANGED <<gateVars, storeVars, lease, startup, handle, inspect, historyVars>>

\* publish_ready opens the gate; a startup returns its handle and gives up the exclusive
\* lease with the startup lock, here in the same step: until it does, other processes are
\* only kept out a little longer.
PublishReady(p) ==
    /\ coord[p].step = "ready"
    /\ IF gate[p] = "Migrating" /\ active[p] = {}
       THEN /\ gate' = [gate EXCEPT ![p] = "Ready"]
            /\ restore' = [restore EXCEPT ![p] = "Ready"]
            /\ handle' = handle \cup {p}
            /\ startup' = IF startup = p THEN NoProcess ELSE startup
            /\ lease' = [lease EXCEPT ![p] = IF coord[p].opening THEN "shared" ELSE @]
            /\ coord' = [coord EXCEPT ![p] = NoCoordinator]
            /\ overtaken' = overtaken \ {p}
            /\ UNCHANGED <<active, notices, waiter, storeVars, catalog, inspect, misled>>
       ELSE Fail(p)

\* An error, a cancellation or a deadline between two steps.  None of them comes between
\* the last commit of a broadcast and its publication.
GiveUp(p) ==
    /\ coord[p].step \notin {"idle", "relock", "publish", "ready"}
    /\ Fail(p)

\* The process dies or closes its last handle: everything it had in memory is gone and
\* the kernel releases its locks.  A shard or manifest transaction under way is lost.
Die(p) ==
    /\ lease[p] # "none" \/ coord[p].step # "idle"
    /\ gate' = [gate EXCEPT ![p] = "Ready"]
    /\ active' = [active EXCEPT ![p] = {}]
    /\ notices' = [notices EXCEPT ![p] = {}]
    /\ restore' = [restore EXCEPT ![p] = "Ready"]
    /\ waiter' = [waiter EXCEPT ![p] = "none"]
    /\ lease' = [lease EXCEPT ![p] = "none"]
    /\ startup' = IF startup = p THEN NoProcess ELSE startup
    /\ handle' = handle \ {p}
    /\ catalog' = [catalog EXCEPT ![p] = 0]
    /\ coord' = [coord EXCEPT ![p] = NoCoordinator]
    /\ inspect' = [inspect EXCEPT ![p] = NoInspection]
    /\ overtaken' = overtaken \ {p}
    /\ UNCHANGED <<storeVars, misled>>

--------------------------------------------------------------------------------
(* Ordinary operations and status inspections of a process.                *)

BeginOperation(p, c) ==
    /\ p \in handle
    /\ AcquireOperation(p, c)
    /\ UNCHANGED <<storeVars, processVars, coord, inspect, historyVars>>

\* The operation opens a shard, which is checked against the catalog (open_shard), and
\* ends.  An older shard is corruption; a newer one is refused.
EndOperation(p, c) ==
    \E s \in Shard :
        LET older == Len(shard[s]) < catalog[p]
        IN  /\ ReleaseOperation(p, c, older)
            /\ RecordDegraded(older)
            /\ UNCHANGED <<shard, processVars, coord, inspect, historyVars>>

SendNotice(p, c) == Notify(p, c) /\ UNCHANGED <<storeVars, processVars, coord, inspect, historyVars>>

Wait(p) == WaitForQuiescence(p) /\ UNCHANGED <<storeVars, processVars, coord, inspect, historyVars>>

\* schema_migration_summary, schema_migration: the generation of the catalogs, the
\* manifest, the catalogs again, the gate, and the catalogs a third time.
BeginInspect(p) ==
    /\ p \in handle \cap Inspector /\ inspect[p].step = "idle"
    /\ inspect' = [inspect EXCEPT ![p] = [NoInspection EXCEPT !.step = "before",
                                                              !.before = catalog[p]]]
    /\ UNCHANGED <<gateVars, storeVars, processVars, coord, historyVars>>

InspectManifest(p) ==
    /\ inspect[p].step = "before"
    /\ inspect' = [inspect EXCEPT ![p].step = "read", ![p].read = Generation]
    /\ UNCHANGED <<gateVars, storeVars, processVars, coord, historyVars>>

\* Equal: the answer is returned.  Unequal catalogs: try again.
InspectCompare(p) ==
    /\ inspect[p].step = "read"
    /\ inspect' = [inspect EXCEPT ![p] =
                      IF catalog[p] = @.before /\ @.read # @.before
                      THEN [@ EXCEPT !.step = "differs"] ELSE NoInspection]
    /\ UNCHANGED <<gateVars, storeVars, processVars, coord, historyVars>>

InspectGate(p) ==
    /\ inspect[p].step = "differs"
    /\ inspect' = [inspect EXCEPT ![p].step = "gate", ![p].gate = gate[p]]
    /\ UNCHANGED <<gateVars, storeVars, processVars, coord, historyVars>>

\* Mutant: the catalogs are not looked at a third time.
DecideAtOnce(p) ==
    LET i == inspect[p]
        corrupt == ~ (i.read = i.before + 1 /\ i.gate \in {"Migrating", "Pending"})
    IN  /\ i.step = "gate"
        /\ inspect' = [inspect EXCEPT ![p] = NoInspection]
        /\ gate' = [gate EXCEPT ![p] = IF corrupt THEN "Degraded" ELSE @]
        /\ RecordDegraded(corrupt)
        /\ UNCHANGED <<active, notices, restore, waiter, shard, processVars, coord, historyVars>>

\* A manifest one generation ahead is a publication under way while the gate is closed;
\* any other difference is reported as corruption.
InspectDecide(p) ==
    LET i == inspect[p]
        corrupt == /\ catalog[p] = i.before
                   /\ ~ (i.read = i.before + 1 /\ i.gate \in {"Migrating", "Pending"})
    IN  /\ i.step = "gate"
        /\ inspect' = [inspect EXCEPT ![p] = NoInspection]
        /\ gate' = [gate EXCEPT ![p] = IF corrupt THEN "Degraded" ELSE @]
        /\ RecordDegraded(corrupt)
        /\ UNCHANGED <<active, notices, restore, waiter, shard, processVars, coord, historyVars>>

CoordinatorStep(p) ==
    \/ \E q \in Script : BeginMigration(p, q)
    \/ BeginStartup(p) \/ Wait(p) \/ Drained(p) \/ Examine(p) \/ Own(p) \/ Relock(p)
    \/ Classify(p) \/ FinishCompleted(p) \/ Preflight(p) \/ BeginJournal(p)
    \/ Resume(p) \/ ApplyShard(p) \/ Advance(p) \/ Validate(p) \/ Finalize(p) \/ Publish(p)
    \/ Load(p) \/ Verify(p) \/ PublishReady(p)
    \/ Downgrade(p) \/ GiveUp(p) \/ Die(p)

ClientStep(p) ==
    \/ \E c \in Client : BeginOperation(p, c) \/ EndOperation(p, c) \/ SendNotice(p, c)
    \/ BeginInspect(p) \/ InspectManifest(p) \/ InspectCompare(p) \/ InspectGate(p)
    \/ InspectDecide(p)

MigrationNext == \E p \in Process : CoordinatorStep(p) \/ ClientStep(p)

MigrationSpec == MigrationInit /\ [][MigrationNext]_migrationVars

\* Admitted operations end, their wakeups are sent, and the waiting coordinator runs.
FairMigrationSpec ==
    /\ MigrationSpec
    /\ \A p \in Process :
          /\ WF_migrationVars(Wait(p)) /\ WF_migrationVars(Drained(p))
          /\ \A c \in Client : /\ WF_migrationVars(EndOperation(p, c))
                                /\ WF_migrationVars(SendNotice(p, c))

--------------------------------------------------------------------------------
(* What a migration promises.                                              *)

\* "The current shard may be at source or target to cover a commit-before-acknowledgement
\* crash" (shard.rs): whatever dies or fails wherever, the shards are the prefix the
\* journal says, no shard misses a script or gets one twice, and without a journal all
\* shards have the schema of the manifest.
JournalPrefix ==
    IF manifest.active = NoScript
    THEN \A s \in Shard : shard[s] = manifest.history
    ELSE \A s \in Shard : Journaled(s)

\* An operation that process p has admitted, or would admit now, finds every shard at
\* the generation its catalogs have.
Admits(p) ==
    gate[p] = "Ready" \/ active[p] # {} =>
        \A s \in Shard : shard[s] = manifest.history /\ Len(shard[s]) = catalog[p]

\* Admission is sound in every process with a live handle, although others migrate the
\* root and commits lie (try_acquire_operation, acquire_process_ownership, publish_ready),
\* except where a failed flock conversion has given up the lock of the process and another
\* one became the sole owner meanwhile: from then until the process publishes again or dies.
AdmissionSound == \A p \in handle \ overtaken : Admits(p)

\* "A live peer therefore receives no schema change" (docs/ARCHITECTURE.md): admission is
\* sound without exception.  The conversion of a Linux flock does not keep this
\* (try_acquire_exclusive).
PeersBlock == \A p \in handle : Admits(p)

Healthy == manifest.state # "Degraded" /\ \A p \in Process : gate[p] # "Degraded"

\* Nobody tampers with the files here, so corruption is never reported: neither by a
\* migration, a recovery or an operation, nor by an inspection that runs while a
\* migration is published (record_schema_degraded).  Two things can mislead the code
\* into reporting it: a sole owner that could not see a live handle, and a finalisation
\* that reported an error and is durable, after which the catalogs are behind for good.
NeverDegraded == ~ misled => Healthy

\* "Repeating the exact SQL is idempotent" (begin_schema_migration): no script is in the
\* history of the root twice, although a call may be told that its commit failed and
\* repeat it, from any process.
ScriptOnce == \A i, j \in 1 .. Generation : manifest.history[i] = manifest.history[j] => i = j

\* Whoever works on the files of a migration is the only process of the root.
LockInv ==
    /\ \A p \in Process : (p \in handle \/ coord[p].step # "idle") /\ coord[p].step # "relock" =>
          lease[p] # "none"
    /\ \A p, q \in Process : lease[p] = "exclusive" /\ lease[q] # "none" => p = q
    /\ \A p \in Process : coord[p].step \in Exclusive => lease[p] = "exclusive"

\* What a coordinator knows of the journal at each step that writes to the files.
StoreInv ==
    /\ manifest.active # NoScript =>
          ~ Applied(manifest.active) /\ manifest.state # "Ready"
    /\ \A p \in Process :
          LET step == coord[p].step
          IN  /\ step \in {"classify", "finish", "preflight", "begin"} => ~ coord[p].opening
              /\ step # "idle" /\ ~ coord[p].opening => coord[p].script # NoScript
              /\ step = "finish" => Applied(coord[p].script)
              /\ step \in {"resume", "apply", "advance", "validate", "finalize"} =>
                    manifest.active = coord[p].script /\ manifest.active # NoScript
              /\ step = "advance" => manifest.next < NumShards /\ shard[manifest.next] = Target
              /\ step \in {"validate", "finalize"} => manifest.next = NumShards
              /\ step = "load" /\ lease[p] # "exclusive" =>
                    manifest.active = NoScript \/ manifest.state = "Degraded"

\* The inductive invariant of the files.  It holds whatever a flock conversion gives up
\* and whichever commits report an error that are durable.
DurableInv == JournalPrefix /\ ScriptOnce /\ LockInv /\ StoreInv

\* What the history says: who is overtaken is live, has lost its lock to a sole owner at
\* some time, and has misled the code.
HistoryInv ==
    /\ overtaken # {} => misled
    /\ \A p \in handle, q \in Process :
          lease[p] = "none" /\ lease[q] = "exclusive" => p \in overtaken

\* The gate of a process is closed while its coordinator is under way.
GateInv ==
    \A p \in Process :
        /\ gate[p] = "Migrating" <=> coord[p].step # "idle"
        /\ coord[p].step # "idle" /\ ~ coord[p].opening => p \in handle
        /\ coord[p].step \notin {"idle", "drain"} \/ Quiesced(p) => active[p] = {}
        /\ active[p] # {} => gate[p] # "Pending" /\ (gate[p] = "Migrating" => restore[p] = "Ready")
        /\ waiter[p] # "none" => coord[p].step = "drain"
        /\ p \notin handle => active[p] = {} /\ inspect[p].step = "idle" /\ gate[p] # "Pending"

\* What the journal says of the coordinators and of the gates.
JournalInv ==
    /\ manifest.state = IF manifest.active = NoScript THEN "Ready" ELSE "Migrating"
    /\ manifest.active # NoScript =>
          \A p \in handle : gate[p] # "Ready" /\ (gate[p] = "Migrating" => restore[p] = "Pending")
    /\ \A p \in Process :
          LET step == coord[p].step
          IN  step \in {"finish", "preflight", "begin", "publish", "verify", "ready"} =>
                  manifest.active = NoScript

\* The catalogs of a process are behind only until it has published.
CatalogInv ==
    \A p \in Process :
        /\ p \in handle => catalog[p] = IF coord[p].step = "publish" THEN Generation - 1
                                        ELSE Generation
        /\ coord[p].step = "ready" => catalog[p] = Generation

\* A difference that an inspection has seen is a publication it overlaps with.
InspectInv ==
    \A p \in Process :
        LET i == inspect[p]
        IN  /\ i.step # "idle" => i.before <= catalog[p]
            /\ i.step \in {"read", "differs", "gate"} => i.before <= i.read /\ i.read <= Generation
            /\ i.step \in {"differs", "gate"} => i.read # i.before
            /\ i.step = "gate" /\ catalog[p] = i.before => i.gate = "Migrating"

\* The inductive invariant behind the promises: the files and locks whatever happens,
\* gates, catalogs and inspections until the code is misled (apply_schema_migration,
\* Storage::open, try_acquire_exclusive, finalize_schema_migration).
MigrationInv ==
    /\ DurableInv /\ HistoryInv /\ NeverDegraded
    /\ ~ misled => GateInv /\ JournalInv /\ CatalogInv /\ InspectInv

\* "Register before checking the count. This closes the gap where the final operation
\* exits between the check and the await" (wait_for_quiescence): a coordinator does not
\* wait for ever for operations that have all ended.
DrainEnds == \A p \in Process : coord[p].step = "drain" ~> coord[p].step # "drain"
================================================================================
