----------------------------- MODULE IsamPipeline ------------------------------
(***************************************************************************)
(* The pipelined (version 4) commit of the ISAM store: Store::             *)
(* write_pipelined, complete_pipeline_data, open_inner_with_snapshot,      *)
(* DurabilityBarrier::run and format::read_snapshot.                       *)
(*                                                                         *)
(* A batch appends immutable pages and installs a new working root under   *)
(* the staging gate, syncs its pages outside every gate, sets its          *)
(* completion bit, waits until every earlier generation has set its own,   *)
(* writes the next publication into the alternate root slot and syncs      *)
(* again.  Processes die at any moment; a power loss leaves, of the writes *)
(* no sync has covered, any that it pleases.                               *)
(*                                                                         *)
(* A sync is only trusted with the writes of its own process ("this does   *)
(* NOT assume fsync on one client flushes another client's dirty cache").  *)
(* A tree is the sequence of the batches it contains, one per generation:  *)
(* generation g holds g - 1 batches.  A batch inserts one key.             *)
(***************************************************************************)
EXTENDS Integers, Sequences, FiniteSets

CONSTANTS
    Batch,      \* the batches callers write, each once
    Process,    \* processes that open the store
    ProcessOf,  \* the process of the handle that writes a batch
    Key,        \* record keys, each with a lock stripe of its own
    KeyOf,      \* the key a batch inserts
    Window,     \* staged generations beyond the durable one (64)
    Empty,      \* a root slot that has never been written
    Torn        \* a root slot whose checksum does not hold

ASSUME PipelineAssumption ==
    /\ ProcessOf \in [Batch -> Process]
    /\ KeyOf \in [Batch -> Key]
    /\ Window \in Nat \ {0}
    /\ IsFiniteSet(Batch)

Tree == Seq(Batch)

Snapshot == [publication : Nat, tree : Tree]

ASSUME SlotAssumption == Empty # Torn /\ Empty \notin Snapshot /\ Torn \notin Snapshot

VARIABLES
    slot,     \* slot[k]: the root in slot k as every process reads it
    onDisk,   \* onDisk[k]: the roots of slot k that a power loss may leave
    pages,    \* pages[b]: "none", "written", "durable" or "lost"
    working,  \* the speculative working state, or Torn
    dirty,    \* dirty[p]: the writes of p that no sync has begun to cover
    barrier,  \* barrier[p]: the durability barrier that the handles of p share
    opened,   \* processes with a writable handle
    batch,    \* batch[b]: program point of the batch and the tree it staged
    hurt      \* history: a root was torn, or lost beneath its successor (LostBeneath)

vars == <<slot, onDisk, pages, working, dirty, barrier, opened, batch, hurt>>

Slot == {0, 1}

Generation(tree) == Len(tree) + 1

WorkingState == [tree : Tree, durable : Nat, ready : SUBSET (0..(Window - 1)), failed : BOOLEAN]

\* Writes of one process: pages of batches, and roots by their publication.
Writes == [pages : SUBSET Batch, roots : SUBSET Nat]
NoWrites == [pages |-> {}, roots |-> {}]

\* DurabilityBarrier: the tickets not yet completed and, while a sync runs, its
\* leader, the tickets it captured and the writes it covers.
Barrier == [waiting : SUBSET Batch, leader : SUBSET Batch, tickets : SUBSET Batch,
            writes : Writes, failed : BOOLEAN]
NewBarrier == [waiting |-> {}, leader |-> {}, tickets |-> {}, writes |-> NoWrites,
               failed |-> FALSE]

Active == {"staged", "pageSync", "synced", "marked", "ready", "published", "rootSync"}

PipelineTypeOK ==
    /\ slot \in [Slot -> Snapshot \cup {Empty, Torn}]
    /\ onDisk \in [Slot -> SUBSET (Snapshot \cup {Empty, Torn})]
    /\ pages \in [Batch -> {"none", "written", "durable", "lost"}]
    /\ working \in WorkingState \cup {Torn}
    /\ dirty \in [Process -> Writes]
    /\ barrier \in [Process -> Barrier]
    /\ opened \subseteq Process
    /\ batch \in [Batch -> [pc : Active \cup {"idle", "acked", "unknown", "duplicate"},
                            tree : Tree]]
    /\ hurt \in BOOLEAN
--------------------------------------------------------------------------------
(* Roots and working state.                                                *)

\* decode: a checksum that holds, bounds, and the slot of the publication's parity.
Decodes(k, s) ==
    \/ s = Empty
    \/ /\ s \notin {Empty, Torn}
       /\ s.publication \in 1..Generation(s.tree) /\ s.publication % 2 = k

Written(slots) == {k \in Slot : slots[k] # Empty}

\* read_snapshot: the slot with the higher publication is the root.
NewerSlot(slots) ==
    IF slots[0] = Empty THEN 1
    ELSE IF slots[1] = Empty THEN 0
    ELSE IF slots[0].publication > slots[1].publication THEN 0 ELSE 1

Latest(slots) == slots[NewerSlot(slots)]

\* The cases in which read_snapshot does not answer Corrupt: two slots in step, or
\* the first root beside a slot never written.
Readable(slots) ==
    /\ \A k \in Slot : Decodes(k, slots[k])
    /\ \/ /\ Cardinality(Written(slots)) = 1
          /\ Latest(slots) = [publication |-> 1, tree |-> <<>>]
       \/ /\ Written(slots) = Slot
          /\ LET newer == Latest(slots)
                 older == slots[1 - NewerSlot(slots)]
             IN  /\ newer.publication = older.publication + 1
                 /\ Generation(newer.tree) >= Generation(older.tree)
                 /\ Generation(newer.tree) = Generation(older.tree) => newer.tree = older.tree

Published == Latest(slot)

Holds(tree, b) == \E i \in 1..Len(tree) : tree[i] = b
HasKey(tree, k) == \E i \in 1..Len(tree) : KeyOf[tree[i]] = k

\* Mutant: bits are numbered by generation.
BitUnbounded(g) == g

\* The completion bit of a generation.
Bit(g) == g % Window

\* write_working_snapshot: the working state of an opened store.
FreshWorking(tree) ==
    [tree |-> tree, durable |-> Generation(tree), ready |-> {}, failed |-> FALSE]

\* create_inner, synced before it returns.
PipelineInit ==
    /\ slot = [k \in Slot |-> IF k = 1 THEN [publication |-> 1, tree |-> <<>>] ELSE Empty]
    /\ onDisk = [k \in Slot |-> {slot[k]}]
    /\ pages = [b \in Batch |-> "none"]
    /\ working = FreshWorking(<<>>)
    /\ dirty = [p \in Process |-> NoWrites]
    /\ barrier = [p \in Process |-> NewBarrier]
    /\ opened \in {{p} : p \in Process}
    /\ batch = [b \in Batch |-> [pc |-> "idle", tree |-> <<>>]]
    /\ hurt = FALSE

Running == {b \in Batch : batch[b].pc \in Active}

\* The staged root is a local of the call and ends with it.
At(b, pc) == [pc |-> pc, tree |-> IF pc \in Active THEN batch[b].tree ELSE <<>>]

Goto(b, pc) == batch' = [batch EXCEPT ![b] = At(b, pc)]

--------------------------------------------------------------------------------
(* Opening the store.                                                      *)

\* Mutant: recovery does not take the writer fence.
OpenUnfenced(p) ==
    /\ Readable(slot)
    /\ working' = FreshWorking(Published.tree)
    /\ barrier' = [barrier EXCEPT ![p] = NewBarrier]
    /\ opened' = opened \cup {p}
    /\ UNCHANGED <<slot, onDisk, pages, dirty, batch, hurt>>

\* open_inner_with_snapshot: the exclusive writer fence, which every running batch
\* holds shared, then working state and barrier are reset to the published root.
\* validate_root has read the page of that root, written by its last batch.
Open(p) ==
    /\ Running = {} /\ Readable(slot)
    /\ LET tree == Published.tree
       IN  /\ tree # <<>> => pages[tree[Len(tree)]] # "lost"
           /\ working' = FreshWorking(tree)
    /\ barrier' = [barrier EXCEPT ![p] = NewBarrier]
    /\ opened' = opened \cup {p}
    /\ UNCHANGED <<slot, onDisk, pages, dirty, batch, hurt>>

--------------------------------------------------------------------------------
(* Staging, under the commit gate and the shared fence of the data file.   *)

\* The stripe of the key is free, and the working state admits another batch.
Admitted(b) ==
    /\ batch[b].pc = "idle" /\ ProcessOf[b] \in opened
    /\ \A c \in Running : KeyOf[c] # KeyOf[b]
    /\ working # Torn /\ ~ working.failed

\* Mutant: the completion window is one generation too wide.
HasWindowWide == Generation(working.tree) - working.durable <= Window

\* A full window answers Busy before anything is staged.
HasWindow == Generation(working.tree) - working.durable < Window

\* The pages are written, then the working root is installed over them.
Stage(b) ==
    LET next == Append(working.tree, b)
    IN  /\ Admitted(b) /\ HasWindow /\ ~ HasKey(working.tree, KeyOf[b])
        /\ working' = [working EXCEPT !.tree = next]
        /\ pages' = [pages EXCEPT ![b] = "written"]
        /\ dirty' = [dirty EXCEPT ![ProcessOf[b]].pages = @ \cup {b}]
        /\ batch' = [batch EXCEPT ![b] = [pc |-> "staged", tree |-> next]]
        /\ UNCHANGED <<slot, onDisk, barrier, opened, hurt>>

\* The write of the working root fails: it may have happened, in part or in full.
StageError(b) ==
    /\ Admitted(b) /\ HasWindow /\ ~ HasKey(working.tree, KeyOf[b])
    /\ working' \in {working, [working EXCEPT !.tree = Append(@, b)], Torn}
    /\ pages' = [pages EXCEPT ![b] = "written"]
    /\ dirty' = [dirty EXCEPT ![ProcessOf[b]].pages = @ \cup {b}]
    /\ Goto(b, "unknown")
    /\ UNCHANGED <<slot, onDisk, barrier, opened, hurt>>

\* prepare_batch finds the key.  It is reported only if the working root has been
\* published, or the published tree has the key too; else the caller gets Busy.
Duplicate(b) ==
    /\ Admitted(b) /\ HasWindow /\ HasKey(working.tree, KeyOf[b]) /\ Readable(slot)
    /\ \/ Generation(Published.tree) = Generation(working.tree)
       \/ HasKey(Published.tree, KeyOf[b])
    /\ Goto(b, "duplicate")
    /\ UNCHANGED <<slot, onDisk, pages, working, dirty, barrier, opened, hurt>>

--------------------------------------------------------------------------------
(* DurabilityBarrier::run, for the pages and later for the root.           *)

SyncOf(pc) == CASE pc = "staged" -> "pageSync" [] pc = "published" -> "rootSync"
AfterSync(pc) == CASE pc = "pageSync" -> "synced" [] pc = "rootSync" -> "acked"

\* A ticket is registered after the write it stands for.
RequestSync(b) ==
    /\ batch[b].pc \in {"staged", "published"}
    /\ barrier' = [barrier EXCEPT ![ProcessOf[b]].waiting = @ \cup {b}]
    /\ Goto(b, SyncOf(batch[b].pc))
    /\ UNCHANGED <<slot, onDisk, pages, working, dirty, opened, hurt>>

\* No sync runs: this caller leads one for every ticket registered so far.
StartSync(b) ==
    LET p == ProcessOf[b]
    IN  /\ b \in barrier[p].waiting /\ barrier[p].leader = {} /\ ~ barrier[p].failed
        /\ barrier' = [barrier EXCEPT ![p].leader = {b}, ![p].tickets = barrier[p].waiting,
                                      ![p].writes = dirty[p]]
        /\ dirty' = [dirty EXCEPT ![p] = NoWrites]
        /\ UNCHANGED <<slot, onDisk, pages, working, opened, batch, hurt>>

\* A root that publication n replaced in its slot.
Precedes(s, n) == s = Empty \/ (s # Torn /\ s.publication < n)

\* Mutant: the sync answers every ticket registered before it returned.
CoveredAll(p) == barrier[p].waiting

\* completed = through: the tickets captured before the sync began.
Covered(p) == barrier[p].tickets

\* file.sync_all succeeds: the writes it covered survive a power loss, and so no
\* root that one of them replaced comes back.
EndSync(b) ==
    LET p == ProcessOf[b]
        done == barrier[p].writes
    IN  /\ barrier[p].leader = {b}
        /\ pages' = [c \in Batch |-> IF c \in done.pages THEN "durable" ELSE pages[c]]
        /\ onDisk' = [k \in Slot |->
              {s \in onDisk[k] : \A n \in done.roots : n % 2 = k => ~ Precedes(s, n)}]
        /\ barrier' = [barrier EXCEPT ![p].waiting = @ \ Covered(p), ![p].leader = {},
                                      ![p].tickets = {}, ![p].writes = NoWrites]
        /\ Goto(b, AfterSync(batch[b].pc))
        /\ UNCHANGED <<slot, working, dirty, opened, hurt>>

\* It fails: nothing is known of the writes, no later sync will cover them, and the
\* barrier answers every caller of the process with the error until it is reset.
SyncError(b) ==
    LET p == ProcessOf[b]
    IN  /\ barrier[p].leader = {b}
        /\ barrier' = [barrier EXCEPT ![p].leader = {}, ![p].tickets = {},
                                      ![p].writes = NoWrites, ![p].failed = TRUE]
        /\ UNCHANGED <<slot, onDisk, pages, working, dirty, opened, batch, hurt>>

\* A waiter whose ticket another caller's sync completed.
SyncCompleted(b) ==
    LET p == ProcessOf[b]
    IN  /\ batch[b].pc \in {"pageSync", "rootSync"}
        /\ b \notin barrier[p].waiting /\ ~ barrier[p].failed
        /\ Goto(b, AfterSync(batch[b].pc))
        /\ UNCHANGED <<slot, onDisk, pages, working, dirty, barrier, opened, hurt>>

--------------------------------------------------------------------------------
(* Completion, publication and acknowledgement.                            *)

\* The generations whose bits follow the watermark without a hole.
Prefix(w) ==
    {g \in w.durable..Generation(w.tree) : \A h \in (w.durable + 1)..g : Bit(h) \in w.ready}

\* The watermark moves over them and their bits are cleared.
Advanced(w) ==
    LET reached == CHOOSE g \in Prefix(w) : \A h \in Prefix(w) : h <= g
    IN  [w EXCEPT !.durable = reached,
                  !.ready = @ \ {Bit(h) : h \in (w.durable + 1)..reached}]

ReadyPc(b, w) == IF w.durable >= Generation(batch[b].tree) THEN "ready" ELSE "marked"

\* complete_pipeline_data: the working state with the bit of this batch set.
Marked(b) ==
    LET g == Generation(batch[b].tree)
    IN  IF g > working.durable
        THEN Advanced([working EXCEPT !.ready = @ \cup {Bit(g)}]) ELSE working

MayMark(b) ==
    /\ batch[b].pc = "synced" /\ working # Torn /\ ~ working.failed
    /\ Generation(batch[b].tree) <= Generation(working.tree)

\* The first round under the gate.
MarkReady(b) ==
    /\ MayMark(b)
    /\ working' = Marked(b)
    /\ Goto(b, ReadyPc(b, Marked(b)))
    /\ UNCHANGED <<slot, onDisk, pages, dirty, barrier, opened, hurt>>

\* Later rounds: every earlier generation has become durable.
AwaitPrefix(b) ==
    /\ batch[b].pc = "marked" /\ working # Torn /\ ~ working.failed
    /\ working.durable >= Generation(batch[b].tree)
    /\ Goto(b, "ready")
    /\ UNCHANGED <<slot, onDisk, pages, working, dirty, barrier, opened, hurt>>

\* Mutant: the sequence goes on from the root the batch was staged over.
NextRootStaged(b) ==
    [publication |-> Generation(batch[b].tree),
     tree |-> IF Generation(Published.tree) < Generation(batch[b].tree)
              THEN batch[b].tree ELSE Published.tree]

\* The prefix of this batch, or the newer one that already contains it, under the
\* next publication.
NextRoot(b) ==
    [publication |-> Published.publication + 1,
     tree |-> IF Generation(Published.tree) < Generation(batch[b].tree)
              THEN batch[b].tree ELSE Published.tree]

\* Under the exclusive fence of the data file, which is released before the sync.
Publish(b) ==
    LET root == NextRoot(b)
        k == root.publication % 2
    IN  /\ batch[b].pc = "ready" /\ Readable(slot)
        /\ slot' = [slot EXCEPT ![k] = root]
        /\ onDisk' = [onDisk EXCEPT ![k] = @ \cup {root}]
        /\ dirty' = [dirty EXCEPT ![ProcessOf[b]].roots = @ \cup {root.publication}]
        /\ Goto(b, "published")
        /\ UNCHANGED <<pages, working, barrier, opened, hurt>>

\* Best effort: the failed flag stops further speculation.  It may not be set, and
\* its write may be torn.
FlagFailed(w) == working' \in {w, Torn} \cup {[u EXCEPT !.failed = TRUE] : u \in {w} \ {Torn}}

\* The write of the completion bit fails.
MarkError(b) ==
    /\ MayMark(b)
    /\ FlagFailed(Marked(b))
    /\ Goto(b, "unknown")
    /\ UNCHANGED <<slot, onDisk, pages, dirty, barrier, opened, hurt>>

\* The write of the root fails, done in full, in part or not at all.
PublishError(b) ==
    LET root == NextRoot(b)
        k == root.publication % 2
    IN  /\ batch[b].pc = "ready" /\ Readable(slot)
        /\ \E left \in {root, Torn, slot[k]} :
              /\ slot' = [slot EXCEPT ![k] = left]
              /\ onDisk' = [onDisk EXCEPT ![k] = @ \cup {left}]
              /\ hurt' = (hurt \/ left = Torn)
        /\ FlagFailed(working)
        /\ Goto(b, "unknown")
        /\ UNCHANGED <<pages, dirty, barrier, opened>>

\* A deadline passes, a lock or a read fails, the pipeline has failed, or the sync
\* did: CommitUnknown.
Fail(b) ==
    /\ \/ batch[b].pc \in {"synced", "marked", "ready"}
       \/ batch[b].pc \in {"pageSync", "rootSync"} /\ barrier[ProcessOf[b]].failed
    /\ FlagFailed(working)
    /\ Goto(b, "unknown")
    /\ UNCHANGED <<slot, onDisk, pages, dirty, barrier, opened, hurt>>

--------------------------------------------------------------------------------
(* Faults.                                                                 *)

\* Nobody is told how their batches ended.
Ended(procs) ==
    [b \in Batch |-> IF batch[b].pc \in Active /\ ProcessOf[b] \in procs
                     THEN At(b, "unknown") ELSE batch[b]]

\* A process dies.  What it wrote stays readable; nobody will sync it.
Kill(p) ==
    /\ p \in opened
    /\ batch' = Ended({p})
    /\ barrier' = [barrier EXCEPT ![p] = NewBarrier]
    /\ dirty' = [dirty EXCEPT ![p] = NoWrites]
    /\ opened' = opened \ {p}
    /\ UNCHANGED <<slot, onDisk, pages, working, hurt>>

\* Slot k after a power loss: one of its possible roots, or a torn write of one.
Survivors(k) == onDisk[k] \cup (IF Cardinality(onDisk[k]) > 1 THEN {Torn} ELSE {})

\* The root of slot k is on the disk and its predecessor, in the other slot and covered
\* by no sync, is not.  It does not matter whether the root of slot k itself has been
\* synced and acknowledged: its sync need not cover a predecessor that another process
\* wrote, and read_snapshot accepts consecutive publications only.
LostBeneath(k, left) ==
    /\ left[k] # Empty /\ Cardinality(onDisk[1 - k]) > 1
    /\ Precedes(left[1 - k], left[k].publication - 1)

\* The two ways in which a power loss can leave slots that no open accepts.
Excused(left) == \E k \in Slot : left[k] = Torn \/ LostBeneath(k, left)

\* Each slot keeps some version and each unsynced page is there or not.  The working
\* state is lost: nobody reads it before an Open has written it anew.
PowerLoss ==
    /\ \E left \in {f \in [Slot -> Survivors(0) \cup Survivors(1)] :
                       \A k \in Slot : f[k] \in Survivors(k)} :
          /\ slot' = left
          /\ onDisk' = [k \in Slot |-> {left[k]}]
          /\ hurt' = (hurt \/ (~ Readable(left) /\ Excused(left)))
    /\ \E lost \in SUBSET {b \in Batch : pages[b] = "written"} :
          pages' = [b \in Batch |-> IF b \in lost THEN "lost"
                                    ELSE IF pages[b] = "written" THEN "durable" ELSE pages[b]]
    /\ working' = Torn
    /\ batch' = Ended(Process)
    /\ barrier' = [p \in Process |-> NewBarrier]
    /\ dirty' = [p \in Process |-> NoWrites]
    /\ opened' = {}

Step(b) ==
    \/ Stage(b) \/ StageError(b) \/ Duplicate(b)
    \/ RequestSync(b) \/ StartSync(b) \/ EndSync(b) \/ SyncError(b) \/ SyncCompleted(b)
    \/ MarkReady(b) \/ MarkError(b) \/ AwaitPrefix(b)
    \/ Publish(b) \/ PublishError(b) \/ Fail(b)

PipelineNext ==
    \/ \E b \in Batch : Step(b)
    \/ \E p \in Process : Open(p) \/ Kill(p)
    \/ PowerLoss

PipelineSpec == PipelineInit /\ [][PipelineNext]_vars

--------------------------------------------------------------------------------
(* What the pipeline promises.                                             *)

\* "Return success only after that sync succeeds ... acknowledged data and old reader
\* snapshots remain intact" (docs/STORAGE_FORMAT.md): whatever processes die, syncs
\* fail and power losses happen, unless a slot holds a torn root, the newest root
\* contains every acknowledged batch, and every page it names is there.  That is the
\* root an open selects; it also speaks of a store that refuses to open because the two
\* roots are not in step (write_pipelined, DurabilityBarrier::run, read_snapshot).
AckedSurvives ==
    (\A k \in Slot : slot[k] # Torn) =>
        /\ \A b \in Batch : batch[b].pc = "acked" => Holds(Published.tree, b)
        /\ \A i \in 1..Len(Published.tree) : pages[Published.tree[i]] \in {"written", "durable"}

\* A store refuses to open only after a root was torn, or after a power loss that lost a
\* root no sync had covered and kept its successor (LostBeneath), also one that was
\* synced and acknowledged.  Otherwise the slots stay in step, however writers overtake
\* each other and whatever is discarded when the store is opened again (decode,
\* read_snapshot, and the publication sequence of write_pipelined).
NeverSelfCorrupt == Readable(slot) \/ hurt

IsPrefix(older, newer) ==
    Len(older) <= Len(newer) /\ \A i \in 1..Len(older) : older[i] = newer[i]

\* "Do not roll the reader root back on out-of-order completion": what a reader can
\* capture only grows, except by a power loss, which no batch it loses was
\* acknowledged for (Publish under the exclusive data fence, Open).
NoRollback ==
    [][\/ Readable(slot) /\ Readable(slot)' => IsPrefix(Published.tree, Published'.tree)
       \/ PowerLoss]_vars

--------------------------------------------------------------------------------
(* Why: the state of each batch, of the working root and of the disk.      *)

Roots == (onDisk[0] \cup onDisk[1] \cup {slot[0], slot[1]}) \ {Empty, Torn}

\* The positions of a tree whose batches have published their root, or never will.
Spent(tree) ==
    {i \in 1..Len(tree) : batch[tree[i]].pc \in {"published", "rootSync", "acked", "unknown"}}

\* Roots are durable prefixes of one another, in the order of their publications, and
\* every publication after the first has used up a batch of its tree.
RootInv ==
    /\ \A k \in Slot : IsFiniteSet(onDisk[k]) /\ (slot[k] = Torn \/ slot[k] \in onDisk[k])
    /\ Empty \notin onDisk[1]
    /\ \A k \in Slot : \A s \in onDisk[k] \ {Empty, Torn} :
          s.publication >= 1 /\ s.publication % 2 = k
    /\ \A s \in Roots :
          /\ \A i \in 1..Len(s.tree) : pages[s.tree[i]] = "durable"
          /\ s.publication <= Cardinality(Spent(s.tree)) + 1
          /\ s.publication = 1 => s.tree = <<>>
    /\ \A s, u \in Roots : s.publication <= u.publication => IsPrefix(s.tree, u.tree)
    /\ Readable(slot) => \A s \in Roots : s.publication <= Published.publication

Unsynced(p) == [pages |-> dirty[p].pages \cup barrier[p].writes.pages,
                roots |-> dirty[p].roots \cup barrier[p].writes.roots]

\* The barrier of a process: whose tickets it has, and that no root it is about to sync
\* has gone from its slot.
TicketInv(p) ==
    LET a == barrier[p]
    IN  /\ a.leader \subseteq a.tickets /\ a.tickets \subseteq a.waiting
        /\ a.leader = {} => a.tickets = {} /\ a.writes = NoWrites
        /\ a.failed => a.leader = {}
        /\ \A b \in a.waiting : /\ ProcessOf[b] = p
                                /\ batch[b].pc \in {"pageSync", "rootSync"} \/ a.failed
        /\ \A n \in Unsynced(p).roots : ~ Precedes(slot[n % 2], n)

BarrierInv == \A p \in Process : TicketInv(p)

\* Once these roots are synced, every root that can be left in some slot has b.
Owed(b, disk, roots) ==
    \E k \in Slot : \A s \in disk[k] \ {Torn} :
        \/ \E n \in roots : n % 2 = k /\ Precedes(s, n)
        \/ s # Empty /\ Holds(s.tree, b)

Comparable(t, u) == IsPrefix(t, u) \/ IsPrefix(u, t)

\* The tree of a running batch ends with it and agrees with every other tree.
StagedInv(b) ==
    LET tree == batch[b].tree
    IN  batch[b].pc \in Active =>
            /\ ProcessOf[b] \in opened /\ tree # <<>> /\ tree[Len(tree)] = b
            /\ working # Torn => IsPrefix(tree, working.tree)
            /\ \A s \in Roots : Comparable(s.tree, tree)
            /\ \A c \in Running : Comparable(batch[c].tree, tree)

\* The page of a batch is durable, or a sync that will answer the batch covers it.
PageInv(b) ==
    LET pc == batch[b].pc
        p == ProcessOf[b]
    IN  /\ pc \in {"staged", "pageSync"} /\ ~ barrier[p].failed =>
              pages[b] = "durable" \/ b \in Unsynced(p).pages
        /\ pc = "pageSync" /\ b \in barrier[p].tickets =>
              pages[b] = "durable" \/ b \in barrier[p].writes.pages
        /\ pc = "pageSync" /\ b \notin barrier[p].waiting => pages[b] = "durable"
        /\ pc \in {"synced", "marked", "ready", "published", "rootSync", "acked"} =>
              pages[b] = "durable"

\* A batch that may publish has its whole prefix on the disk.
ReadyInv(b) ==
    batch[b].pc = "ready" =>
        /\ \A i \in 1..Len(batch[b].tree) : pages[batch[b].tree[i]] = "durable"
        /\ working # Torn => Generation(batch[b].tree) <= working.durable

\* The root of a batch cannot be lost, or a sync that will answer the batch covers it.
OwedInv(b) ==
    LET pc == batch[b].pc
        p == ProcessOf[b]
    IN  /\ pc \in {"published", "rootSync"} /\ ~ barrier[p].failed =>
              Owed(b, onDisk, Unsynced(p).roots)
        /\ pc = "rootSync" /\ b \in barrier[p].tickets =>
              Owed(b, onDisk, barrier[p].writes.roots)
        /\ pc = "rootSync" /\ b \notin barrier[p].waiting => Owed(b, onDisk, {})
        /\ pc = "acked" => Owed(b, onDisk, {})

BatchInv == \A b \in Batch : StagedInv(b) /\ PageInv(b) /\ ReadyInv(b) /\ OwedInv(b)

\* Working state of an opened store: completion bits are those of synced batches
\* beyond the watermark, and what is published lies below it.
WorkingInv ==
    opened # {} /\ working # Torn =>
        /\ working.durable \in 1..Generation(working.tree)
        /\ Generation(working.tree) - working.durable <= Window
        /\ \A i \in 1..(working.durable - 1) : pages[working.tree[i]] = "durable"
        /\ \A r \in working.ready : \E g \in (working.durable + 1)..Generation(working.tree) :
              r = Bit(g) /\ pages[working.tree[g - 1]] = "durable"
        /\ \A s \in Roots : /\ IsPrefix(s.tree, working.tree)
                            /\ Generation(s.tree) <= working.durable

\* The inductive invariant behind the promises (write_pipelined, complete_pipeline_data,
\* DurabilityBarrier::run, open_inner_with_snapshot).
PipelineInv == RootInv /\ NeverSelfCorrupt /\ BarrierInv /\ BatchInv /\ WorkingInv
================================================================================
