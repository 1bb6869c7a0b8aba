-------------------------- MODULE IsamPipelineProofs ---------------------------
(***************************************************************************)
(* Proofs about IsamPipeline, for every number of batches, processes and   *)
(* keys and every window: acknowledged batches survive, the slots stay in  *)
(* step, and readers never go back.                                        *)
(***************************************************************************)
EXTENDS IsamPipeline, FiniteSetTheorems, WellFoundedInduction, TLAPS

--------------------------------------------------------------------------------
(* Prefixes, bits and counting.                                            *)

\* Prefixes are a partial order.
LEMMA PrefixOrder ==
    ASSUME NEW t \in Tree, NEW u \in Tree, NEW v \in Tree
    PROVE  /\ IsPrefix(t, t)
           /\ IsPrefix(t, u) /\ IsPrefix(u, v) => IsPrefix(t, v)
           /\ IsPrefix(t, u) /\ IsPrefix(u, t) => t = u
           /\ IsPrefix(<<>>, t)
BY DEF IsPrefix, Tree

\* A prefix is not longer, and is all of the tree if it is as long.
LEMMA PrefixEqual ==
    ASSUME NEW t \in Tree, NEW u \in Tree, IsPrefix(t, u)
    PROVE  /\ Len(t) <= Len(u) /\ Generation(u) >= Generation(t)
           /\ Generation(t) = Generation(u) => t = u
BY DEF IsPrefix, Tree, Generation

\* Prefixes of one tree are comparable.
LEMMA PrefixTotal ==
    ASSUME NEW t \in Tree, NEW u \in Tree, NEW v \in Tree, IsPrefix(t, v), IsPrefix(u, v)
    PROVE  Comparable(t, u)
BY DEF IsPrefix, Tree, Comparable

\* Of two comparable trees the shorter is the prefix.
LEMMA ComparableShorter ==
    ASSUME NEW t \in Tree, NEW u \in Tree, Comparable(t, u), Len(t) <= Len(u)
    PROVE  IsPrefix(t, u)
BY DEF IsPrefix, Tree, Comparable

\* A longer tree holds what its prefixes hold.
LEMMA PrefixHolds ==
    ASSUME NEW t \in Tree, NEW u \in Tree, IsPrefix(t, u), NEW b, Holds(t, b)
    PROVE  Holds(u, b)
BY DEF IsPrefix, Tree, Holds

\* A tree and the one with another batch.
LEMMA AppendTree ==
    ASSUME NEW t \in Tree, NEW b \in Batch
    PROVE  /\ Append(t, b) \in Tree /\ Len(Append(t, b)) = Len(t) + 1
           /\ Append(t, b) # <<>> /\ Append(t, b)[Len(t) + 1] = b
           /\ \A i \in 1..Len(t) : Append(t, b)[i] = t[i]
           /\ IsPrefix(t, Append(t, b))
BY DEF IsPrefix, Tree

\* Two generations within one window have different bits.
LEMMA BitInjective ==
    ASSUME NEW g \in Nat, NEW h \in Nat, g - h < Window, h - g < Window, Bit(g) = Bit(h)
    PROVE  g = h
<1>1. Window \in Nat /\ Window > 0
  BY PipelineAssumption
<1>2. /\ g = Window * (g \div Window) + (g % Window)
      /\ h = Window * (h \div Window) + (h % Window)
      /\ g \div Window \in Int /\ h \div Window \in Int
  BY <1>1
<1> DEFINE x == g \div Window
           y == h \div Window
<1>3. g - h = Window * (x - y)
  BY <1>1, <1>2 DEF Bit
<1>4. x = y
  <2>1. ASSUME x - y >= 1 PROVE FALSE
    BY <1>1, <1>2, <1>3, <2>1
  <2>2. ASSUME y - x >= 1 PROVE FALSE
    BY <1>1, <1>2, <1>3, <2>2
  <2>. QED
    BY <1>2, <2>1, <2>2
<1>. QED
  BY <1>3, <1>4, <1>1

\* A bit lies within the window.
LEMMA BitType == \A g \in Nat : Bit(g) \in 0..(Window - 1)
BY PipelineAssumption DEF Bit

\* A non-empty set of naturals below a bound has a greatest element.
LEMMA Greatest ==
    ASSUME NEW S \in SUBSET Nat, S # {}, NEW n \in Nat, \A g \in S : g <= n
    PROVE  \E g \in S : \A h \in S : h <= g
<1> DEFINE T == {m \in Nat : n - m \in S}
<1>1. T \subseteq Nat /\ T # {}
  <2>1. PICK g \in S : TRUE
    OBVIOUS
  <2>2. n - g \in T
    BY <2>1
  <2>. QED
    BY <2>2
<1>2. PICK m \in T : \A y \in T : ~ (<<y, m>> \in OpToRel(<, Nat))
  BY <1>1, NatLessThanWellFounded, WFMin
<1>3. ASSUME NEW y \in T PROVE m <= y
  <2>1. y \in Nat /\ m \in Nat
    OBVIOUS
  <2>2. y < m => <<y, m>> \in OpToRel(<, Nat)
    BY <2>1 DEF OpToRel
  <2>3. ~ (<<y, m>> \in OpToRel(<, Nat))
    BY <1>2, Zenon
  <2>4. ~ (y < m)
    BY <2>2, <2>3, Zenon
  <2>. QED
    BY <2>1, <2>4
<1>4. ASSUME NEW h \in S PROVE h <= n - m
  <2>1. h \in Nat /\ h <= n
    OBVIOUS
  <2>2. n - h \in Nat /\ n - (n - h) = h
    BY <2>1
  <2>3. n - h \in T
    BY <2>2
  <2>4. m <= n - h /\ m \in Nat
    BY <1>3, <2>3
  <2>. QED
    BY <2>1, <2>4
<1>5. n - m \in S
  OBVIOUS
<1>. QED
  BY <1>4, <1>5

\* Generations of trees.
LEMMA GenerationFacts ==
    \A t \in Tree : Len(t) \in Nat /\ Generation(t) \in Nat /\ Generation(t) = Len(t) + 1
BY DEF Tree, Generation

\* The watermark moves over a run of set bits, which are cleared.
LEMMA AdvancedFacts ==
    ASSUME NEW w \in WorkingState, w.durable \in 1..Generation(w.tree)
    PROVE  /\ Advanced(w) \in WorkingState
           /\ Advanced(w).tree = w.tree /\ Advanced(w).failed = w.failed
           /\ Advanced(w).durable \in w.durable..Generation(w.tree)
           /\ \A h \in (w.durable + 1)..Advanced(w).durable : Bit(h) \in w.ready
           /\ \A r \in Advanced(w).ready :
                 /\ r \in w.ready
                 /\ \A h \in (w.durable + 1)..Advanced(w).durable : r # Bit(h)
<1>1. w.tree \in Tree /\ w.durable \in Nat /\ Generation(w.tree) \in Nat
  BY GenerationFacts DEF WorkingState
<1>2. Prefix(w) \subseteq Nat /\ \A g \in Prefix(w) : g <= Generation(w.tree)
  BY <1>1 DEF Prefix
<1>3. w.durable \in Prefix(w)
  BY <1>1 DEF Prefix
<1>4. \E g \in Prefix(w) : \A h \in Prefix(w) : h <= g
  BY <1>1, <1>2, <1>3, Greatest
<1> DEFINE reached == CHOOSE g \in Prefix(w) : \A h \in Prefix(w) : h <= g
           clear == {Bit(h) : h \in (w.durable + 1)..reached}
<1>5. reached \in Prefix(w)
  BY <1>4
<1>6. Advanced(w) = [w EXCEPT !.durable = reached, !.ready = @ \ clear]
  BY DEF Advanced
<1>7. \A r : r \in clear <=> \E h \in (w.durable + 1)..reached : r = Bit(h)
  OBVIOUS
<1> HIDE DEF reached, clear
<1>8. /\ reached \in w.durable..Generation(w.tree)
      /\ \A h \in (w.durable + 1)..reached : Bit(h) \in w.ready
  BY <1>5 DEF Prefix
<1>9. Advanced(w) = [tree |-> w.tree, durable |-> reached, ready |-> w.ready \ clear,
                     failed |-> w.failed]
  <2> DEFINE u == [w EXCEPT !.durable = reached]
  <2>1. u = [tree |-> w.tree, durable |-> reached, ready |-> w.ready, failed |-> w.failed]
    BY DEF WorkingState
  <2>2. Advanced(w) = [u EXCEPT !.ready = w.ready \ clear]
    BY <1>6
  <2> HIDE DEF u
  <2>. QED
    BY <2>1, <2>2
<1>10. /\ Advanced(w).tree = w.tree /\ Advanced(w).failed = w.failed
       /\ Advanced(w).durable = reached /\ Advanced(w).ready = w.ready \ clear
       /\ Advanced(w) \in WorkingState
  BY <1>1, <1>8, <1>9 DEF WorkingState
<1>. QED
  BY <1>7, <1>8, <1>10

\* Setting a bit and moving the watermark.
LEMMA MarkedFacts ==
    ASSUME NEW b \in Batch, working \in WorkingState, batch[b].tree \in Tree,
           working.durable \in 1..Generation(working.tree)
    PROVE  /\ Marked(b) \in WorkingState
           /\ Marked(b).tree = working.tree /\ Marked(b).failed = working.failed
           /\ Marked(b).durable \in working.durable..Generation(working.tree)
           /\ \A h \in (working.durable + 1)..Marked(b).durable :
                 Bit(h) \in working.ready
                    \/ (/\ Bit(h) = Bit(Generation(batch[b].tree))
                        /\ Generation(batch[b].tree) > working.durable)
           /\ \A r \in Marked(b).ready :
                 /\ r \in working.ready
                    \/ (/\ r = Bit(Generation(batch[b].tree))
                        /\ Generation(batch[b].tree) > working.durable)
                 /\ \A h \in (working.durable + 1)..Marked(b).durable : r # Bit(h)
<1> DEFINE g == Generation(batch[b].tree)
<1>0. g \in Nat /\ working.durable \in Nat /\ Generation(working.tree) \in Nat
  BY GenerationFacts DEF WorkingState
<1>1. CASE g > working.durable
  <2> DEFINE w == [working EXCEPT !.ready = @ \cup {Bit(g)}]
  <2>1. /\ w \in WorkingState /\ w.tree = working.tree /\ w.durable = working.durable
        /\ w.failed = working.failed /\ w.ready = working.ready \cup {Bit(g)}
    BY <1>0, BitType DEF WorkingState
  <2>2. Marked(b) = Advanced(w)
    BY <1>1 DEF Marked
  <2> HIDE DEF w
  <2>3. /\ Advanced(w) \in WorkingState
        /\ Advanced(w).tree = w.tree /\ Advanced(w).failed = w.failed
        /\ Advanced(w).durable \in w.durable..Generation(w.tree)
        /\ \A h \in (w.durable + 1)..Advanced(w).durable : Bit(h) \in w.ready
        /\ \A r \in Advanced(w).ready :
                 /\ r \in w.ready
                 /\ \A h \in (w.durable + 1)..Advanced(w).durable : r # Bit(h)
    BY <2>1, AdvancedFacts
  <2>. QED
    BY <1>1, <2>1, <2>2, <2>3
<1>2. CASE ~ (g > working.durable)
  <2>1. Marked(b) = working
    BY <1>2 DEF Marked
  <2>. QED
    BY <1>0, <2>1
<1>. QED
  BY <1>1, <1>2

--------------------------------------------------------------------------------
(* The two root slots.                                                     *)

SlotValues == Snapshot \cup {Empty, Torn}

\* What read_snapshot accepts: the newer root of a readable pair, and the older one.
LEMMA ReadableFacts ==
    ASSUME NEW f \in [Slot -> SlotValues], Readable(f)
    PROVE  /\ NewerSlot(f) \in Slot /\ 1 - NewerSlot(f) \in Slot
           /\ Latest(f) = f[NewerSlot(f)] /\ Latest(f) \in Snapshot
           /\ Latest(f).publication \in 1..Generation(Latest(f).tree)
           /\ Latest(f).publication % 2 = NewerSlot(f)
           /\ \A k \in Slot : f[k] # Torn
           /\ \A k \in Slot : f[k] # Empty => f[k].publication <= Latest(f).publication
           /\ \/ f[0] = Empty /\ f[1] = [publication |-> 1, tree |-> <<>>]
              \/ \A k \in Slot :
                    f[k] \in Snapshot /\ f[k].publication >= Latest(f).publication - 1
<1>1. \A k \in Slot : f[k] # Torn /\ (f[k] = Empty \/ f[k] \in Snapshot)
  BY SlotAssumption DEF Readable, Decodes, SlotValues
<1>2. ~ (f[0] = Empty /\ f[1] = Empty)
  <2>1. SUFFICES ASSUME f[0] = Empty, f[1] = Empty PROVE FALSE
    OBVIOUS
  <2>2. Written(f) = {}
    BY <2>1 DEF Written, Slot
  <2>3. Slot # {} /\ Cardinality({}) = 0
    BY FS_EmptySet DEF Slot
  <2>. QED
    BY <2>2, <2>3 DEF Readable
<1>3. \A s \in Snapshot : s # Empty /\ s # Torn /\ s.publication \in Nat /\ s.tree \in Tree
  BY SlotAssumption DEF Snapshot
<1>4. CASE f[0] = Empty
  <2>1. NewerSlot(f) = 1 /\ Latest(f) = f[1] /\ f[1] \in Snapshot
    BY <1>1, <1>2, <1>4 DEF NewerSlot, Latest, Slot
  <2>2. Written(f) # Slot
    BY <1>4 DEF Written, Slot
  <2>3. f[1] = [publication |-> 1, tree |-> <<>>]
    BY <2>1, <2>2 DEF Readable
  <2>4. Decodes(1, f[1])
    BY DEF Readable, Slot
  <2>. QED
    BY <1>1, <1>3, <1>4, <2>1, <2>3, <2>4 DEF Slot, Decodes
<1>5. CASE f[1] = Empty
  <2>1. NewerSlot(f) = 0 /\ Latest(f) = f[0] /\ f[0] \in Snapshot
    BY <1>1, <1>2, <1>5 DEF NewerSlot, Latest, Slot
  <2>2. Written(f) # Slot
    BY <1>5 DEF Written, Slot
  <2>3. f[0] = [publication |-> 1, tree |-> <<>>]
    BY <2>1, <2>2 DEF Readable
  <2>4. Decodes(0, f[0])
    BY DEF Readable, Slot
  <2>. QED
    BY <1>3, <2>1, <2>3, <2>4 DEF Decodes
<1>6. CASE f[0] # Empty /\ f[1] # Empty
  <2>1. f[0] \in Snapshot /\ f[1] \in Snapshot
    BY <1>1, <1>6 DEF Slot
  <2>2. /\ f[0].publication \in 1..Generation(f[0].tree) /\ f[0].publication % 2 = 0
        /\ f[1].publication \in 1..Generation(f[1].tree) /\ f[1].publication % 2 = 1
    BY <1>6 DEF Readable, Decodes, Slot
  <2>3. Written(f) = Slot
    BY <1>6 DEF Written, Slot
  <2>4. Cardinality(Slot) = 2
    <3>1. Slot = {0} \cup {1} /\ IsFiniteSet({0}) /\ Cardinality({0}) = 1
      BY FS_Singleton DEF Slot
    <3>. QED
      BY <3>1, FS_AddElement
  <2>5. Latest(f).publication = f[1 - NewerSlot(f)].publication + 1
    BY <2>3, <2>4 DEF Readable
  <2>6. CASE f[0].publication > f[1].publication
    <3>1. NewerSlot(f) = 0 /\ Latest(f) = f[0] /\ 1 - 0 = 1
      BY <1>6, <2>6 DEF NewerSlot, Latest
    <3>2. f[0].publication = f[1].publication + 1
      BY <2>5, <3>1
    <3>3. \A k \in Slot : /\ f[k] \in Snapshot /\ f[k] # Torn
                          /\ f[k].publication <= f[0].publication
                          /\ f[k].publication >= f[0].publication - 1
      BY <1>3, <2>1, <3>2 DEF Slot
    <3>. QED
      BY <2>1, <2>2, <3>1, <3>3 DEF Slot
  <2>7. CASE ~ (f[0].publication > f[1].publication)
    <3>1. NewerSlot(f) = 1 /\ Latest(f) = f[1] /\ 1 - 1 = 0
      BY <1>6, <2>7 DEF NewerSlot, Latest
    <3>2. f[1].publication = f[0].publication + 1
      BY <2>5, <3>1
    <3>3. \A k \in Slot : /\ f[k] \in Snapshot /\ f[k] # Torn
                          /\ f[k].publication <= f[1].publication
                          /\ f[k].publication >= f[1].publication - 1
      BY <1>3, <2>1, <3>2 DEF Slot
    <3>. QED
      BY <2>1, <2>2, <3>1, <3>3 DEF Slot
  <2>. QED
    BY <2>6, <2>7
<1>. QED
  BY <1>4, <1>5, <1>6

\* The first root beside a slot never written is readable.
LEMMA ReadableFirst ==
    ASSUME NEW f, f[0] = Empty, f[1] = [publication |-> 1, tree |-> <<>>]
    PROVE  Readable(f) /\ Latest(f) = f[1]
<1>1. f[1] \in Snapshot
  BY DEF Snapshot, Tree
<1>2. f[1] # Empty /\ f[1] # Torn
  BY <1>1, SlotAssumption
<1>3. Written(f) = {1} /\ Cardinality({1}) = 1
  BY <1>2, FS_Singleton DEF Written, Slot
<1>4. Latest(f) = f[1]
  BY DEF Latest, NewerSlot
<1>5. Decodes(0, f[0]) /\ Decodes(1, f[1])
  BY <1>2 DEF Decodes, Generation
<1>. QED
  BY <1>3, <1>4, <1>5 DEF Readable, Slot

\* Two roots in step are readable.
LEMMA ReadablePair ==
    ASSUME NEW f, NEW k \in Slot, f[0] \in Snapshot, f[1] \in Snapshot,
           \A j \in Slot : /\ f[j].publication \in 1..Generation(f[j].tree)
                            /\ f[j].publication % 2 = j,
           f[k].publication = f[1 - k].publication + 1, IsPrefix(f[1 - k].tree, f[k].tree)
    PROVE  Readable(f) /\ Latest(f) = f[k]
<1>1. f[0] # Empty /\ f[1] # Empty /\ f[0] # Torn /\ f[1] # Torn
  BY SlotAssumption
<1>2. /\ f[0].publication \in Nat /\ f[1].publication \in Nat
      /\ f[0].tree \in Tree /\ f[1].tree \in Tree
  BY DEF Snapshot
<1>3. Written(f) = Slot
  BY <1>1 DEF Written, Slot
<1>4. NewerSlot(f) = k
  BY <1>1, <1>2 DEF NewerSlot, Slot
<1>5. \A j \in Slot : Decodes(j, f[j])
  BY <1>1 DEF Decodes, Slot
<1>6. /\ Generation(f[k].tree) >= Generation(f[1 - k].tree)
      /\ Generation(f[k].tree) = Generation(f[1 - k].tree) => f[k].tree = f[1 - k].tree
  <2>1. f[k].tree \in Tree /\ f[1 - k].tree \in Tree
    BY <1>2 DEF Slot
  <2>. QED
    BY <2>1, PrefixEqual
<1>7. Latest(f) = f[k]
  BY <1>4 DEF Latest
<1>8. LET newer == Latest(f)
          older == f[1 - NewerSlot(f)]
      IN  /\ newer.publication = older.publication + 1
          /\ Generation(newer.tree) >= Generation(older.tree)
          /\ Generation(newer.tree) = Generation(older.tree) => newer.tree = older.tree
  BY <1>4, <1>6, <1>7, Zenon
<1>. QED
  BY <1>3, <1>5, <1>7, <1>8, Zenon DEF Readable

--------------------------------------------------------------------------------
(* Consequences of the types.                                              *)

SpentPc == {"published", "rootSync", "acked", "unknown"}

\* The roots are snapshots.
LEMMA RootsTyped ==
    ASSUME PipelineTypeOK
    PROVE  /\ slot \in [Slot -> SlotValues]
           /\ \A s \in Roots : s \in Snapshot /\ s.publication \in Nat /\ s.tree \in Tree
           /\ \A k \in Slot : \A s \in onDisk[k] \ {Empty, Torn} : s \in Roots
           /\ \A k \in Slot : slot[k] \notin {Empty, Torn} => slot[k] \in Roots
BY DEF PipelineTypeOK, Roots, Snapshot, Slot, SlotValues

\* Batches and their trees.
LEMMA BatchTyped ==
    ASSUME PipelineTypeOK, NEW c \in Batch
    PROVE  /\ batch[c].tree \in Tree /\ Len(batch[c].tree) \in Nat
           /\ Generation(batch[c].tree) \in Nat
           /\ Generation(batch[c].tree) = Len(batch[c].tree) + 1
           /\ ProcessOf[c] \in Process
BY PipelineAssumption DEF PipelineTypeOK, Tree, Generation

\* The effect of Goto.
LEMMA GotoFacts ==
    ASSUME PipelineTypeOK, NEW b \in Batch,
           NEW pc \in Active \cup {"idle", "acked", "unknown", "duplicate"}, Goto(b, pc)
    PROVE  /\ batch' \in [Batch -> [pc : Active \cup {"idle", "acked", "unknown", "duplicate"},
                                     tree : Tree]]
           /\ batch'[b].pc = pc /\ (pc \in Active => batch'[b].tree = batch[b].tree)
           /\ \A c \in Batch \ {b} : batch'[c] = batch[c]
<1>1. <<>> \in Tree
  BY DEF Tree
<1>2. batch[b].tree \in Tree
  BY BatchTyped
<1>3. /\ At(b, pc) \in [pc : Active \cup {"idle", "acked", "unknown", "duplicate"}, tree : Tree]
      /\ At(b, pc).pc = pc /\ (pc \in Active => At(b, pc).tree = batch[b].tree)
  BY <1>1, <1>2 DEF At
<1>. QED
  BY <1>3 DEF Goto, PipelineTypeOK

\* The batches that a process leaves behind.
LEMMA EndedFacts ==
    ASSUME PipelineTypeOK, NEW procs \in SUBSET Process, batch' = Ended(procs)
    PROVE  /\ batch' \in [Batch -> [pc : Active \cup {"idle", "acked", "unknown", "duplicate"},
                                     tree : Tree]]
           /\ \A c \in Batch : IF batch[c].pc \in Active /\ ProcessOf[c] \in procs
                                THEN batch'[c].pc = "unknown" ELSE batch'[c] = batch[c]
<1>1. <<>> \in Tree /\ "unknown" \notin Active
  BY DEF Tree, Active
<1>2. \A c \in Batch : At(c, "unknown") = [pc |-> "unknown", tree |-> <<>>]
  BY <1>1 DEF At
<1>. QED
  BY <1>1, <1>2 DEF Ended, PipelineTypeOK

\* The effect of FlagFailed.
LEMMA FlagFacts ==
    ASSUME NEW w \in WorkingState \cup {Torn}, FlagFailed(w)
    PROVE  /\ working' \in WorkingState \cup {Torn}
           /\ working' # Torn => /\ w # Torn /\ working'.tree = w.tree
                                 /\ working'.durable = w.durable /\ working'.ready = w.ready
<1>1. CASE working' \in {w, Torn}
  BY <1>1
<1>2. CASE working' \in {[u EXCEPT !.failed = TRUE] : u \in {w} \ {Torn}}
  <2>1. w # Torn /\ w \in WorkingState /\ working' = [w EXCEPT !.failed = TRUE]
    BY <1>2
  <2>. QED
    BY <2>1 DEF WorkingState
<1>. QED
  BY <1>1, <1>2 DEF FlagFailed

\* Positions that are spent stay so, and there is at most one for every batch.
LEMMA SpentGrows ==
    ASSUME NEW t \in Tree, \A c \in Batch : batch[c].pc \in SpentPc => batch'[c].pc \in SpentPc
    PROVE  /\ IsFiniteSet(Spent(t)) /\ IsFiniteSet(Spent(t)')
           /\ Cardinality(Spent(t)) \in Nat /\ Cardinality(Spent(t)') \in Nat
           /\ Spent(t) \subseteq Spent(t)'
           /\ Cardinality(Spent(t)) <= Cardinality(Spent(t)')
           /\ Cardinality(Spent(t)') <= Len(t)
<1>1. Len(t) \in Nat /\ \A i \in 1..Len(t) : t[i] \in Batch
  BY DEF Tree
<1>2. Spent(t) \subseteq Spent(t)' /\ Spent(t)' \subseteq 1..Len(t)
  BY <1>1 DEF Spent, SpentPc
<1>3. IsFiniteSet(1..Len(t)) /\ Cardinality(1..Len(t)) = Len(t)
  BY <1>1, FS_Interval
<1>4. /\ IsFiniteSet(Spent(t)') /\ Cardinality(Spent(t)') <= Len(t)
  BY <1>2, <1>3, FS_Subset
<1>5. IsFiniteSet(Spent(t)) /\ Cardinality(Spent(t)) <= Cardinality(Spent(t)')
  BY <1>2, <1>4, FS_Subset
<1>. QED
  BY <1>2, <1>4, <1>5, FS_CardinalityType

--------------------------------------------------------------------------------
(* What a step keeps when it takes nothing away.                           *)

\* Roots that remain keep their order.
LEMMA RootKeep ==
    ASSUME PipelineTypeOK, PipelineTypeOK', RootInv,
           \A k \in Slot : onDisk'[k] \subseteq onDisk[k] \cup {Torn},
           \A k \in Slot : slot'[k] = Torn \/ slot'[k] \in onDisk'[k],
           \A s \in Roots : \A i \in 1..Len(s.tree) : pages'[s.tree[i]] = "durable",
           \A c \in Batch : batch[c].pc \in SpentPc => batch'[c].pc \in SpentPc,
           Readable(slot)' => \A s \in Roots' : s.publication <= Published'.publication
    PROVE  RootInv' /\ Roots' \subseteq Roots
<1>1. Roots' \subseteq Roots
  BY DEF Roots, Slot
<1>2. \A k \in Slot : IsFiniteSet(onDisk'[k])
  <2>1. SUFFICES ASSUME NEW k \in Slot PROVE IsFiniteSet(onDisk'[k])
    OBVIOUS
  <2>2. IsFiniteSet(onDisk[k] \cup {Torn})
    BY FS_AddElement DEF RootInv
  <2>. QED
    BY <2>2, FS_Subset
<1>3. Empty \notin onDisk'[1]
  BY SlotAssumption DEF RootInv, Slot
<1>4. \A k \in Slot : \A s \in onDisk'[k] \ {Empty, Torn} :
          s.publication >= 1 /\ s.publication % 2 = k
  BY DEF RootInv
<1>5. ASSUME NEW s \in Roots' PROVE s.publication <= Cardinality(Spent(s.tree)') + 1
  <2>1. s \in Roots /\ s.publication \in Nat /\ s.tree \in Tree
    BY <1>1, RootsTyped
  <2>2. s.publication <= Cardinality(Spent(s.tree)) + 1
    BY <2>1 DEF RootInv
  <2>3. /\ Cardinality(Spent(s.tree)) \in Nat /\ Cardinality(Spent(s.tree)') \in Nat
        /\ Cardinality(Spent(s.tree)) <= Cardinality(Spent(s.tree)')
    BY <2>1, SpentGrows
  <2>. QED
    BY <2>1, <2>2, <2>3
<1>6. \A s \in Roots' : /\ \A i \in 1..Len(s.tree) : pages'[s.tree[i]] = "durable"
                         /\ s.publication = 1 => s.tree = <<>>
  BY <1>1 DEF RootInv
<1>7. \A s, u \in Roots' : s.publication <= u.publication => IsPrefix(s.tree, u.tree)
  BY <1>1 DEF RootInv
<1>. QED
  BY <1>1, <1>2, <1>3, <1>4, <1>5, <1>6, <1>7 DEF RootInv

\* The same, where the slots and what may be left in them do not change.
LEMMA RootSame ==
    ASSUME PipelineTypeOK, PipelineTypeOK', RootInv, slot' = slot,
           \A k \in Slot : onDisk'[k] \subseteq onDisk[k],
           \A k \in Slot : slot[k] = Torn \/ slot[k] \in onDisk'[k],
           \A s \in Roots : \A i \in 1..Len(s.tree) : pages'[s.tree[i]] = "durable",
           \A c \in Batch : batch[c].pc \in SpentPc => batch'[c].pc \in SpentPc
    PROVE  RootInv' /\ Roots' \subseteq Roots
<1>1. Roots' \subseteq Roots
  BY DEF Roots, Slot
<1>2. Readable(slot)' => \A s \in Roots' : s.publication <= Published'.publication
  <2>1. (Readable(slot)' <=> Readable(slot)) /\ Published' = Published
    BY DEF Published
  <2>. QED
    BY <1>1, <2>1 DEF RootInv
<1>. QED
  BY <1>2, RootKeep

\* Trees stay comparable while no batch stages another.
LEMMA StagedKeep ==
    ASSUME PipelineTypeOK, PipelineTypeOK', \A c \in Batch : StagedInv(c),
           \A c \in Batch : batch'[c].pc \in Active =>
               /\ batch[c].pc \in Active /\ batch'[c].tree = batch[c].tree
               /\ ProcessOf[c] \in opened',
           working' # Torn => working # Torn /\ IsPrefix(working.tree, working'.tree),
           \A s \in Roots' : \/ \E u \in Roots : s.tree = u.tree
                             \/ \E c \in Running : s.tree = batch[c].tree
    PROVE  \A c \in Batch : StagedInv(c)'
<1> SUFFICES ASSUME NEW c \in Batch, batch'[c].pc \in Active
             PROVE  StagedInv(c)'
  BY DEF StagedInv
<1>1. batch[c].pc \in Active /\ batch'[c].tree = batch[c].tree /\ ProcessOf[c] \in opened'
  OBVIOUS
<1>2. /\ batch[c].tree # <<>> /\ batch[c].tree[Len(batch[c].tree)] = c
      /\ working # Torn => IsPrefix(batch[c].tree, working.tree)
      /\ \A s \in Roots : Comparable(s.tree, batch[c].tree)
      /\ \A d \in Running : Comparable(batch[d].tree, batch[c].tree)
  BY <1>1 DEF StagedInv
<1>3. working' # Torn => IsPrefix(batch[c].tree, working'.tree)
  <2>1. SUFFICES ASSUME working' # Torn PROVE IsPrefix(batch[c].tree, working'.tree)
    OBVIOUS
  <2>2. batch[c].tree \in Tree /\ working.tree \in Tree /\ working'.tree \in Tree
    BY <2>1, BatchTyped DEF PipelineTypeOK, WorkingState
  <2>. QED
    BY <1>2, <2>1, <2>2, PrefixOrder
<1>4. \A s \in Roots' : Comparable(s.tree, batch[c].tree)
  BY <1>2
<1>5. \A d \in Running' : Comparable(batch'[d].tree, batch[c].tree)
  <2>1. \A d \in Running' : d \in Running /\ batch'[d].tree = batch[d].tree
    BY DEF Running
  <2>. QED
    BY <1>2, <2>1
<1>. QED
  BY <1>1, <1>2, <1>3, <1>4, <1>5 DEF StagedInv

\* The page of a batch that does not move stays covered.
LEMMA PageKeep ==
    ASSUME NEW c \in Batch, PageInv(c), batch'[c].pc = batch[c].pc,
           pages[c] = "durable" => pages'[c] = "durable",
           barrier'[ProcessOf[c]].failed = barrier[ProcessOf[c]].failed,
           c \in barrier[ProcessOf[c]].waiting => c \in barrier'[ProcessOf[c]].waiting,
           barrier'[ProcessOf[c]].tickets = barrier[ProcessOf[c]].tickets,
           barrier'[ProcessOf[c]].writes = barrier[ProcessOf[c]].writes,
           dirty[ProcessOf[c]].pages \subseteq dirty'[ProcessOf[c]].pages
    PROVE  PageInv(c)'
BY DEF PageInv, Unsynced

\* A batch that may publish still may.
LEMMA ReadyKeep ==
    ASSUME PipelineTypeOK, PipelineTypeOK', NEW c \in Batch, ReadyInv(c),
           batch'[c].pc = "ready" => batch[c].pc = "ready" /\ batch'[c].tree = batch[c].tree,
           \A i \in 1..Len(batch[c].tree) :
               pages[batch[c].tree[i]] = "durable" => pages'[batch[c].tree[i]] = "durable",
           working' # Torn => working # Torn /\ working'.durable >= working.durable
    PROVE  ReadyInv(c)'
<1>1. working' # Torn => working.durable \in Nat /\ working'.durable \in Nat
  BY DEF PipelineTypeOK, WorkingState
<1>2. Generation(batch[c].tree) \in Nat
  BY BatchTyped
<1>. QED
  BY <1>1, <1>2 DEF ReadyInv

\* What is owed to a batch stays owed, less the roots a sync has made durable.
LEMMA OwedKeep ==
    ASSUME NEW c, NEW D, NEW E, NEW R, NEW Q, Owed(c, D, R),
           \A k \in Slot : E[k] \subseteq D[k] \cup {Torn},
           \A n \in R : n \in Q \/ \A s \in E[n % 2] : s = Torn \/ ~ Precedes(s, n)
    PROVE  Owed(c, E, Q)
<1>1. PICK k \in Slot : \A s \in D[k] \ {Torn} :
        \/ \E n \in R : n % 2 = k /\ Precedes(s, n)
        \/ s # Empty /\ Holds(s.tree, c)
  BY DEF Owed
<1>2. ASSUME NEW s \in E[k] \ {Torn}
      PROVE  \/ \E n \in Q : n % 2 = k /\ Precedes(s, n)
             \/ s # Empty /\ Holds(s.tree, c)
  <2>1. s \in D[k] \ {Torn}
    OBVIOUS
  <2>. QED
    BY <1>1, <2>1
<1>. QED
  BY <1>2 DEF Owed

\* The batch of a root that no step of its process touches.
LEMMA OwedSame ==
    ASSUME NEW c \in Batch, OwedInv(c), batch'[c].pc = batch[c].pc,
           \A k \in Slot : onDisk'[k] \subseteq onDisk[k] \cup {Torn},
           barrier'[ProcessOf[c]].failed = barrier[ProcessOf[c]].failed,
           c \in barrier[ProcessOf[c]].waiting => c \in barrier'[ProcessOf[c]].waiting,
           barrier'[ProcessOf[c]].tickets = barrier[ProcessOf[c]].tickets,
           barrier'[ProcessOf[c]].writes = barrier[ProcessOf[c]].writes,
           dirty[ProcessOf[c]].roots \subseteq dirty'[ProcessOf[c]].roots
    PROVE  OwedInv(c)'
<1> DEFINE p == ProcessOf[c]
           U == Unsynced(p).roots
           V == Unsynced(p)'.roots
<1>1. U \subseteq V
  BY DEF Unsynced
<1>2. ASSUME NEW R, NEW Q, R \subseteq Q, Owed(c, onDisk, R) PROVE Owed(c, onDisk', Q)
  BY <1>2, OwedKeep
<1>3. Owed(c, onDisk, U) => Owed(c, onDisk', V)
  BY <1>1, <1>2
<1>4. /\ Owed(c, onDisk, {}) => Owed(c, onDisk', {})
      /\ Owed(c, onDisk, barrier[p].writes.roots) => Owed(c, onDisk', barrier[p].writes.roots)
  BY <1>2
<1>. QED
  BY <1>3, <1>4 DEF OwedInv

\* A working state that only its failed flag can change in.
LEMMA WorkingKeep ==
    ASSUME PipelineTypeOK, PipelineTypeOK', WorkingInv,
           opened' # {} => opened # {},
           working' # Torn => /\ working # Torn /\ working'.tree = working.tree
                              /\ working'.durable = working.durable
                              /\ working'.ready = working.ready,
           working # Torn => \A i \in 1..Len(working.tree) :
               pages[working.tree[i]] = "durable" => pages'[working.tree[i]] = "durable",
           \A s \in Roots' :
               \/ \E u \in Roots : s.tree = u.tree
               \/ working # Torn => /\ IsPrefix(s.tree, working.tree)
                                    /\ Generation(s.tree) <= working.durable
    PROVE  WorkingInv'
<1> SUFFICES ASSUME opened' # {}, working' # Torn
             PROVE  WorkingInv'
  BY DEF WorkingInv
<1>1. /\ working # Torn /\ working'.tree = working.tree
      /\ working'.durable = working.durable /\ working'.ready = working.ready
      /\ working.tree \in Tree /\ working.durable \in Nat
      /\ Len(working.tree) \in Nat /\ Generation(working.tree) = Len(working.tree) + 1
  BY DEF PipelineTypeOK, WorkingState, Tree, Generation
<1>2. /\ working.durable \in 1..Generation(working.tree)
      /\ Generation(working.tree) - working.durable <= Window
      /\ \A i \in 1..(working.durable - 1) : pages[working.tree[i]] = "durable"
      /\ \A r \in working.ready : \E g \in (working.durable + 1)..Generation(working.tree) :
              r = Bit(g) /\ pages[working.tree[g - 1]] = "durable"
      /\ \A s \in Roots : IsPrefix(s.tree, working.tree) /\ Generation(s.tree) <= working.durable
  BY <1>1 DEF WorkingInv
<1>3. \A i \in 1..(working.durable - 1) : pages'[working.tree[i]] = "durable"
  BY <1>1, <1>2
<1>4. \A r \in working.ready : \E g \in (working.durable + 1)..Generation(working.tree) :
              r = Bit(g) /\ pages'[working.tree[g - 1]] = "durable"
  <2>1. \A g \in (working.durable + 1)..Generation(working.tree) : g - 1 \in 1..Len(working.tree)
    BY <1>1, <1>2
  <2>. QED
    BY <1>1, <1>2, <2>1
<1>5. \A s \in Roots' : IsPrefix(s.tree, working.tree) /\ Generation(s.tree) <= working.durable
  BY <1>1, <1>2
<1>. QED
  BY <1>1, <1>2, <1>3, <1>4, <1>5 DEF WorkingInv

\* A barrier, when no ticket is registered or answered.
LEMMA TicketSame ==
    ASSUME NEW p \in Process, TicketInv(p), barrier'[p] = barrier[p], slot' = slot,
           dirty'[p].roots = dirty[p].roots,
           \A c \in barrier[p].waiting : batch[c].pc \in {"pageSync", "rootSync"} =>
               batch'[c].pc \in {"pageSync", "rootSync"} \/ barrier[p].failed
    PROVE  TicketInv(p)'
<1>1. Unsynced(p)'.roots = Unsynced(p).roots
  BY DEF Unsynced
<1>. QED
  BY <1>1 DEF TicketInv

\* A barrier without a leader.
LEMMA TicketNone ==
    ASSUME NEW p \in Process,
           barrier'[p].leader = {}, barrier'[p].tickets = {}, barrier'[p].writes = NoWrites,
           \A c \in barrier'[p].waiting :
               ProcessOf[c] = p /\ (batch'[c].pc \in {"pageSync", "rootSync"} \/ barrier'[p].failed),
           \A n \in Unsynced(p)'.roots : ~ Precedes(slot'[n % 2], n)
    PROVE  TicketInv(p)'
BY DEF TicketInv

\* All barriers.
LEMMA BarrierSame ==
    ASSUME BarrierInv, barrier' = barrier, slot' = slot,
           \A p \in Process : dirty'[p].roots = dirty[p].roots,
           \A p \in Process : \A c \in barrier[p].waiting :
               batch[c].pc \in {"pageSync", "rootSync"} =>
                   batch'[c].pc \in {"pageSync", "rootSync"} \/ barrier[p].failed
    PROVE  BarrierInv'
BY TicketSame DEF BarrierInv

\* A step of one batch that leaves slots, pages, tickets and unsynced writes alone.
LEMMA PlainStep ==
    ASSUME PipelineTypeOK, PipelineInv, PipelineTypeOK', NEW b \in Batch,
           UNCHANGED <<slot, onDisk, pages, dirty, barrier, opened, hurt>>,
           \A c \in Batch \ {b} : batch'[c] = batch[c],
           batch'[b].pc \in Active =>
               batch[b].pc \in Active /\ batch'[b].tree = batch[b].tree,
           batch[b].pc \in SpentPc => batch'[b].pc \in SpentPc,
           b \in barrier[ProcessOf[b]].waiting => barrier[ProcessOf[b]].failed,
           working' # Torn => /\ working # Torn /\ working'.tree = working.tree
                              /\ working'.durable >= working.durable
    PROVE  /\ RootInv' /\ NeverSelfCorrupt' /\ BarrierInv'
           /\ \A c \in Batch : StagedInv(c)'
           /\ \A c \in Batch \ {b} : PageInv(c)' /\ ReadyInv(c)' /\ OwedInv(c)'
           /\ Roots' = Roots
<1>1. RootInv' /\ Roots' = Roots
  <2>1. Roots' = Roots
    BY DEF Roots
  <2>2. \A c \in Batch : batch[c].pc \in SpentPc => batch'[c].pc \in SpentPc
    OBVIOUS
  <2>3. /\ \A k \in Slot : onDisk'[k] \subseteq onDisk[k]
        /\ \A k \in Slot : slot[k] = Torn \/ slot[k] \in onDisk'[k]
        /\ \A s \in Roots : \A i \in 1..Len(s.tree) : pages'[s.tree[i]] = "durable"
    BY DEF PipelineInv, RootInv
  <2>. QED
    BY <2>1, <2>2, <2>3, RootSame DEF PipelineInv
<1>2. NeverSelfCorrupt'
  BY DEF NeverSelfCorrupt, PipelineInv
<1>3. BarrierInv'
  <2>1. ASSUME NEW p \in Process, NEW c \in barrier[p].waiting,
               batch[c].pc \in {"pageSync", "rootSync"}
        PROVE  batch'[c].pc \in {"pageSync", "rootSync"} \/ barrier[p].failed
    <3>1. ProcessOf[c] = p /\ c \in Batch
      BY DEF PipelineInv, BarrierInv, TicketInv, PipelineTypeOK, Barrier
    <3>2. CASE c = b
      BY <3>1, <3>2
    <3>3. CASE c # b
      BY <2>1, <3>1, <3>3
    <3>. QED
      BY <3>2, <3>3
  <2>. QED
    BY <2>1, BarrierSame DEF PipelineInv
<1>4. \A c \in Batch : StagedInv(c)'
  <2>1. \A c \in Batch : batch'[c].pc \in Active =>
               /\ batch[c].pc \in Active /\ batch'[c].tree = batch[c].tree
               /\ ProcessOf[c] \in opened'
    BY DEF PipelineInv, BatchInv, StagedInv
  <2>2. working' # Torn => working # Torn /\ IsPrefix(working.tree, working'.tree)
    BY PrefixOrder DEF PipelineTypeOK, WorkingState
  <2>3. \A s \in Roots' : \E u \in Roots : s.tree = u.tree
    BY <1>1
  <2>. QED
    BY <2>1, <2>2, <2>3, StagedKeep DEF PipelineInv, BatchInv
<1>5. ASSUME NEW c \in Batch \ {b} PROVE PageInv(c)' /\ ReadyInv(c)' /\ OwedInv(c)'
  <2>1. PageInv(c) /\ ReadyInv(c) /\ OwedInv(c)
    BY DEF PipelineInv, BatchInv
  <2>2. PageInv(c)'
    BY <2>1, PageKeep
  <2>3. ReadyInv(c)'
    BY <2>1, ReadyKeep
  <2>4. OwedInv(c)'
    BY <2>1, OwedSame
  <2>. QED
    BY <2>2, <2>3, <2>4
<1>. QED
  BY <1>1, <1>2, <1>3, <1>4, <1>5

\* A batch that ends without an acknowledgement claims nothing.
LEMMA EndedBatch ==
    ASSUME NEW c \in Batch, batch'[c].pc \in {"unknown", "duplicate"}
    PROVE  PageInv(c)' /\ ReadyInv(c)' /\ OwedInv(c)' /\ StagedInv(c)'
BY DEF PageInv, ReadyInv, OwedInv, StagedInv, Active

\* The parts of the invariant make it up.
LEMMA Assemble ==
    ASSUME RootInv', NeverSelfCorrupt', BarrierInv', WorkingInv',
           \A c \in Batch : StagedInv(c)' /\ PageInv(c)' /\ ReadyInv(c)' /\ OwedInv(c)'
    PROVE  PipelineInv'
BY DEF PipelineInv, BatchInv

--------------------------------------------------------------------------------
(* One lemma per action: it keeps the types and the invariant.             *)

\* A duplicate key ends the batch.
LEMMA DuplicateStep ==
    ASSUME PipelineTypeOK, PipelineInv, NEW b \in Batch, Duplicate(b)
    PROVE  PipelineTypeOK' /\ PipelineInv'
<1>1. /\ UNCHANGED <<slot, onDisk, pages, dirty, barrier, opened, hurt>> /\ working' = working
      /\ batch[b].pc = "idle" /\ Goto(b, "duplicate")
  BY DEF Duplicate, Admitted
<1>2. /\ batch' \in [Batch -> [pc : Active \cup {"idle", "acked", "unknown", "duplicate"},
                               tree : Tree]]
      /\ batch'[b].pc = "duplicate" /\ \A c \in Batch \ {b} : batch'[c] = batch[c]
  BY <1>1, GotoFacts
<1>3. PipelineTypeOK'
  BY <1>1, <1>2 DEF PipelineTypeOK
<1>4. b \in barrier[ProcessOf[b]].waiting => barrier[ProcessOf[b]].failed
  BY <1>1, BatchTyped DEF PipelineInv, BarrierInv, TicketInv
<1>5. working' # Torn => working'.durable >= working.durable
  BY <1>1 DEF PipelineTypeOK, WorkingState
<1>6. /\ RootInv' /\ NeverSelfCorrupt' /\ BarrierInv'
      /\ \A c \in Batch : StagedInv(c)'
      /\ \A c \in Batch \ {b} : PageInv(c)' /\ ReadyInv(c)' /\ OwedInv(c)'
      /\ Roots' = Roots
  BY <1>1, <1>2, <1>3, <1>4, <1>5, PlainStep DEF SpentPc, Active
<1>7. WorkingInv'
  BY <1>1, <1>3, <1>6, WorkingKeep DEF PipelineInv
<1>. QED
  BY <1>2, <1>3, <1>6, <1>7, EndedBatch, Assemble

\* A batch that fails leaves at most the failed flag.
LEMMA FailStep ==
    ASSUME PipelineTypeOK, PipelineInv, NEW b \in Batch, Fail(b)
    PROVE  PipelineTypeOK' /\ PipelineInv'
<1>1. /\ UNCHANGED <<slot, onDisk, pages, dirty, barrier, opened, hurt>>
      /\ FlagFailed(working) /\ Goto(b, "unknown")
      /\ \/ batch[b].pc \in {"synced", "marked", "ready"}
         \/ batch[b].pc \in {"pageSync", "rootSync"} /\ barrier[ProcessOf[b]].failed
  BY DEF Fail
<1>2. /\ batch' \in [Batch -> [pc : Active \cup {"idle", "acked", "unknown", "duplicate"},
                               tree : Tree]]
      /\ batch'[b].pc = "unknown" /\ \A c \in Batch \ {b} : batch'[c] = batch[c]
  BY <1>1, GotoFacts
<1>3. /\ working' \in WorkingState \cup {Torn}
      /\ working' # Torn => /\ working # Torn /\ working'.tree = working.tree
                            /\ working'.durable = working.durable /\ working'.ready = working.ready
  BY <1>1, FlagFacts DEF PipelineTypeOK
<1>4. PipelineTypeOK'
  BY <1>1, <1>2, <1>3 DEF PipelineTypeOK
<1>5. b \in barrier[ProcessOf[b]].waiting => barrier[ProcessOf[b]].failed
  BY <1>1, BatchTyped DEF PipelineInv, BarrierInv, TicketInv
<1>6. working' # Torn => working'.durable >= working.durable
  BY <1>3 DEF PipelineTypeOK, WorkingState
<1>7. /\ RootInv' /\ NeverSelfCorrupt' /\ BarrierInv'
      /\ \A c \in Batch : StagedInv(c)'
      /\ \A c \in Batch \ {b} : PageInv(c)' /\ ReadyInv(c)' /\ OwedInv(c)'
      /\ Roots' = Roots
  BY <1>1, <1>2, <1>3, <1>4, <1>5, <1>6, PlainStep DEF SpentPc, Active
<1>8. WorkingInv'
  BY <1>1, <1>3, <1>4, <1>7, WorkingKeep DEF PipelineInv
<1>. QED
  BY <1>2, <1>4, <1>7, <1>8, EndedBatch, Assemble

\* A batch that has waited for the watermark may publish.
LEMMA AwaitPrefixStep ==
    ASSUME PipelineTypeOK, PipelineInv, NEW b \in Batch, AwaitPrefix(b)
    PROVE  PipelineTypeOK' /\ PipelineInv'
<1>1. /\ UNCHANGED <<slot, onDisk, pages, dirty, barrier, opened, hurt>> /\ working' = working
      /\ Goto(b, "ready") /\ batch[b].pc = "marked" /\ working # Torn
      /\ working.durable >= Generation(batch[b].tree) /\ "ready" \in Active
  BY DEF AwaitPrefix, Active
<1>2. /\ batch' \in [Batch -> [pc : Active \cup {"idle", "acked", "unknown", "duplicate"},
                               tree : Tree]]
      /\ batch'[b].pc = "ready" /\ batch'[b].tree = batch[b].tree
      /\ \A c \in Batch \ {b} : batch'[c] = batch[c]
  BY <1>1, GotoFacts
<1>3. PipelineTypeOK'
  BY <1>1, <1>2 DEF PipelineTypeOK
<1>4. b \in barrier[ProcessOf[b]].waiting => barrier[ProcessOf[b]].failed
  BY <1>1, BatchTyped DEF PipelineInv, BarrierInv, TicketInv
<1>5. working' # Torn => working'.durable >= working.durable
  BY <1>1 DEF PipelineTypeOK, WorkingState
<1>6. /\ RootInv' /\ NeverSelfCorrupt' /\ BarrierInv'
      /\ \A c \in Batch : StagedInv(c)'
      /\ \A c \in Batch \ {b} : PageInv(c)' /\ ReadyInv(c)' /\ OwedInv(c)'
      /\ Roots' = Roots
  BY <1>1, <1>2, <1>3, <1>4, <1>5, PlainStep DEF SpentPc, Active
<1>7. WorkingInv'
  BY <1>1, <1>3, <1>6, WorkingKeep DEF PipelineInv
<1>8. PageInv(b)' /\ OwedInv(b)'
  BY <1>1, <1>2 DEF PipelineInv, BatchInv, PageInv, OwedInv
<1>9. ReadyInv(b)'
  <2>1. /\ IsPrefix(batch[b].tree, working.tree) /\ opened # {}
        /\ working.durable \in Nat /\ Len(batch[b].tree) \in Nat
        /\ Generation(batch[b].tree) = Len(batch[b].tree) + 1
    BY <1>1, BatchTyped DEF PipelineInv, BatchInv, StagedInv, Active, PipelineTypeOK, WorkingState
  <2>2. \A i \in 1..(working.durable - 1) : pages[working.tree[i]] = "durable"
    BY <1>1, <2>1 DEF PipelineInv, WorkingInv
  <2>3. \A i \in 1..Len(batch[b].tree) : pages[batch[b].tree[i]] = "durable"
    BY <1>1, <2>1, <2>2 DEF IsPrefix
  <2>. QED
    BY <1>1, <1>2, <2>3 DEF ReadyInv
<1>. QED
  BY <1>3, <1>6, <1>7, <1>8, <1>9, Assemble

\* A waiter answered by another caller's sync.
LEMMA SyncCompletedStep ==
    ASSUME PipelineTypeOK, PipelineInv, NEW b \in Batch, SyncCompleted(b)
    PROVE  PipelineTypeOK' /\ PipelineInv'
<1>1. /\ UNCHANGED <<slot, onDisk, pages, dirty, barrier, opened, hurt>> /\ working' = working
      /\ batch[b].pc \in {"pageSync", "rootSync"} /\ b \notin barrier[ProcessOf[b]].waiting
      /\ Goto(b, AfterSync(batch[b].pc))
  BY DEF SyncCompleted
<1> DEFINE pc == IF batch[b].pc = "pageSync" THEN "synced" ELSE "acked"
<1>2. AfterSync(batch[b].pc) = pc
  BY <1>1 DEF AfterSync
<1>3. /\ batch' \in [Batch -> [pc : Active \cup {"idle", "acked", "unknown", "duplicate"},
                               tree : Tree]]
      /\ batch'[b].pc = pc /\ (pc \in Active => batch'[b].tree = batch[b].tree)
      /\ \A c \in Batch \ {b} : batch'[c] = batch[c]
  <2>1. pc \in Active \cup {"idle", "acked", "unknown", "duplicate"}
    BY DEF Active
  <2>2. Goto(b, pc)
    BY <1>1, <1>2
  <2> HIDE DEF pc
  <2>. QED
    BY <2>1, <2>2, GotoFacts
<1>4. PipelineTypeOK'
  BY <1>1, <1>3 DEF PipelineTypeOK
<1>5. working' # Torn => working'.durable >= working.durable
  BY <1>1 DEF PipelineTypeOK, WorkingState
<1>6. /\ RootInv' /\ NeverSelfCorrupt' /\ BarrierInv'
      /\ \A c \in Batch : StagedInv(c)'
      /\ \A c \in Batch \ {b} : PageInv(c)' /\ ReadyInv(c)' /\ OwedInv(c)'
      /\ Roots' = Roots
  BY <1>1, <1>3, <1>4, <1>5, PlainStep DEF SpentPc, Active
<1>7. WorkingInv'
  BY <1>1, <1>4, <1>6, WorkingKeep DEF PipelineInv
<1>8. PageInv(b) /\ OwedInv(b)
  BY DEF PipelineInv, BatchInv
<1>9. PageInv(b)' /\ OwedInv(b)' /\ ReadyInv(b)'
  BY <1>1, <1>3, <1>8 DEF PageInv, OwedInv, ReadyInv
<1>. QED
  BY <1>4, <1>6, <1>7, <1>9, Assemble

\* The completion bit: the working state it leaves is in order.
LEMMA MarkedWorking ==
    ASSUME PipelineTypeOK, PipelineInv, NEW b \in Batch, MayMark(b)
    PROVE  LET w == Marked(b)
           IN  /\ working # Torn /\ opened # {} /\ w \in WorkingState /\ w.tree = working.tree
               /\ w.durable \in Nat /\ working.durable \in Nat /\ w.durable >= working.durable
               /\ w.durable \in 1..Generation(w.tree)
               /\ Generation(w.tree) - w.durable <= Window
               /\ \A i \in 1..(w.durable - 1) : pages[w.tree[i]] = "durable"
               /\ \A r \in w.ready : \E g \in (w.durable + 1)..Generation(w.tree) :
                     r = Bit(g) /\ pages[w.tree[g - 1]] = "durable"
               /\ \A s \in Roots : /\ IsPrefix(s.tree, w.tree)
                                    /\ Generation(s.tree) <= w.durable
<1> DEFINE w == Marked(b)
           g0 == Generation(batch[b].tree)
           top == Generation(working.tree)
<1>1. /\ batch[b].pc = "synced" /\ working # Torn /\ working \in WorkingState
      /\ g0 <= top /\ working.tree \in Tree
  BY DEF MayMark, PipelineTypeOK, WorkingState
<1>2. /\ ProcessOf[b] \in opened /\ IsPrefix(batch[b].tree, working.tree)
      /\ batch[b].tree # <<>> /\ batch[b].tree[Len(batch[b].tree)] = b
      /\ pages[b] = "durable"
  BY <1>1 DEF PipelineInv, BatchInv, StagedInv, PageInv, Active
<1>3. /\ working.durable \in 1..top /\ top - working.durable <= Window
      /\ \A i \in 1..(working.durable - 1) : pages[working.tree[i]] = "durable"
      /\ \A r \in working.ready : \E g \in (working.durable + 1)..top :
              r = Bit(g) /\ pages[working.tree[g - 1]] = "durable"
      /\ \A s \in Roots : IsPrefix(s.tree, working.tree) /\ Generation(s.tree) <= working.durable
  BY <1>1, <1>2 DEF PipelineInv, WorkingInv
<1>4. /\ batch[b].tree \in Tree /\ g0 \in Nat /\ top \in Nat /\ working.durable \in Nat
      /\ Len(batch[b].tree) \in Nat /\ g0 = Len(batch[b].tree) + 1 /\ Window \in Nat
      /\ Len(working.tree) \in Nat /\ top = Len(working.tree) + 1
  BY <1>1, <1>3, BatchTyped, GenerationFacts, PipelineAssumption
<1>5. working.tree[g0 - 1] = b /\ g0 - 1 >= 1
  <2>1. Len(batch[b].tree) >= 1
    BY <1>2, <1>4 DEF Tree
  <2>. QED
    BY <1>2, <1>4, <2>1 DEF IsPrefix
<1>6. /\ w \in WorkingState /\ w.tree = working.tree /\ w.failed = working.failed
      /\ w.durable \in working.durable..top
      /\ \A h \in (working.durable + 1)..w.durable :
             Bit(h) \in working.ready \/ (Bit(h) = Bit(g0) /\ g0 > working.durable)
      /\ \A r \in w.ready :
             /\ r \in working.ready \/ (r = Bit(g0) /\ g0 > working.durable)
             /\ \A h \in (working.durable + 1)..w.durable : r # Bit(h)
  BY <1>1, <1>3, <1>4, MarkedFacts
<1> HIDE DEF w, g0, top
<1>0. /\ g0 \in Nat /\ top \in Nat /\ working.durable \in Nat /\ Window \in Nat
      /\ g0 <= top /\ top - working.durable <= Window
  BY <1>1, <1>3, <1>4
<1>7. ASSUME NEW h \in (working.durable + 1)..w.durable PROVE pages[working.tree[h - 1]] = "durable"
  <2>0. h \in Nat /\ h <= top /\ h > working.durable
    BY <1>4, <1>6
  <2>1. CASE Bit(h) \in working.ready
    <3>1. PICK g \in (working.durable + 1)..top :
                Bit(h) = Bit(g) /\ pages[working.tree[g - 1]] = "durable"
      BY <1>3, <2>1
    <3>2. g \in Nat /\ g - h < Window /\ h - g < Window
      BY <1>0, <2>0
    <3>3. g = h
      BY <2>0, <3>1, <3>2, BitInjective
    <3>. QED
      BY <3>1, <3>3
  <2>2. CASE Bit(h) = Bit(g0) /\ g0 > working.durable
    <3>1. g0 - h < Window /\ h - g0 < Window
      BY <1>0, <2>0, <2>2
    <3>2. g0 = h
      BY <1>4, <2>0, <2>2, <3>1, BitInjective
    <3>. QED
      BY <1>2, <1>5, <3>2
  <2>. QED
    BY <1>6, <2>1, <2>2
<1>8. \A i \in 1..(w.durable - 1) : pages[working.tree[i]] = "durable"
  <2>1. SUFFICES ASSUME NEW i \in 1..(w.durable - 1) PROVE pages[working.tree[i]] = "durable"
    OBVIOUS
  <2>2. CASE i <= working.durable - 1
    BY <1>3, <1>4, <1>6, <2>2
  <2>3. CASE i > working.durable - 1
    <3>1. i + 1 \in (working.durable + 1)..w.durable /\ (i + 1) - 1 = i
      BY <1>4, <1>6, <2>3
    <3>. QED
      BY <1>7, <3>1
  <2>. QED
    BY <1>4, <1>6, <2>2, <2>3
<1>9. ASSUME NEW r \in w.ready
      PROVE  \E g \in (w.durable + 1)..top : r = Bit(g) /\ pages[working.tree[g - 1]] = "durable"
  <2>1. PICK g \in (working.durable + 1)..top :
              r = Bit(g) /\ pages[working.tree[g - 1]] = "durable"
    <3>1. CASE r \in working.ready
      BY <1>3, <3>1
    <3>2. CASE r = Bit(g0) /\ g0 > working.durable
      <4>1. g0 \in (working.durable + 1)..top
        BY <1>1, <1>4, <3>2
      <4>. QED
        BY <1>2, <1>5, <3>2, <4>1
    <3>. QED
      BY <1>6, <3>1, <3>2
  <2>2. g \notin (working.durable + 1)..w.durable
    BY <1>6, <2>1
  <2>3. g \in (w.durable + 1)..top
    BY <1>4, <1>6, <2>2
  <2>. QED
    BY <2>1, <2>3
<1>10. w.durable \in Nat /\ w.durable >= working.durable /\ w.durable \in 1..top /\ top - w.durable <= Window
  BY <1>3, <1>4, <1>6
<1>11. \A s \in Roots : /\ IsPrefix(s.tree, w.tree) /\ Generation(s.tree) <= w.durable
  <2>1. \A s \in Roots : Generation(s.tree) \in Nat
    BY RootsTyped, GenerationFacts
  <2>. QED
    BY <1>3, <1>4, <1>6, <1>10, <2>1
<1>. QED
  BY <1>1, <1>2, <1>4, <1>6, <1>8, <1>9, <1>10, <1>11 DEF w, top

\* A working state that is the marked one, but for its failed flag.
LEMMA MarkedInv ==
    ASSUME PipelineTypeOK, PipelineInv, NEW b \in Batch, MayMark(b),
           pages' = pages, Roots' = Roots,
           working' # Torn => /\ working'.tree = Marked(b).tree
                              /\ working'.durable = Marked(b).durable
                              /\ working'.ready = Marked(b).ready
    PROVE  WorkingInv'
<1> SUFFICES ASSUME working' # Torn
             PROVE  WorkingInv'
  BY DEF WorkingInv
<1> DEFINE w == Marked(b)
<1>1. /\ w.durable \in 1..Generation(w.tree)
      /\ Generation(w.tree) - w.durable <= Window
      /\ \A i \in 1..(w.durable - 1) : pages[w.tree[i]] = "durable"
      /\ \A r \in w.ready : \E g \in (w.durable + 1)..Generation(w.tree) :
            r = Bit(g) /\ pages[w.tree[g - 1]] = "durable"
      /\ \A s \in Roots : IsPrefix(s.tree, w.tree) /\ Generation(s.tree) <= w.durable
  BY MarkedWorking
<1>2. working'.tree = w.tree /\ working'.durable = w.durable /\ working'.ready = w.ready
  OBVIOUS
<1> HIDE DEF w
<1>. QED
  BY <1>1, <1>2 DEF WorkingInv

\* A batch whose page is synced sets its bit, and may publish if that closes the gap.
LEMMA MarkReadyStep ==
    ASSUME PipelineTypeOK, PipelineInv, NEW b \in Batch, MarkReady(b)
    PROVE  PipelineTypeOK' /\ PipelineInv'
<1> DEFINE pc == ReadyPc(b, Marked(b))
<1>1. /\ UNCHANGED <<slot, onDisk, pages, dirty, barrier, opened, hurt>>
      /\ MayMark(b) /\ batch[b].pc = "synced" /\ working' = Marked(b) /\ Goto(b, pc)
  BY DEF MarkReady, MayMark
<1>2. pc \in {"ready", "marked"} /\ (pc = "ready" => Marked(b).durable >= Generation(batch[b].tree))
  BY DEF ReadyPc
<1> HIDE DEF pc
<1>3. /\ batch' \in [Batch -> [pc : Active \cup {"idle", "acked", "unknown", "duplicate"},
                               tree : Tree]]
      /\ batch'[b].pc = pc /\ batch'[b].tree = batch[b].tree
      /\ \A c \in Batch \ {b} : batch'[c] = batch[c]
  BY <1>1, <1>2, GotoFacts DEF Active
<1>4. /\ working # Torn /\ Marked(b) \in WorkingState /\ Marked(b).tree = working.tree
      /\ Marked(b).durable \in Nat /\ Marked(b).durable >= working.durable
      /\ \A i \in 1..(Marked(b).durable - 1) : pages[working.tree[i]] = "durable"
  BY <1>1, MarkedWorking
<1>5. PipelineTypeOK'
  BY <1>1, <1>3, <1>4 DEF PipelineTypeOK
<1>6. b \in barrier[ProcessOf[b]].waiting => barrier[ProcessOf[b]].failed
  BY <1>1, BatchTyped DEF PipelineInv, BarrierInv, TicketInv
<1>7. /\ RootInv' /\ NeverSelfCorrupt' /\ BarrierInv'
      /\ \A c \in Batch : StagedInv(c)'
      /\ \A c \in Batch \ {b} : PageInv(c)' /\ ReadyInv(c)' /\ OwedInv(c)'
      /\ Roots' = Roots
  BY <1>1, <1>2, <1>3, <1>4, <1>5, <1>6, PlainStep DEF SpentPc, Active
<1>8. WorkingInv'
  BY <1>1, <1>7, MarkedInv
<1>9. PageInv(b)' /\ OwedInv(b)'
  BY <1>1, <1>2, <1>3 DEF PipelineInv, BatchInv, PageInv, OwedInv
<1>10. ReadyInv(b)'
  <2>1. /\ IsPrefix(batch[b].tree, working.tree) /\ Len(batch[b].tree) \in Nat
        /\ Generation(batch[b].tree) = Len(batch[b].tree) + 1
    BY <1>1, <1>4, BatchTyped DEF PipelineInv, BatchInv, StagedInv, Active
  <2>2. pc = "ready" => \A i \in 1..Len(batch[b].tree) : pages[batch[b].tree[i]] = "durable"
    BY <1>2, <1>4, <2>1 DEF IsPrefix
  <2>. QED
    BY <1>1, <1>2, <1>3, <2>2 DEF ReadyInv
<1>. QED
  BY <1>5, <1>7, <1>8, <1>9, <1>10, Assemble

\* The write of the bit fails.
LEMMA MarkErrorStep ==
    ASSUME PipelineTypeOK, PipelineInv, NEW b \in Batch, MarkError(b)
    PROVE  PipelineTypeOK' /\ PipelineInv'
<1>1. /\ UNCHANGED <<slot, onDisk, pages, dirty, barrier, opened, hurt>>
      /\ MayMark(b) /\ batch[b].pc = "synced" /\ FlagFailed(Marked(b)) /\ Goto(b, "unknown")
  BY DEF MarkError, MayMark
<1>2. /\ batch' \in [Batch -> [pc : Active \cup {"idle", "acked", "unknown", "duplicate"},
                               tree : Tree]]
      /\ batch'[b].pc = "unknown" /\ \A c \in Batch \ {b} : batch'[c] = batch[c]
  BY <1>1, GotoFacts
<1>3. /\ working # Torn /\ Marked(b) \in WorkingState /\ Marked(b).tree = working.tree
      /\ Marked(b).durable >= working.durable
  BY <1>1, MarkedWorking
<1>4. /\ working' \in WorkingState \cup {Torn}
      /\ working' # Torn => /\ working'.tree = Marked(b).tree
                            /\ working'.durable = Marked(b).durable
                            /\ working'.ready = Marked(b).ready
  BY <1>1, <1>3, FlagFacts
<1>5. PipelineTypeOK'
  BY <1>1, <1>2, <1>4 DEF PipelineTypeOK
<1>6. b \in barrier[ProcessOf[b]].waiting => barrier[ProcessOf[b]].failed
  BY <1>1, BatchTyped DEF PipelineInv, BarrierInv, TicketInv
<1>7. /\ RootInv' /\ NeverSelfCorrupt' /\ BarrierInv'
      /\ \A c \in Batch : StagedInv(c)'
      /\ \A c \in Batch \ {b} : PageInv(c)' /\ ReadyInv(c)' /\ OwedInv(c)'
      /\ Roots' = Roots
  BY <1>1, <1>2, <1>3, <1>4, <1>5, <1>6, PlainStep DEF SpentPc, Active
<1>8. WorkingInv'
  BY <1>1, <1>4, <1>7, MarkedInv
<1>. QED
  BY <1>2, <1>5, <1>7, <1>8, EndedBatch, Assemble

\* Staging: the pages of b are new, and the working tree grows by b or stays.
LEMMA StageEffect ==
    ASSUME PipelineTypeOK, PipelineInv, PipelineTypeOK', NEW b \in Batch,
           Admitted(b), HasWindow, ~ HasKey(working.tree, KeyOf[b]),
           UNCHANGED <<slot, onDisk, barrier, opened, hurt>>,
           pages' = [pages EXCEPT ![b] = "written"],
           dirty' = [dirty EXCEPT ![ProcessOf[b]].pages = @ \cup {b}],
           \A c \in Batch \ {b} : batch'[c] = batch[c],
           batch'[b].pc = "unknown" \/ (/\ batch'[b].pc = "staged"
                                        /\ batch'[b].tree = Append(working.tree, b)
                                        /\ working'.tree = Append(working.tree, b)),
           working' # Torn => /\ working'.tree \in {working.tree, Append(working.tree, b)}
                              /\ working'.durable = working.durable
                              /\ working'.ready = working.ready
    PROVE  PipelineInv'
<1> DEFINE t == working.tree
           next == Append(t, b)
<1>1. /\ working # Torn /\ working \in WorkingState /\ t \in Tree /\ working.durable \in Nat
      /\ batch[b].pc = "idle" /\ ProcessOf[b] \in opened /\ Window \in Nat
      /\ Len(t) \in Nat /\ Generation(t) = Len(t) + 1 /\ Generation(t) - working.durable < Window
  BY PipelineAssumption, GenerationFacts DEF Admitted, HasWindow, PipelineTypeOK, WorkingState
<1>2. /\ next \in Tree /\ Len(next) = Len(t) + 1 /\ next # <<>> /\ next[Len(t) + 1] = b
      /\ \A i \in 1..Len(t) : next[i] = t[i]
      /\ IsPrefix(t, next) /\ IsPrefix(next, next) /\ IsPrefix(t, t)
  <2>1. /\ next \in Tree /\ Len(next) = Len(t) + 1 /\ next # <<>> /\ next[Len(t) + 1] = b
        /\ \A i \in 1..Len(t) : next[i] = t[i]
        /\ IsPrefix(t, next)
    BY <1>1, AppendTree
  <2> HIDE DEF next, t
  <2>2. IsPrefix(next, next) /\ IsPrefix(t, t)
    BY <1>1, <2>1, PrefixOrder
  <2>. QED
    BY <2>1, <2>2
<1>3. \A i \in 1..Len(t) : t[i] # b /\ t[i] \in Batch
  BY <1>1 DEF HasKey, Tree
<1>4. /\ working.durable \in 1..Generation(t)
      /\ \A i \in 1..(working.durable - 1) : pages[t[i]] = "durable"
      /\ \A r \in working.ready : \E g \in (working.durable + 1)..Generation(t) :
              r = Bit(g) /\ pages[t[g - 1]] = "durable"
      /\ \A s \in Roots : IsPrefix(s.tree, t) /\ Generation(s.tree) <= working.durable
  BY <1>1 DEF PipelineInv, WorkingInv
<1>5. /\ \A c \in Batch : c # b => pages'[c] = pages[c]
      /\ \A i \in 1..Len(t) : pages'[t[i]] = pages[t[i]]
  BY <1>3 DEF PipelineTypeOK
<1> HIDE DEF next, t
<1>6. ASSUME NEW u \in Tree, IsPrefix(u, t), NEW i \in 1..Len(u)
      PROVE  pages'[u[i]] = pages[u[i]]
  <2>1. u[i] = t[i] /\ i \in 1..Len(t)
    BY <1>1, <1>6 DEF IsPrefix, Tree
  <2>. QED
    BY <1>5, <2>1
<1>7. RootInv' /\ Roots' = Roots
  <2>1. Roots' = Roots
    BY DEF Roots
  <2>2. \A s \in Roots : \A i \in 1..Len(s.tree) : pages'[s.tree[i]] = "durable"
    BY <1>4, <1>6, RootsTyped DEF PipelineInv, RootInv
  <2>3. \A c \in Batch : batch[c].pc \in SpentPc => batch'[c].pc \in SpentPc
    BY <1>1 DEF SpentPc
  <2>4. /\ \A k \in Slot : onDisk'[k] \subseteq onDisk[k]
        /\ \A k \in Slot : slot[k] = Torn \/ slot[k] \in onDisk'[k]
    BY DEF PipelineInv, RootInv
  <2>. QED
    BY <2>1, <2>2, <2>3, <2>4, RootSame DEF PipelineInv
<1>8. NeverSelfCorrupt'
  BY DEF NeverSelfCorrupt, PipelineInv
<1>9. /\ \A p \in Process : dirty'[p].roots = dirty[p].roots /\ dirty[p].pages \subseteq dirty'[p].pages
      /\ b \in dirty'[ProcessOf[b]].pages
  BY BatchTyped DEF PipelineTypeOK, Writes
<1>10. BarrierInv'
  <2>1. \A p \in Process : \A c \in barrier[p].waiting : c \in Batch
    BY DEF PipelineTypeOK, Barrier
  <2>2. \A p \in Process : \A c \in barrier[p].waiting :
               batch[c].pc \in {"pageSync", "rootSync"} => batch'[c].pc \in {"pageSync", "rootSync"}
    BY <1>1, <2>1
  <2>. QED
    BY <1>9, <2>2, BarrierSame DEF PipelineInv
<1>11. ASSUME NEW c \in Batch, batch'[c].pc \in Active, c # b PROVE
          /\ batch[c].pc \in Active /\ batch'[c].tree = batch[c].tree
          /\ batch[c].tree \in Tree /\ IsPrefix(batch[c].tree, t)
  BY <1>1, <1>11, BatchTyped DEF PipelineInv, BatchInv, StagedInv, t
<1>12. ASSUME NEW c \in Batch PROVE StagedInv(c)'
  <2>1. CASE batch'[c].pc \notin Active
    BY <2>1 DEF StagedInv
  <2>2. CASE batch'[c].pc \in Active /\ c # b
    <3>1. working' # Torn => IsPrefix(batch[c].tree, working'.tree)
      <4>1. working' # Torn => working'.tree = t \/ working'.tree = next
        BY DEF t, next
      <4>2. IsPrefix(batch[c].tree, t) /\ batch[c].tree \in Tree
        BY <1>11, <2>2
      <4>3. IsPrefix(batch[c].tree, next)
        BY <1>1, <1>2, <4>2, PrefixOrder
      <4>. QED
        BY <4>1, <4>2, <4>3
    <3>2. \A d \in Running' : Comparable(batch'[d].tree, batch[c].tree)
      <4>1. SUFFICES ASSUME NEW d \in Running' PROVE Comparable(batch'[d].tree, batch[c].tree)
        OBVIOUS
      <4>2. CASE d # b
        BY <1>11, <2>2, <4>2 DEF Running, PipelineInv, BatchInv, StagedInv
      <4>3. CASE d = b
        <5>1. batch'[b].tree = next
          BY <4>3 DEF Running, Active, next, t
        <5>. QED
          BY <1>1, <1>2, <1>11, <2>2, <4>3, <5>1, PrefixOrder DEF Comparable
      <4>. QED
        BY <4>2, <4>3
    <3>. QED
      BY <1>7, <1>11, <2>2, <3>1, <3>2 DEF PipelineInv, BatchInv, StagedInv
  <2>3. CASE batch'[c].pc \in Active /\ c = b
    <3>1. batch'[b].tree = next /\ working'.tree = next
      BY <2>3 DEF Active, next, t
    <3>2. \A s \in Roots : Comparable(s.tree, next)
      BY <1>1, <1>2, <1>4, RootsTyped, PrefixOrder DEF Comparable
    <3>3. \A d \in Running' : Comparable(batch'[d].tree, next)
      <4>1. SUFFICES ASSUME NEW d \in Running' PROVE Comparable(batch'[d].tree, next)
        OBVIOUS
      <4>2. CASE d # b
        BY <1>1, <1>2, <1>11, <4>2, PrefixOrder DEF Running, Comparable
      <4>3. CASE d = b
        BY <1>2, <3>1, <4>3 DEF Comparable
      <4>. QED
        BY <4>2, <4>3
    <3>. QED
      BY <1>1, <1>2, <1>7, <2>3, <3>1, <3>2, <3>3 DEF StagedInv
  <2>. QED
    BY <2>1, <2>2, <2>3
<1>13. ASSUME NEW c \in Batch PROVE PageInv(c)' /\ ReadyInv(c)' /\ OwedInv(c)'
  <2>1. PageInv(c) /\ ReadyInv(c) /\ OwedInv(c) /\ ProcessOf[c] \in Process
    BY BatchTyped DEF PipelineInv, BatchInv
  <2>2. CASE c = b
    BY <1>9, <2>2 DEF PageInv, ReadyInv, OwedInv, Unsynced
  <2>3. CASE c # b
    <3>1. PageInv(c)'
      BY <1>5, <1>9, <2>1, <2>3, PageKeep
    <3>2. ReadyInv(c)'
      <4>1. CASE batch[c].pc = "ready"
        <5>1. batch[c].tree \in Tree /\ IsPrefix(batch[c].tree, t)
          BY <1>11, <2>3, <4>1 DEF Active
        <5>2. \A i \in 1..Len(batch[c].tree) : pages'[batch[c].tree[i]] = pages[batch[c].tree[i]]
          BY <1>6, <5>1
        <5>3. working' # Torn => working'.durable >= working.durable
          BY <1>1
        <5>. QED
          BY <1>1, <2>1, <2>3, <5>2, <5>3, ReadyKeep
      <4>2. CASE batch[c].pc # "ready"
        BY <2>3, <4>2 DEF ReadyInv
      <4>. QED
        BY <4>1, <4>2
    <3>3. OwedInv(c)'
      BY <1>9, <2>1, <2>3, OwedSame
    <3>. QED
      BY <3>1, <3>2, <3>3
  <2>. QED
    BY <2>2, <2>3
<1>14. WorkingInv'
  <2>1. SUFFICES ASSUME working' # Torn PROVE WorkingInv'
    BY DEF WorkingInv
  <2>2. PICK u \in {t, next} : working'.tree = u
    BY <2>1 DEF t, next
  <2>3. /\ u \in Tree /\ Len(u) \in Nat /\ Len(u) >= Len(t) /\ Len(u) <= Len(t) + 1
        /\ \A i \in 1..Len(t) : u[i] = t[i]
        /\ IsPrefix(t, u) /\ Generation(u) = Len(u) + 1
    BY <1>1, <1>2, GenerationFacts
  <2>4. /\ working.durable \in 1..Generation(u)
        /\ Generation(u) - working.durable <= Window
    BY <1>1, <1>4, <2>3
  <2>5. \A i \in 1..(working.durable - 1) : pages'[u[i]] = "durable"
    BY <1>1, <1>4, <1>5, <2>3
  <2>6. ASSUME NEW r \in working.ready
        PROVE  \E g \in (working.durable + 1)..Generation(u) :
                  r = Bit(g) /\ pages'[u[g - 1]] = "durable"
    <3>1. PICK g \in (working.durable + 1)..Generation(t) :
              r = Bit(g) /\ pages[t[g - 1]] = "durable"
      BY <1>4
    <3>2. g - 1 \in 1..Len(t) /\ g \in (working.durable + 1)..Generation(u)
      BY <1>1, <1>4, <2>3
    <3>. QED
      BY <1>5, <2>3, <3>1, <3>2
  <2>7. \A s \in Roots : IsPrefix(s.tree, u) /\ Generation(s.tree) <= working.durable
    BY <1>1, <1>4, <2>3, RootsTyped, PrefixOrder
  <2>. QED
    BY <1>7, <2>1, <2>2, <2>4, <2>5, <2>6, <2>7 DEF WorkingInv
<1>. QED
  BY <1>7, <1>8, <1>10, <1>12, <1>13, <1>14, Assemble

\* The typed parts of a staging step.
LEMMA StageTypes ==
    ASSUME PipelineTypeOK, NEW b \in Batch, Admitted(b)
    PROVE  /\ working \in WorkingState /\ working # Torn
           /\ [working EXCEPT !.tree = Append(@, b)] \in WorkingState
           /\ [working EXCEPT !.tree = Append(@, b)].tree = Append(working.tree, b)
           /\ [working EXCEPT !.tree = Append(@, b)].durable = working.durable
           /\ [working EXCEPT !.tree = Append(@, b)].ready = working.ready
           /\ [pages EXCEPT ![b] = "written"] \in [Batch -> {"none", "written", "durable", "lost"}]
           /\ [dirty EXCEPT ![ProcessOf[b]].pages = @ \cup {b}] \in [Process -> Writes]
           /\ Append(working.tree, b) \in Tree
<1>1. working \in WorkingState /\ working # Torn /\ working.tree \in Tree
  BY DEF Admitted, PipelineTypeOK, WorkingState
<1>2. Append(working.tree, b) \in Tree
  BY <1>1, AppendTree
<1>3. /\ [pages EXCEPT ![b] = "written"] \in [Batch -> {"none", "written", "durable", "lost"}]
      /\ [dirty EXCEPT ![ProcessOf[b]].pages = @ \cup {b}] \in [Process -> Writes]
  <2>1. [pages EXCEPT ![b] = "written"] \in [Batch -> {"none", "written", "durable", "lost"}]
    BY DEF PipelineTypeOK
  <2>2. ProcessOf[b] \in Process /\ dirty \in [Process -> Writes]
    BY BatchTyped DEF PipelineTypeOK
  <2>3. [dirty[ProcessOf[b]] EXCEPT !.pages = @ \cup {b}] \in Writes
    BY <2>2 DEF Writes
  <2>. QED
    BY <2>1, <2>2, <2>3
<1>. QED
  BY <1>1, <1>2, <1>3 DEF WorkingState

\* A batch is staged.
LEMMA StageStep ==
    ASSUME PipelineTypeOK, PipelineInv, NEW b \in Batch, Stage(b)
    PROVE  PipelineTypeOK' /\ PipelineInv'
<1> DEFINE next == Append(working.tree, b)
<1>1. /\ Admitted(b) /\ HasWindow /\ ~ HasKey(working.tree, KeyOf[b])
      /\ working' = [working EXCEPT !.tree = Append(@, b)]
      /\ pages' = [pages EXCEPT ![b] = "written"]
      /\ dirty' = [dirty EXCEPT ![ProcessOf[b]].pages = @ \cup {b}]
      /\ batch' = [batch EXCEPT ![b] = [pc |-> "staged", tree |-> next]]
      /\ UNCHANGED <<slot, onDisk, barrier, opened, hurt>>
  BY DEF Stage
<1>2. /\ working' \in WorkingState /\ working'.tree = next
      /\ working'.durable = working.durable /\ working'.ready = working.ready /\ next \in Tree
  BY <1>1, StageTypes
<1> HIDE DEF next
<1>3. /\ batch' \in [Batch -> [pc : Active \cup {"idle", "acked", "unknown", "duplicate"},
                               tree : Tree]]
      /\ batch'[b].pc = "staged" /\ batch'[b].tree = next
      /\ \A c \in Batch \ {b} : batch'[c] = batch[c]
  BY <1>1, <1>2 DEF PipelineTypeOK, Active
<1>4. PipelineTypeOK'
  BY <1>1, <1>2, <1>3, StageTypes DEF PipelineTypeOK
<1>. QED
  BY <1>1, <1>2, <1>3, <1>4, StageEffect DEF next

\* Staging fails on the write of the working root.
LEMMA StageErrorStep ==
    ASSUME PipelineTypeOK, PipelineInv, NEW b \in Batch, StageError(b)
    PROVE  PipelineTypeOK' /\ PipelineInv'
<1>1. /\ Admitted(b) /\ HasWindow /\ ~ HasKey(working.tree, KeyOf[b])
      /\ working' \in {working, [working EXCEPT !.tree = Append(@, b)], Torn}
      /\ pages' = [pages EXCEPT ![b] = "written"]
      /\ dirty' = [dirty EXCEPT ![ProcessOf[b]].pages = @ \cup {b}]
      /\ Goto(b, "unknown")
      /\ UNCHANGED <<slot, onDisk, barrier, opened, hurt>>
  BY DEF StageError
<1>2. /\ working' \in WorkingState \cup {Torn}
      /\ working' # Torn => /\ working'.tree \in {working.tree, Append(working.tree, b)}
                            /\ working'.durable = working.durable
                            /\ working'.ready = working.ready
  <2>1. CASE working' = working
    BY <1>1, <2>1, StageTypes
  <2>2. CASE working' = [working EXCEPT !.tree = Append(@, b)]
    BY <1>1, <2>2, StageTypes
  <2>3. CASE working' = Torn
    BY <2>3
  <2>. QED
    BY <1>1, <2>1, <2>2, <2>3
<1>3. /\ batch' \in [Batch -> [pc : Active \cup {"idle", "acked", "unknown", "duplicate"},
                               tree : Tree]]
      /\ batch'[b].pc = "unknown" /\ \A c \in Batch \ {b} : batch'[c] = batch[c]
  BY <1>1, GotoFacts
<1>4. PipelineTypeOK'
  BY <1>1, <1>2, <1>3, StageTypes DEF PipelineTypeOK
<1>. QED
  BY <1>1, <1>2, <1>3, <1>4, StageEffect

\* What a barrier step keeps: roots, trees and the working state.
LEMMA BarrierStep ==
    ASSUME PipelineTypeOK, PipelineInv, PipelineTypeOK',
           UNCHANGED <<slot, working, opened, hurt>>,
           \A k \in Slot : onDisk'[k] \subseteq onDisk[k],
           \A k \in Slot : slot[k] = Torn \/ slot[k] \in onDisk'[k],
           \A c \in Batch : pages[c] = "durable" => pages'[c] = "durable",
           \A c \in Batch : batch[c].pc \in SpentPc => batch'[c].pc \in SpentPc,
           \A c \in Batch : batch'[c].pc \in Active =>
               batch[c].pc \in Active /\ batch'[c].tree = batch[c].tree,
           \A c \in Batch : batch'[c].pc = "ready" => batch[c].pc = "ready"
    PROVE  /\ RootInv' /\ NeverSelfCorrupt' /\ WorkingInv'
           /\ \A c \in Batch : StagedInv(c)' /\ ReadyInv(c)'
<1>0. \A u \in Tree : \A i \in 1..Len(u) : pages[u[i]] = "durable" => pages'[u[i]] = "durable"
  BY DEF Tree
<1>1. RootInv' /\ Roots' \subseteq Roots
  <2>1. \A s \in Roots : \A i \in 1..Len(s.tree) : pages'[s.tree[i]] = "durable"
    BY <1>0, RootsTyped DEF PipelineInv, RootInv
  <2>. QED
    BY <2>1, RootSame DEF PipelineInv
<1>2. NeverSelfCorrupt'
  BY DEF NeverSelfCorrupt, PipelineInv
<1>3. WorkingInv'
  <2>1. working # Torn => working.tree \in Tree
    BY DEF PipelineTypeOK, WorkingState
  <2>. QED
    BY <1>0, <1>1, <2>1, WorkingKeep DEF PipelineInv
<1>4. \A c \in Batch : StagedInv(c)'
  <2>1. \A c \in Batch : batch'[c].pc \in Active =>
               /\ batch[c].pc \in Active /\ batch'[c].tree = batch[c].tree
               /\ ProcessOf[c] \in opened'
    BY DEF PipelineInv, BatchInv, StagedInv
  <2>2. working' # Torn => working # Torn /\ IsPrefix(working.tree, working'.tree)
    BY PrefixOrder DEF PipelineTypeOK, WorkingState
  <2>3. \A s \in Roots' : \E u \in Roots : s.tree = u.tree
    BY <1>1
  <2>. QED
    BY <2>1, <2>2, <2>3, StagedKeep DEF PipelineInv, BatchInv
<1>5. ASSUME NEW c \in Batch PROVE ReadyInv(c)'
  <2>1. ReadyInv(c) /\ batch[c].tree \in Tree
    BY BatchTyped DEF PipelineInv, BatchInv
  <2>2. working' # Torn => working # Torn /\ working'.durable >= working.durable
    BY DEF PipelineTypeOK, WorkingState
  <2>3. batch'[c].pc = "ready" => batch[c].pc = "ready" /\ batch'[c].tree = batch[c].tree
    BY DEF Active
  <2>. QED
    BY <1>0, <2>1, <2>2, <2>3, ReadyKeep
<1>. QED
  BY <1>1, <1>2, <1>3, <1>4, <1>5

\* A ticket is registered.
LEMMA RequestSyncStep ==
    ASSUME PipelineTypeOK, PipelineInv, NEW b \in Batch, RequestSync(b)
    PROVE  PipelineTypeOK' /\ PipelineInv'
<1> DEFINE p == ProcessOf[b]
           pc == IF batch[b].pc = "staged" THEN "pageSync" ELSE "rootSync"
<1>1. /\ UNCHANGED <<slot, onDisk, pages, working, dirty, opened, hurt>>
      /\ batch[b].pc \in {"staged", "published"} /\ Goto(b, SyncOf(batch[b].pc))
      /\ barrier' = [barrier EXCEPT ![p].waiting = @ \cup {b}]
  BY DEF RequestSync
<1>2. p \in Process /\ barrier[p] \in Barrier
  BY BatchTyped DEF PipelineTypeOK
<1>3. /\ barrier' \in [Process -> Barrier] /\ \A q \in Process : q # p => barrier'[q] = barrier[q]
      /\ barrier'[p].waiting = barrier[p].waiting \cup {b}
      /\ barrier'[p].leader = barrier[p].leader /\ barrier'[p].tickets = barrier[p].tickets
      /\ barrier'[p].writes = barrier[p].writes /\ barrier'[p].failed = barrier[p].failed
  BY <1>1, <1>2 DEF PipelineTypeOK, Barrier
<1>4. SyncOf(batch[b].pc) = pc /\ pc \in {"pageSync", "rootSync"} /\ pc \in Active
  BY <1>1 DEF SyncOf, Active
<1>5. /\ batch[b].pc = "staged" => pc = "pageSync"
      /\ batch[b].pc = "published" => pc = "rootSync"
  BY <1>1
<1> HIDE DEF pc
<1>6. /\ batch' \in [Batch -> [pc : Active \cup {"idle", "acked", "unknown", "duplicate"},
                               tree : Tree]]
      /\ batch'[b].pc = pc /\ batch'[b].tree = batch[b].tree
      /\ \A c \in Batch \ {b} : batch'[c] = batch[c]
  BY <1>1, <1>4, GotoFacts
<1>7. PipelineTypeOK'
  BY <1>1, <1>3, <1>6 DEF PipelineTypeOK
<1>8. /\ RootInv' /\ NeverSelfCorrupt' /\ WorkingInv'
      /\ \A c \in Batch : StagedInv(c)' /\ ReadyInv(c)'
  <2>1. \A c \in Batch : batch[c].pc \in SpentPc => batch'[c].pc \in SpentPc
    BY <1>1, <1>5, <1>6 DEF SpentPc
  <2>2. \A c \in Batch : batch'[c].pc \in Active =>
               batch[c].pc \in Active /\ batch'[c].tree = batch[c].tree
    BY <1>1, <1>6 DEF Active
  <2>3. \A c \in Batch : batch'[c].pc = "ready" => batch[c].pc = "ready"
    BY <1>4, <1>6
  <2>4. \A k \in Slot : slot[k] = Torn \/ slot[k] \in onDisk'[k]
    BY <1>1 DEF PipelineInv, RootInv
  <2>. QED
    BY <1>1, <1>7, <2>1, <2>2, <2>3, <2>4, BarrierStep
<1>9. BarrierInv'
  <2>1. ASSUME NEW q \in Process PROVE TicketInv(q)'
    <3>1. TicketInv(q) /\ barrier[q].waiting \subseteq Batch
      BY DEF PipelineInv, BarrierInv, PipelineTypeOK, Barrier
    <3>2. \A c \in barrier[q].waiting : batch[c].pc \in {"pageSync", "rootSync"} =>
               batch'[c].pc \in {"pageSync", "rootSync"} \/ barrier[q].failed
      BY <1>4, <1>6, <3>1
    <3>3. CASE q # p
      BY <1>1, <1>3, <3>1, <3>2, <3>3, TicketSame
    <3>4. CASE q = p
      <4>1. Unsynced(p)'.roots = Unsynced(p).roots
        BY <1>1, <1>3 DEF Unsynced
      <4>2. \A c \in barrier'[p].waiting :
               /\ ProcessOf[c] = p
               /\ batch'[c].pc \in {"pageSync", "rootSync"} \/ barrier'[p].failed
        BY <1>3, <1>4, <1>6, <3>1, <3>2, <3>4 DEF TicketInv
      <4>. QED
        BY <1>1, <1>3, <3>1, <3>4, <4>1, <4>2 DEF TicketInv
    <3>. QED
      BY <3>3, <3>4
  <2>. QED
    BY <2>1 DEF BarrierInv
<1>10. ASSUME NEW c \in Batch PROVE PageInv(c)' /\ OwedInv(c)'
  <2>1. PageInv(c) /\ OwedInv(c) /\ ProcessOf[c] \in Process
    BY BatchTyped DEF PipelineInv, BatchInv
  <2>2. CASE c # b
    <3>1. c \in barrier[ProcessOf[c]].waiting => c \in barrier'[ProcessOf[c]].waiting
      BY <1>3, <2>1
    <3>. QED
      BY <1>1, <1>3, <1>6, <2>1, <2>2, <3>1, PageKeep, OwedSame
  <2>3. CASE c = b
    <3>1. b \notin barrier[p].tickets
      BY <1>1, <1>2 DEF PipelineInv, BarrierInv, TicketInv
    <3>2. Unsynced(p)'.roots = Unsynced(p).roots /\ Unsynced(p)'.pages = Unsynced(p).pages
      BY <1>1, <1>3 DEF Unsynced
    <3>. QED
      BY <1>1, <1>3, <1>4, <1>5, <1>6, <2>1, <2>3, <3>1, <3>2 DEF PageInv, OwedInv
  <2>. QED
    BY <2>2, <2>3
<1>. QED
  BY <1>7, <1>8, <1>9, <1>10, Assemble

\* A sync starts: it captures the tickets registered and the writes made so far.
LEMMA StartSyncStep ==
    ASSUME PipelineTypeOK, PipelineInv, NEW b \in Batch, StartSync(b)
    PROVE  PipelineTypeOK' /\ PipelineInv'
<1> DEFINE p == ProcessOf[b]
<1>1. /\ UNCHANGED <<slot, onDisk, pages, working, opened, batch, hurt>>
      /\ b \in barrier[p].waiting /\ barrier[p].leader = {} /\ ~ barrier[p].failed
      /\ barrier' = [barrier EXCEPT ![p].leader = {b}, ![p].tickets = barrier[p].waiting,
                                    ![p].writes = dirty[p]]
      /\ dirty' = [dirty EXCEPT ![p] = NoWrites]
  BY DEF StartSync
<1>2. p \in Process /\ barrier[p] \in Barrier /\ dirty[p] \in Writes
  BY BatchTyped DEF PipelineTypeOK
<1>3. /\ barrier' \in [Process -> Barrier] /\ \A q \in Process : q # p => barrier'[q] = barrier[q]
      /\ barrier'[p].waiting = barrier[p].waiting /\ barrier'[p].leader = {b}
      /\ barrier'[p].tickets = barrier[p].waiting /\ barrier'[p].writes = dirty[p]
      /\ barrier'[p].failed = barrier[p].failed
  BY <1>1, <1>2 DEF PipelineTypeOK, Barrier
<1>4. /\ dirty' \in [Process -> Writes] /\ dirty'[p] = NoWrites
      /\ \A q \in Process : q # p => dirty'[q] = dirty[q]
  BY <1>1, <1>2 DEF PipelineTypeOK, Writes, NoWrites
<1>5. PipelineTypeOK'
  BY <1>1, <1>3, <1>4 DEF PipelineTypeOK
<1>6. /\ RootInv' /\ NeverSelfCorrupt' /\ WorkingInv'
      /\ \A c \in Batch : StagedInv(c)' /\ ReadyInv(c)'
  <2>1. \A k \in Slot : slot[k] = Torn \/ slot[k] \in onDisk'[k]
    BY <1>1 DEF PipelineInv, RootInv
  <2>. QED
    BY <1>1, <1>5, <2>1, BarrierStep
<1>7. TicketInv(p) /\ barrier[p].writes = NoWrites
  BY <1>1, <1>2 DEF PipelineInv, BarrierInv, TicketInv
<1>8. /\ Unsynced(p).roots = dirty[p].roots /\ Unsynced(p)'.roots = dirty[p].roots
      /\ Unsynced(p).pages = dirty[p].pages /\ Unsynced(p)'.pages = dirty[p].pages
  BY <1>3, <1>4, <1>7 DEF Unsynced, NoWrites
<1>9. BarrierInv'
  <2>1. ASSUME NEW q \in Process PROVE TicketInv(q)'
    <3>1. CASE q # p
      BY <1>1, <1>3, <1>4, <3>1, TicketSame DEF PipelineInv, BarrierInv
    <3>2. CASE q = p
      BY <1>1, <1>3, <1>7, <1>8, <3>2 DEF TicketInv
    <3>. QED
      BY <3>1, <3>2
  <2>. QED
    BY <2>1 DEF BarrierInv
<1>10. ASSUME NEW c \in Batch PROVE PageInv(c)' /\ OwedInv(c)'
  <2>1. PageInv(c) /\ OwedInv(c) /\ ProcessOf[c] \in Process
    BY BatchTyped DEF PipelineInv, BatchInv
  <2>2. CASE ProcessOf[c] # p
    BY <1>1, <1>3, <1>4, <2>1, <2>2, PageKeep, OwedSame
  <2>3. CASE ProcessOf[c] = p
    BY <1>1, <1>3, <1>8, <2>1, <2>3 DEF PageInv, OwedInv
  <2>. QED
    BY <2>2, <2>3
<1>. QED
  BY <1>5, <1>6, <1>9, <1>10, Assemble

\* A sync fails, and with it the barrier.
LEMMA SyncErrorStep ==
    ASSUME PipelineTypeOK, PipelineInv, NEW b \in Batch, SyncError(b)
    PROVE  PipelineTypeOK' /\ PipelineInv'
<1> DEFINE p == ProcessOf[b]
<1>1. /\ UNCHANGED <<slot, onDisk, pages, working, dirty, opened, batch, hurt>>
      /\ barrier' = [barrier EXCEPT ![p].leader = {}, ![p].tickets = {},
                                    ![p].writes = NoWrites, ![p].failed = TRUE]
  BY DEF SyncError
<1>2. p \in Process /\ barrier[p] \in Barrier
  BY BatchTyped DEF PipelineTypeOK
<1>3. /\ barrier' \in [Process -> Barrier] /\ \A q \in Process : q # p => barrier'[q] = barrier[q]
      /\ barrier'[p].waiting = barrier[p].waiting /\ barrier'[p].leader = {}
      /\ barrier'[p].tickets = {} /\ barrier'[p].writes = NoWrites /\ barrier'[p].failed
  BY <1>1, <1>2 DEF PipelineTypeOK, Barrier, Writes, NoWrites
<1>4. PipelineTypeOK'
  BY <1>1, <1>3 DEF PipelineTypeOK
<1>5. /\ RootInv' /\ NeverSelfCorrupt' /\ WorkingInv'
      /\ \A c \in Batch : StagedInv(c)' /\ ReadyInv(c)'
  <2>1. \A k \in Slot : slot[k] = Torn \/ slot[k] \in onDisk'[k]
    BY <1>1 DEF PipelineInv, RootInv
  <2>. QED
    BY <1>1, <1>4, <2>1, BarrierStep
<1>6. BarrierInv'
  <2>1. ASSUME NEW q \in Process PROVE TicketInv(q)'
    <3>0. TicketInv(q)
      BY DEF PipelineInv, BarrierInv
    <3>1. CASE q # p
      BY <1>1, <1>3, <3>0, <3>1, TicketSame
    <3>2. CASE q = p
      <4>1. Unsynced(p)'.roots \subseteq Unsynced(p).roots
        BY <1>1, <1>3 DEF Unsynced, NoWrites
      <4>. QED
        BY <1>1, <1>3, <3>0, <3>2, <4>1 DEF TicketInv
    <3>. QED
      BY <3>1, <3>2
  <2>. QED
    BY <2>1 DEF BarrierInv
<1>7. ASSUME NEW c \in Batch PROVE PageInv(c)' /\ OwedInv(c)'
  <2>1. PageInv(c) /\ OwedInv(c) /\ ProcessOf[c] \in Process
    BY BatchTyped DEF PipelineInv, BatchInv
  <2>2. CASE ProcessOf[c] # p
    BY <1>1, <1>3, <2>1, <2>2, PageKeep, OwedSame
  <2>3. CASE ProcessOf[c] = p
    BY <1>1, <1>3, <2>1, <2>3 DEF PageInv, OwedInv
  <2>. QED
    BY <2>2, <2>3
<1>. QED
  BY <1>4, <1>5, <1>6, <1>7, Assemble

\* A sync succeeds: its tickets are answered, and what they wait for is durable.
LEMMA EndSyncStep ==
    ASSUME PipelineTypeOK, PipelineInv, NEW b \in Batch, EndSync(b)
    PROVE  PipelineTypeOK' /\ PipelineInv'
<1> DEFINE p == ProcessOf[b]
           done == barrier[p].writes
           pc == IF batch[b].pc = "pageSync" THEN "synced" ELSE "acked"
<1>1. /\ UNCHANGED <<slot, working, dirty, opened, hurt>> /\ barrier[p].leader = {b}
      /\ pages' = [c \in Batch |-> IF c \in done.pages THEN "durable" ELSE pages[c]]
      /\ onDisk' = [k \in Slot |->
            {s \in onDisk[k] : \A n \in done.roots : n % 2 = k => ~ Precedes(s, n)}]
      /\ barrier' = [barrier EXCEPT ![p].waiting = @ \ barrier[p].tickets, ![p].leader = {},
                                    ![p].tickets = {}, ![p].writes = NoWrites]
      /\ Goto(b, AfterSync(batch[b].pc))
  BY DEF EndSync, Covered
<1>2. p \in Process /\ barrier[p] \in Barrier /\ done.roots \subseteq Nat
  BY BatchTyped DEF PipelineTypeOK, Barrier, Writes
<1>3. /\ barrier' \in [Process -> Barrier] /\ \A q \in Process : q # p => barrier'[q] = barrier[q]
      /\ barrier'[p].waiting = barrier[p].waiting \ barrier[p].tickets
      /\ barrier'[p].leader = {} /\ barrier'[p].tickets = {} /\ barrier'[p].writes = NoWrites
      /\ barrier'[p].failed = barrier[p].failed
  BY <1>1, <1>2 DEF PipelineTypeOK, Barrier, Writes, NoWrites
<1>4. /\ TicketInv(p) /\ ~ barrier[p].failed /\ b \in barrier[p].tickets
      /\ b \in barrier[p].waiting /\ batch[b].pc \in {"pageSync", "rootSync"}
  BY <1>1, <1>2 DEF PipelineInv, BarrierInv, TicketInv
<1>5. AfterSync(batch[b].pc) = pc /\ pc \in Active \cup {"idle", "acked", "unknown", "duplicate"}
  BY <1>4 DEF AfterSync, Active
<1>6. /\ batch[b].pc = "pageSync" => pc = "synced"
      /\ batch[b].pc = "rootSync" => pc = "acked"
  OBVIOUS
<1> HIDE DEF pc, done
<1>7. /\ batch' \in [Batch -> [pc : Active \cup {"idle", "acked", "unknown", "duplicate"},
                               tree : Tree]]
      /\ batch'[b].pc = pc /\ (pc \in Active => batch'[b].tree = batch[b].tree)
      /\ \A c \in Batch \ {b} : batch'[c] = batch[c]
  BY <1>1, <1>5, GotoFacts
<1>8. /\ pages' \in [Batch -> {"none", "written", "durable", "lost"}]
      /\ \A c \in Batch : c \in done.pages \/ pages[c] = "durable" => pages'[c] = "durable"
  BY <1>1 DEF PipelineTypeOK
<1>9. /\ \A k \in Slot : onDisk'[k] \subseteq onDisk[k]
      /\ \A k \in Slot : \A s \in onDisk'[k] : \A n \in done.roots : n % 2 = k => ~ Precedes(s, n)
      /\ onDisk' \in [Slot -> SUBSET (Snapshot \cup {Empty, Torn})]
  BY <1>1 DEF PipelineTypeOK
<1>10. \A k \in Slot : slot[k] = Torn \/ slot[k] \in onDisk'[k]
  <2>1. SUFFICES ASSUME NEW k \in Slot, slot[k] # Torn PROVE slot[k] \in onDisk'[k]
    OBVIOUS
  <2>2. slot[k] \in onDisk[k]
    BY <2>1 DEF PipelineInv, RootInv
  <2>3. \A n \in done.roots : ~ Precedes(slot[n % 2], n)
    BY <1>4 DEF TicketInv, Unsynced, done
  <2>. QED
    BY <1>1, <2>2, <2>3
<1>11. PipelineTypeOK'
  BY <1>1, <1>3, <1>7, <1>8, <1>9 DEF PipelineTypeOK
<1>12. /\ RootInv' /\ NeverSelfCorrupt' /\ WorkingInv'
       /\ \A c \in Batch : StagedInv(c)' /\ ReadyInv(c)'
  <2>1. \A c \in Batch : batch[c].pc \in SpentPc => batch'[c].pc \in SpentPc
    BY <1>4, <1>6, <1>7 DEF SpentPc
  <2>2. \A c \in Batch : batch'[c].pc \in Active =>
               batch[c].pc \in Active /\ batch'[c].tree = batch[c].tree
    BY <1>4, <1>7 DEF Active
  <2>3. \A c \in Batch : batch'[c].pc = "ready" => batch[c].pc = "ready"
    BY <1>4, <1>6, <1>7
  <2>. QED
    BY <1>1, <1>8, <1>9, <1>10, <1>11, <2>1, <2>2, <2>3, BarrierStep
<1>13. BarrierInv'
  <2>1. ASSUME NEW q \in Process PROVE TicketInv(q)'
    <3>1. TicketInv(q) /\ barrier[q].waiting \subseteq Batch
      BY DEF PipelineInv, BarrierInv, PipelineTypeOK, Barrier
    <3>2. CASE q # p
      <4>1. b \notin barrier[q].waiting
        BY <3>1, <3>2 DEF TicketInv
      <4>. QED
        BY <1>1, <1>3, <1>7, <3>1, <3>2, <4>1, TicketSame
    <3>3. CASE q = p
      <4>1. Unsynced(p)'.roots \subseteq Unsynced(p).roots
        <5>1. dirty' = dirty
          BY <1>1
        <5>2. barrier'[p].writes = NoWrites /\ NoWrites.roots = {}
          BY <1>3 DEF NoWrites
        <5>. QED
          BY <5>1, <5>2 DEF Unsynced
      <4>2. \A c \in barrier'[p].waiting : batch'[c] = batch[c] /\ c \in barrier[p].waiting
        BY <1>3, <1>4, <1>7, <3>1, <3>3
      <4>. QED
        <5>1. \A n \in Unsynced(q)'.roots : ~ Precedes(slot'[n % 2], n)
          <6>1. slot' = slot /\ \A n \in Unsynced(q).roots : ~ Precedes(slot[n % 2], n)
            BY <1>1, <3>1 DEF TicketInv
          <6>2. Unsynced(q)'.roots \subseteq Unsynced(q).roots
            BY <3>3, <4>1
          <6>. QED
            BY <6>1, <6>2
        <5>2. \A c \in barrier'[q].waiting :
                 ProcessOf[c] = q /\ (batch'[c].pc \in {"pageSync", "rootSync"} \/ barrier'[q].failed)
          BY <1>3, <3>1, <3>3, <4>2 DEF TicketInv
        <5>3. /\ barrier'[q].leader = {} /\ barrier'[q].tickets = {}
              /\ barrier'[q].writes = NoWrites
          BY <1>3, <3>3
        <5>. QED
          BY <5>1, <5>2, <5>3, TicketNone
    <3>. QED
      BY <3>2, <3>3
  <2>. QED
    BY <2>1 DEF BarrierInv
<1>14. ASSUME NEW c, NEW R \in SUBSET Nat, NEW Q, R \subseteq Q \cup done.roots, Owed(c, onDisk, R)
       PROVE  Owed(c, onDisk', Q)
  <2>1. \A n \in R : n \in Q \/ \A s \in onDisk'[n % 2] : s = Torn \/ ~ Precedes(s, n)
    <3>1. \A n \in R : n % 2 \in Slot
      BY DEF Slot
    <3>. QED
      BY <1>9, <1>14, <3>1
  <2>. QED
    BY <1>9, <1>14, <2>1, OwedKeep
<1>15. ASSUME NEW c \in Batch PROVE PageInv(c)' /\ OwedInv(c)'
  <2>1. PageInv(c) /\ OwedInv(c) /\ ProcessOf[c] \in Process
    BY BatchTyped DEF PipelineInv, BatchInv
  <2>2. CASE ProcessOf[c] # p
    <3>1. c # b
      BY <2>2
    <3>. QED
      BY <1>1, <1>3, <1>7, <1>8, <1>9, <2>1, <2>2, <3>1, PageKeep, OwedSame
  <2>3. CASE ProcessOf[c] = p
    <3>1. /\ Unsynced(p).pages = dirty[p].pages \cup done.pages
          /\ Unsynced(p)'.pages = dirty[p].pages
          /\ Unsynced(p).roots = dirty[p].roots \cup done.roots
          /\ Unsynced(p)'.roots = dirty[p].roots
          /\ barrier[p].writes = done
      <4>1. dirty' = dirty
        BY <1>1
      <4>2. barrier'[p].writes = NoWrites /\ NoWrites.pages = {} /\ NoWrites.roots = {}
        BY <1>3 DEF NoWrites
      <4>3. barrier[p].writes = done
        BY DEF done
      <4>. QED
        BY <4>1, <4>2, <4>3 DEF Unsynced
    <3>2. dirty[p].roots \subseteq Nat
      BY <1>2 DEF PipelineTypeOK, Writes
    <3>3. /\ Owed(c, onDisk, Unsynced(p).roots) => Owed(c, onDisk', Unsynced(p)'.roots)
          /\ Owed(c, onDisk, barrier[p].writes.roots) => Owed(c, onDisk', {})
          /\ Owed(c, onDisk, {}) => Owed(c, onDisk', {})
      <4>1. Owed(c, onDisk, Unsynced(p).roots) => Owed(c, onDisk', Unsynced(p)'.roots)
        BY <1>2, <1>14, <3>1, <3>2
      <4>2. Owed(c, onDisk, barrier[p].writes.roots) => Owed(c, onDisk', {})
        BY <1>2, <1>14, <3>1
      <4>3. Owed(c, onDisk, {}) => Owed(c, onDisk', {})
        BY <1>14
      <4>. QED
        BY <4>1, <4>2, <4>3
    <3>4. CASE c # b
      <4>1. batch'[c] = batch[c] /\ ~ barrier'[p].failed /\ ~ barrier[p].failed
        BY <1>3, <1>4, <1>7, <3>4
      <4>2. PageInv(c)'
        BY <1>3, <1>8, <2>1, <2>3, <3>1, <4>1 DEF PageInv
      <4>3. OwedInv(c)'
        BY <1>3, <2>1, <2>3, <3>1, <3>3, <4>1 DEF OwedInv
      <4>. QED
        BY <4>2, <4>3
    <3>5. CASE c = b
      BY <1>4, <1>6, <1>7, <1>8, <2>1, <2>3, <3>1, <3>3, <3>5 DEF PageInv, OwedInv
    <3>. QED
      BY <3>4, <3>5
  <2>. QED
    BY <2>2, <2>3
<1>. QED
  BY <1>11, <1>12, <1>13, <1>15, Assemble

\* The root that readers get: it contains every other.
LEMMA PublishedFacts ==
    ASSUME PipelineTypeOK, RootInv, Readable(slot)
    PROVE  /\ Published \in Roots /\ Published \in Snapshot
           /\ Published.publication \in Nat /\ Published.publication >= 1
           /\ Published.tree \in Tree /\ Published.publication % 2 = NewerSlot(slot)
           /\ NewerSlot(slot) \in Slot /\ Published = slot[NewerSlot(slot)]
           /\ \A s \in Roots : /\ s.publication <= Published.publication
                                /\ IsPrefix(s.tree, Published.tree)
           /\ \A i \in 1..Len(Published.tree) : pages[Published.tree[i]] = "durable"
<1>1. slot \in [Slot -> SlotValues]
  BY RootsTyped
<1>2. /\ NewerSlot(slot) \in Slot /\ Published = slot[NewerSlot(slot)] /\ Published \in Snapshot
      /\ Published.publication \in 1..Generation(Published.tree)
      /\ Published.publication % 2 = NewerSlot(slot)
  BY <1>1, ReadableFacts DEF Published
<1>3. Published \in Roots
  BY <1>2, RootsTyped, SlotAssumption
<1>4. Published.publication \in Nat /\ Published.tree \in Tree
  BY <1>3, RootsTyped
<1>5. Published.publication >= 1
  BY <1>2, <1>4, GenerationFacts
<1>. QED
  BY <1>2, <1>3, <1>4, <1>5 DEF RootInv

\* The store is opened again: nothing runs, and the working state starts at the root.
LEMMA OpenStep ==
    ASSUME PipelineTypeOK, PipelineInv, NEW p \in Process, Open(p)
    PROVE  PipelineTypeOK' /\ PipelineInv'
<1> DEFINE t == Published.tree
<1>1. /\ UNCHANGED <<slot, onDisk, pages, dirty, batch, hurt>>
      /\ Running = {} /\ Readable(slot) /\ working' = FreshWorking(t)
      /\ barrier' = [barrier EXCEPT ![p] = NewBarrier] /\ opened' = opened \cup {p}
  BY DEF Open
<1>2. /\ t \in Tree /\ \A s \in Roots : IsPrefix(s.tree, t)
      /\ \A i \in 1..Len(t) : pages[t[i]] = "durable"
      /\ Len(t) \in Nat /\ Generation(t) = Len(t) + 1
  BY <1>1, PublishedFacts, GenerationFacts DEF PipelineInv
<1> HIDE DEF t
<1>3. /\ working' \in WorkingState /\ working'.tree = t /\ working'.durable = Generation(t)
      /\ working'.ready = {}
  BY <1>1, <1>2 DEF FreshWorking, WorkingState
<1>4. /\ barrier' \in [Process -> Barrier] /\ barrier'[p] = NewBarrier
      /\ \A q \in Process : q # p => barrier'[q] = barrier[q]
  BY <1>1 DEF PipelineTypeOK, Barrier, NewBarrier, Writes, NoWrites
<1>5. PipelineTypeOK'
  BY <1>1, <1>3, <1>4 DEF PipelineTypeOK
<1>6. RootInv' /\ Roots' \subseteq Roots
  <2>1. /\ \A k \in Slot : slot[k] = Torn \/ slot[k] \in onDisk'[k]
        /\ \A s \in Roots : \A i \in 1..Len(s.tree) : pages'[s.tree[i]] = "durable"
    BY <1>1 DEF PipelineInv, RootInv
  <2>. QED
    BY <1>1, <1>5, <2>1, RootSame DEF PipelineInv
<1>7. NeverSelfCorrupt'
  BY <1>1 DEF NeverSelfCorrupt, PipelineInv
<1>8. BarrierInv'
  <2>1. ASSUME NEW q \in Process PROVE TicketInv(q)'
    <3>0. TicketInv(q)
      BY DEF PipelineInv, BarrierInv
    <3>1. CASE q # p
      BY <1>1, <1>4, <3>0, <3>1, TicketSame
    <3>2. CASE q = p
      <4>1. Unsynced(p)'.roots \subseteq Unsynced(p).roots
        BY <1>1, <1>4 DEF Unsynced, NewBarrier, NoWrites
      <4>2. /\ barrier'[p].leader = {} /\ barrier'[p].tickets = {} /\ barrier'[p].waiting = {}
            /\ barrier'[p].writes = NoWrites
        BY <1>4 DEF NewBarrier
      <4>. QED
        BY <1>1, <3>0, <3>2, <4>1, <4>2 DEF TicketInv
    <3>. QED
      BY <3>1, <3>2
  <2>. QED
    BY <2>1 DEF BarrierInv
<1>9. ASSUME NEW c \in Batch PROVE StagedInv(c)' /\ PageInv(c)' /\ ReadyInv(c)' /\ OwedInv(c)'
  <2>1. PageInv(c) /\ OwedInv(c) /\ batch[c].pc \notin Active
    BY <1>1 DEF PipelineInv, BatchInv, Running
  <2>2. StagedInv(c)' /\ ReadyInv(c)'
    BY <1>1, <2>1 DEF StagedInv, ReadyInv, Active
  <2>3. PageInv(c)' /\ OwedInv(c)'
    BY <1>1, <2>1 DEF PageInv, OwedInv, Active
  <2>. QED
    BY <2>2, <2>3
<1>10. WorkingInv'
  <2>1. /\ Generation(t) \in 1..Generation(t) /\ Generation(t) - Generation(t) <= Window
        /\ \A i \in 1..(Generation(t) - 1) : pages[t[i]] = "durable"
    BY <1>2, PipelineAssumption
  <2>2. \A s \in Roots : IsPrefix(s.tree, t) /\ Generation(s.tree) <= Generation(t)
    BY <1>2, RootsTyped, PrefixEqual, GenerationFacts
  <2>. QED
    BY <1>1, <1>3, <1>6, <2>1, <2>2 DEF WorkingInv
<1>. QED
  BY <1>5, <1>6, <1>7, <1>8, <1>9, <1>10, Assemble

\* A process dies.
LEMMA KillStep ==
    ASSUME PipelineTypeOK, PipelineInv, NEW p \in Process, Kill(p)
    PROVE  PipelineTypeOK' /\ PipelineInv'
<1>1. /\ UNCHANGED <<slot, onDisk, pages, working, hurt>> /\ batch' = Ended({p})
      /\ barrier' = [barrier EXCEPT ![p] = NewBarrier]
      /\ dirty' = [dirty EXCEPT ![p] = NoWrites] /\ opened' = opened \ {p}
  BY DEF Kill
<1>2. /\ batch' \in [Batch -> [pc : Active \cup {"idle", "acked", "unknown", "duplicate"},
                               tree : Tree]]
      /\ \A c \in Batch : IF batch[c].pc \in Active /\ ProcessOf[c] \in {p}
                           THEN batch'[c].pc = "unknown" ELSE batch'[c] = batch[c]
  BY <1>1, EndedFacts
<1>3. /\ barrier' \in [Process -> Barrier] /\ barrier'[p] = NewBarrier
      /\ \A q \in Process : q # p => barrier'[q] = barrier[q]
  BY <1>1 DEF PipelineTypeOK, Barrier, NewBarrier, Writes, NoWrites
<1>4. /\ dirty' \in [Process -> Writes] /\ dirty'[p] = NoWrites
      /\ \A q \in Process : q # p => dirty'[q] = dirty[q]
  BY <1>1 DEF PipelineTypeOK, Writes, NoWrites
<1>5. PipelineTypeOK'
  BY <1>1, <1>2, <1>3, <1>4 DEF PipelineTypeOK
<1>6. RootInv' /\ Roots' \subseteq Roots
  <2>1. /\ \A k \in Slot : slot[k] = Torn \/ slot[k] \in onDisk'[k]
        /\ \A s \in Roots : \A i \in 1..Len(s.tree) : pages'[s.tree[i]] = "durable"
    BY <1>1 DEF PipelineInv, RootInv
  <2>2. \A c \in Batch : batch[c].pc \in SpentPc => batch'[c].pc \in SpentPc
    BY <1>2 DEF SpentPc
  <2>. QED
    BY <1>1, <1>5, <2>1, <2>2, RootSame DEF PipelineInv
<1>7. NeverSelfCorrupt'
  BY <1>1 DEF NeverSelfCorrupt, PipelineInv
<1>8. BarrierInv'
  <2>1. ASSUME NEW q \in Process PROVE TicketInv(q)'
    <3>0. TicketInv(q) /\ barrier[q].waiting \subseteq Batch
      BY DEF PipelineInv, BarrierInv, PipelineTypeOK, Barrier
    <3>1. CASE q # p
      <4>1. \A c \in barrier[q].waiting : batch'[c] = batch[c]
        BY <1>2, <3>0, <3>1 DEF TicketInv
      <4>. QED
        BY <1>1, <1>3, <1>4, <3>0, <3>1, <4>1, TicketSame
    <3>2. CASE q = p
      <4>1. Unsynced(p)'.roots = {}
        BY <1>3, <1>4 DEF Unsynced, NewBarrier, NoWrites
      <4>2. /\ barrier'[p].leader = {} /\ barrier'[p].tickets = {} /\ barrier'[p].waiting = {}
            /\ barrier'[p].writes = NoWrites
        BY <1>3 DEF NewBarrier
      <4>. QED
        BY <3>2, <4>1, <4>2 DEF TicketInv
    <3>. QED
      BY <3>1, <3>2
  <2>. QED
    BY <2>1 DEF BarrierInv
<1>9. \A c \in Batch : StagedInv(c)'
  <2>1. \A c \in Batch : batch'[c].pc \in Active =>
               /\ batch[c].pc \in Active /\ batch'[c].tree = batch[c].tree
               /\ ProcessOf[c] \in opened'
    BY <1>1, <1>2 DEF PipelineInv, BatchInv, StagedInv, Active
  <2>2. working' # Torn => working # Torn /\ IsPrefix(working.tree, working'.tree)
    BY <1>1, PrefixOrder DEF PipelineTypeOK, WorkingState
  <2>3. \A s \in Roots' : \E u \in Roots : s.tree = u.tree
    BY <1>6
  <2>. QED
    BY <1>5, <2>1, <2>2, <2>3, StagedKeep DEF PipelineInv, BatchInv
<1>10. ASSUME NEW c \in Batch PROVE PageInv(c)' /\ ReadyInv(c)' /\ OwedInv(c)'
  <2>1. PageInv(c) /\ OwedInv(c) /\ ReadyInv(c) /\ ProcessOf[c] \in Process
    BY BatchTyped DEF PipelineInv, BatchInv
  <2>2. CASE batch'[c].pc = "unknown"
    BY <2>2, EndedBatch
  <2>3. CASE batch'[c] = batch[c] /\ ProcessOf[c] # p
    <3>1. PageInv(c)' /\ OwedInv(c)'
      BY <1>1, <1>3, <1>4, <2>1, <2>3, PageKeep, OwedSame
    <3>2. ReadyInv(c)'
      BY <1>1, <2>1, <2>3 DEF ReadyInv
    <3>. QED
      BY <3>1, <3>2
  <2>4. CASE batch'[c] = batch[c] /\ batch[c].pc \notin Active
    BY <1>1, <2>1, <2>4 DEF PageInv, ReadyInv, OwedInv, Active
  <2>. QED
    BY <1>2, <2>2, <2>3, <2>4
<1>11. WorkingInv'
  BY <1>1, <1>5, <1>6, WorkingKeep DEF PipelineInv
<1>. QED
  BY <1>5, <1>6, <1>7, <1>8, <1>9, <1>10, <1>11, Assemble

\* The root a ready batch publishes: it goes into the slot of the older root, contains
\* the newer one and the batch, and is durable.
LEMMA NextRootFacts ==
    ASSUME PipelineTypeOK, PipelineInv, NEW b \in Batch, batch[b].pc = "ready", Readable(slot)
    PROVE  LET root == NextRoot(b)
           IN  /\ root \in Snapshot /\ root.tree \in Tree
               /\ root.publication = Published.publication + 1
               /\ root.publication \in Nat /\ root.publication % 2 \in Slot
               /\ root.publication % 2 = 1 - NewerSlot(slot)
               /\ IsPrefix(Published.tree, root.tree)
               /\ \E j \in 1..Len(root.tree) : root.tree[j] = b
               /\ root.tree \in {batch[b].tree, Published.tree}
               /\ \A i \in 1..Len(root.tree) : pages[root.tree[i]] = "durable"
<1> DEFINE root == NextRoot(b)
           t == batch[b].tree
           u == Published.tree
<1>1. /\ Published \in Roots /\ Published.publication \in Nat /\ Published.publication >= 1
      /\ u \in Tree /\ Published.publication % 2 = NewerSlot(slot) /\ NewerSlot(slot) \in Slot
      /\ \A i \in 1..Len(u) : pages[u[i]] = "durable"
  BY PublishedFacts DEF PipelineInv
<1>2. /\ t \in Tree /\ t # <<>> /\ t[Len(t)] = b /\ Comparable(u, t)
      /\ \A i \in 1..Len(t) : pages[t[i]] = "durable"
  BY <1>1, BatchTyped DEF PipelineInv, BatchInv, StagedInv, ReadyInv, Active
<1>3. Len(t) \in Nat /\ Len(t) >= 1 /\ Len(u) \in Nat
  BY <1>1, <1>2 DEF Tree
<1>4. /\ root.publication = Published.publication + 1
      /\ root.tree = IF Generation(u) < Generation(t) THEN t ELSE u
      /\ root = [publication |-> root.publication, tree |-> root.tree]
  BY DEF NextRoot
<1> HIDE DEF root, t, u
<1>5. CASE Generation(u) < Generation(t)
  <2>1. root.tree = t /\ Len(u) <= Len(t)
    BY <1>1, <1>2, <1>3, <1>4, <1>5, GenerationFacts
  <2>2. IsPrefix(u, t)
    BY <1>1, <1>2, <2>1, ComparableShorter
  <2>3. /\ root.tree \in Tree /\ IsPrefix(u, root.tree) /\ root.tree \in {t, u}
        /\ \E j \in 1..Len(root.tree) : root.tree[j] = b
        /\ \A i \in 1..Len(root.tree) : pages[root.tree[i]] = "durable"
    BY <1>2, <1>3, <2>1, <2>2
  <2>4. root \in Snapshot /\ root.publication \in Nat
    BY <1>1, <1>4, <2>3 DEF Snapshot
  <2>5. root.publication % 2 = 1 - NewerSlot(slot) /\ root.publication % 2 \in Slot
    BY <1>1, <1>4 DEF Slot
  <2>. QED
    BY <1>4, <2>3, <2>4, <2>5 DEF root, t, u
<1>6. CASE ~ (Generation(u) < Generation(t))
  <2>1. root.tree = u /\ Len(t) <= Len(u)
    BY <1>1, <1>2, <1>3, <1>4, <1>6, GenerationFacts
  <2>2. IsPrefix(t, u) /\ IsPrefix(u, u)
    BY <1>1, <1>2, <2>1, ComparableShorter, PrefixOrder DEF Comparable
  <2>3. Len(t) \in 1..Len(u) /\ u[Len(t)] = b
    BY <1>2, <1>3, <2>1, <2>2 DEF IsPrefix
  <2>4. /\ root.tree \in Tree /\ IsPrefix(u, root.tree) /\ root.tree \in {t, u}
        /\ \E j \in 1..Len(root.tree) : root.tree[j] = b
        /\ \A i \in 1..Len(root.tree) : pages[root.tree[i]] = "durable"
    BY <1>1, <2>1, <2>2, <2>3
  <2>5. root \in Snapshot /\ root.publication \in Nat
    BY <1>1, <1>4, <2>4 DEF Snapshot
  <2>6. root.publication % 2 = 1 - NewerSlot(slot) /\ root.publication % 2 \in Slot
    BY <1>1, <1>4 DEF Slot
  <2>. QED
    BY <1>4, <2>4, <2>5, <2>6 DEF root, t, u
<1>. QED
  BY <1>5, <1>6

\* Writing it uses up the batch, keeps the slots in step and makes it the published root.
LEMMA PublishEffect ==
    ASSUME PipelineTypeOK, PipelineInv, PipelineTypeOK', NEW b \in Batch,
           batch[b].pc = "ready", Readable(slot), NEW root, root = NextRoot(b),
           slot' = [slot EXCEPT ![root.publication % 2] = root],
           onDisk' = [onDisk EXCEPT ![root.publication % 2] = @ \cup {root}],
           pages' = pages, batch'[b].pc \in SpentPc,
           \A c \in Batch \ {b} : batch'[c] = batch[c]
    PROVE  /\ RootInv' /\ Readable(slot)' /\ Published' = root
           /\ Roots' \subseteq Roots \cup {root}
<1> DEFINE k == root.publication % 2
           P == Published.publication
           u == Published.tree
<1>1. /\ root \in Snapshot /\ root.tree \in Tree /\ root.publication = P + 1
      /\ root.publication \in Nat /\ k \in Slot /\ k = 1 - NewerSlot(slot)
      /\ IsPrefix(u, root.tree) /\ \E j \in 1..Len(root.tree) : root.tree[j] = b
      /\ \A i \in 1..Len(root.tree) : pages[root.tree[i]] = "durable"
  BY NextRootFacts
<1>2. /\ Published \in Roots /\ P \in Nat /\ P >= 1 /\ u \in Tree
      /\ Published \in Snapshot /\ P % 2 = NewerSlot(slot) /\ NewerSlot(slot) \in Slot
      /\ Published = slot[NewerSlot(slot)]
      /\ \A s \in Roots : s.publication <= P /\ IsPrefix(s.tree, u)
  BY PublishedFacts DEF PipelineInv
<1>3. /\ slot'[k] = root /\ slot'[1 - k] = Published /\ 1 - k \in Slot /\ 1 - k = NewerSlot(slot)
      /\ onDisk'[k] = onDisk[k] \cup {root} /\ onDisk'[1 - k] = onDisk[1 - k]
      /\ slot'[1 - k] = slot[1 - k]
  BY <1>1, <1>2 DEF PipelineTypeOK, Slot
<1>4. Roots' \subseteq Roots \cup {root} /\ root \in Roots'
  <2>1. root # Empty /\ root # Torn
    BY <1>1, SlotAssumption
  <2>2. \A j \in Slot : slot'[j] \in {slot[j], root} /\ onDisk'[j] \subseteq onDisk[j] \cup {root}
    BY DEF PipelineTypeOK
  <2>3. root \in {slot'[0], slot'[1]}
    BY <1>1, <1>3 DEF Slot
  <2> HIDE DEF k
  <2>. QED
    BY <2>1, <2>2, <2>3 DEF Roots, Slot
<1> HIDE DEF k, P, u
<1>5. root.publication <= Cardinality(Spent(root.tree)') + 1
  <2>1. PICK j \in 1..Len(root.tree) : root.tree[j] = b
    BY <1>1
  <2> DEFINE S == Spent(u)
  <2>2. \A c \in Batch : batch[c].pc \in SpentPc => batch'[c].pc \in SpentPc
    OBVIOUS
  <2>3. /\ IsFiniteSet(S) /\ Cardinality(S) \in Nat
        /\ IsFiniteSet(Spent(root.tree)') /\ Cardinality(Spent(root.tree)') \in Nat
    BY <1>1, <1>2, <2>2, SpentGrows
  <2>4. Len(u) \in Nat /\ Len(root.tree) \in Nat /\ \A i \in 1..Len(u) : u[i] \in Batch
    BY <1>1, <1>2 DEF Tree
  <2>5. \A i \in S : i \in 1..Len(root.tree) /\ root.tree[i] = u[i] /\ batch'[u[i]].pc \in SpentPc
    BY <1>1, <2>2, <2>4 DEF Spent, SpentPc, IsPrefix
  <2>6. j \notin S
    BY <1>1, <2>1 DEF Spent, IsPrefix
  <2>7. S \cup {j} \subseteq Spent(root.tree)'
    BY <2>1, <2>5 DEF Spent, SpentPc
  <2> HIDE DEF S
  <2>8. IsFiniteSet(S \cup {j}) /\ Cardinality(S \cup {j}) = Cardinality(S) + 1
    BY <2>3, <2>6, FS_AddElement
  <2>9. Cardinality(S) + 1 <= Cardinality(Spent(root.tree)')
    BY <2>3, <2>7, <2>8, FS_Subset
  <2>10. P <= Cardinality(S) + 1
    BY <1>2 DEF PipelineInv, RootInv, P, u, S
  <2>. QED
    BY <1>1, <1>2, <2>3, <2>9, <2>10
<1>6. Readable(slot)' /\ Published' = root
  <2>1. Cardinality(Spent(root.tree)') \in Nat /\ Cardinality(Spent(root.tree)') <= Len(root.tree)
    BY <1>1, SpentGrows
  <2>2. root.publication \in 1..Generation(root.tree)
    <3>1. Generation(root.tree) = Len(root.tree) + 1 /\ Len(root.tree) \in Nat
      BY <1>1, GenerationFacts
    <3>2. root.publication \in Nat /\ root.publication >= 1
      BY <1>1, <1>2
    <3>3. root.publication <= Len(root.tree) + 1
      BY <1>5, <2>1, <3>1, <3>2
    <3>. QED
      BY <3>1, <3>2, <3>3
  <2>3. P \in 1..Generation(u) /\ Published.publication = P /\ Published.tree = u
    BY RootsTyped, ReadableFacts DEF Published, P, u
  <2>4. /\ \A j \in Slot : /\ slot'[j].publication \in 1..Generation(slot'[j].tree)
                            /\ slot'[j].publication % 2 = j
        /\ slot'[0] \in Snapshot /\ slot'[1] \in Snapshot
    <3>1. \A j \in Slot : j = k \/ j = 1 - k
      BY <1>1 DEF Slot
    <3>2. root.publication % 2 = k /\ P % 2 = 1 - k
      BY <1>2, <1>3 DEF k
    <3>3. \A j \in Slot : /\ slot'[j].publication \in 1..Generation(slot'[j].tree)
                           /\ slot'[j].publication % 2 = j /\ slot'[j] \in Snapshot
      BY <1>1, <1>2, <1>3, <2>2, <2>3, <3>1, <3>2
    <3>. QED
      BY <3>3 DEF Slot
  <2>5. /\ slot'[k].publication = slot'[1 - k].publication + 1
        /\ IsPrefix(slot'[1 - k].tree, slot'[k].tree)
    BY <1>1, <1>3, <2>3
  <2>6. Readable(slot') /\ Latest(slot') = slot'[k]
    <3> DEFINE f == slot'
    <3>1. /\ f[0] \in Snapshot /\ f[1] \in Snapshot /\ k \in Slot
          /\ \A j \in Slot : /\ f[j].publication \in 1..Generation(f[j].tree)
                              /\ f[j].publication % 2 = j
          /\ f[k].publication = f[1 - k].publication + 1 /\ IsPrefix(f[1 - k].tree, f[k].tree)
      BY <1>1, <2>4, <2>5
    <3> HIDE DEF f
    <3>2. Readable(f) /\ Latest(f) = f[k]
      BY <3>1, ReadablePair, Zenon
    <3>. QED
      BY <3>2 DEF f
  <2>. QED
    BY <1>3, <2>6 DEF Published
<1>7. /\ \A j \in Slot : IsFiniteSet(onDisk'[j]) /\ (slot'[j] = Torn \/ slot'[j] \in onDisk'[j])
      /\ Empty \notin onDisk'[1]
      /\ \A j \in Slot : \A s \in onDisk'[j] \ {Empty, Torn} :
             s.publication >= 1 /\ s.publication % 2 = j
  <2>1. /\ \A j \in Slot : IsFiniteSet(onDisk[j]) /\ (slot[j] = Torn \/ slot[j] \in onDisk[j])
        /\ Empty \notin onDisk[1]
        /\ \A j \in Slot : \A s \in onDisk[j] \ {Empty, Torn} :
               s.publication >= 1 /\ s.publication % 2 = j
    BY DEF PipelineInv, RootInv
  <2>2. \A j \in Slot : j = k \/ j = 1 - k
    BY <1>1 DEF Slot
  <2>3. IsFiniteSet(onDisk[k] \cup {root}) /\ root # Empty
    BY <1>1, <2>1, FS_AddElement, SlotAssumption
  <2>4. root.publication >= 1 /\ root.publication % 2 = k
    BY <1>1, <1>2 DEF k
  <2>5. \A j \in Slot : IsFiniteSet(onDisk'[j]) /\ (slot'[j] = Torn \/ slot'[j] \in onDisk'[j])
    BY <1>1, <1>3, <2>1, <2>2, <2>3
  <2>6. Empty \notin onDisk'[1]
    <3>1. 1 \in Slot
      BY DEF Slot
    <3>2. 1 = k \/ 1 = 1 - k
      BY <2>2, <3>1
    <3>. QED
      BY <1>3, <2>1, <2>3, <3>2
  <2>7. \A j \in Slot : \A s \in onDisk'[j] \ {Empty, Torn} :
             s.publication >= 1 /\ s.publication % 2 = j
    <3>1. SUFFICES ASSUME NEW j \in Slot, NEW s \in onDisk'[j] \ {Empty, Torn}
                   PROVE  s.publication >= 1 /\ s.publication % 2 = j
      OBVIOUS
    <3>2. CASE j = k
      BY <1>3, <2>1, <2>4, <3>2
    <3>3. CASE j = 1 - k
      BY <1>3, <2>1, <3>3
    <3>. QED
      BY <2>2, <3>2, <3>3
  <2>. QED
    BY <2>5, <2>6, <2>7
<1>8. ASSUME NEW s \in Roots'
      PROVE  /\ \A i \in 1..Len(s.tree) : pages'[s.tree[i]] = "durable"
             /\ s.publication <= Cardinality(Spent(s.tree)') + 1
             /\ s.publication = 1 => s.tree = <<>>
             /\ s.publication <= root.publication /\ IsPrefix(s.tree, root.tree)
  <2>1. CASE s = root
    BY <1>1, <1>2, <1>5, <2>1, PrefixOrder
  <2>2. CASE s \in Roots
    <3>1. s.publication \in Nat /\ s.tree \in Tree
      BY <2>2, RootsTyped
    <3>2. s.publication <= Cardinality(Spent(s.tree)) + 1
      BY <2>2 DEF PipelineInv, RootInv
    <3>3. /\ Cardinality(Spent(s.tree)) \in Nat /\ Cardinality(Spent(s.tree)') \in Nat
          /\ Cardinality(Spent(s.tree)) <= Cardinality(Spent(s.tree)')
      BY <3>1, SpentGrows
    <3>4. s.publication <= root.publication /\ IsPrefix(s.tree, root.tree)
      BY <1>1, <1>2, <2>2, <3>1, PrefixOrder
    <3>5. /\ \A i \in 1..Len(s.tree) : pages'[s.tree[i]] = "durable"
          /\ s.publication = 1 => s.tree = <<>>
      BY <2>2 DEF PipelineInv, RootInv
    <3>. QED
      BY <3>1, <3>2, <3>3, <3>4, <3>5
  <2>. QED
    BY <1>4, <2>1, <2>2
<1>9. ASSUME NEW s \in Roots', NEW v \in Roots', s.publication <= v.publication
      PROVE  IsPrefix(s.tree, v.tree)
  <2>1. CASE v = root
    BY <1>8, <2>1
  <2>2. CASE v \in Roots /\ s \in Roots
    BY <1>9, <2>2 DEF PipelineInv, RootInv
  <2>3. CASE v \in Roots /\ s = root
    BY <1>1, <1>2, <1>9, <2>3, RootsTyped
  <2>. QED
    BY <1>4, <2>1, <2>2, <2>3
<1>10. RootInv'
  BY <1>6, <1>7, <1>8, <1>9 DEF RootInv
<1>. QED
  BY <1>4, <1>6, <1>10

\* A new root takes from no batch what is owed to it.
LEMMA OwedPublish ==
    ASSUME PipelineTypeOK, PipelineInv, Readable(slot), NEW b \in Batch, batch[b].pc = "ready",
           NEW c, NEW R, NEW Q, NEW E, Owed(c, onDisk, R), R \subseteq Q,
           \A n \in R : ~ Precedes(slot[n % 2], n),
           \A j \in Slot : E[j] \subseteq onDisk[j] \cup {NextRoot(b), Torn}
    PROVE  Owed(c, E, Q)
<1>1. PICK j \in Slot : \A s \in onDisk[j] \ {Torn} :
        \/ \E n \in R : n % 2 = j /\ Precedes(s, n)
        \/ s # Empty /\ Holds(s.tree, c)
  BY DEF Owed
<1>2. slot[j] \in onDisk[j] /\ slot[j] # Torn
  BY RootsTyped, ReadableFacts DEF PipelineInv, RootInv
<1>3. slot[j] # Empty /\ Holds(slot[j].tree, c)
  BY <1>1, <1>2
<1>4. slot[j] \in Roots /\ slot[j].tree \in Tree
  BY <1>2, <1>3, RootsTyped
<1>5. IsPrefix(slot[j].tree, Published.tree) /\ Published.tree \in Tree
  BY <1>4, PublishedFacts DEF PipelineInv
<1>6. /\ NextRoot(b).tree \in Tree /\ IsPrefix(Published.tree, NextRoot(b).tree)
      /\ NextRoot(b) # Empty
  BY NextRootFacts, SlotAssumption
<1>7. Holds(NextRoot(b).tree, c)
  BY <1>3, <1>4, <1>5, <1>6, PrefixHolds
<1>8. \A s \in E[j] \ {Torn} :
        \/ \E n \in Q : n % 2 = j /\ Precedes(s, n)
        \/ s # Empty /\ Holds(s.tree, c)
  BY <1>1, <1>6, <1>7
<1>. QED
  BY <1>8 DEF Owed

\* Nothing that a process is about to sync precedes what is written over it.
LEMMA NotPreceded ==
    ASSUME PipelineTypeOK, PipelineInv, Readable(slot), NEW b \in Batch, batch[b].pc = "ready",
           NEW root, root = NextRoot(b), NEW left \in {root, Torn, slot[root.publication % 2]},
           slot' = [slot EXCEPT ![root.publication % 2] = left],
           NEW n \in Nat, ~ Precedes(slot[n % 2], n)
    PROVE  ~ Precedes(slot'[n % 2], n)
<1> DEFINE k == root.publication % 2
<1>1. /\ root \in Snapshot /\ root.publication = Published.publication + 1
      /\ root.publication \in Nat /\ k \in Slot
  BY NextRootFacts
<1>2. n % 2 \in Slot
  BY DEF Slot
<1>3. CASE n % 2 # k
  BY <1>2, <1>3 DEF PipelineTypeOK
<1>4. CASE n % 2 = k
  <2>1. slot'[n % 2] = left
    BY <1>1, <1>4 DEF PipelineTypeOK
  <2>2. CASE left = root
    <3>1. slot[k] # Torn /\ slot[k] # Empty
      BY <1>1, <1>4, RootsTyped, ReadableFacts DEF Precedes
    <3>2. slot[k] \in Roots /\ slot[k].publication \in Nat /\ ~ (slot[k].publication < n)
      BY <1>1, <1>4, <3>1, RootsTyped DEF Precedes
    <3>3. slot[k].publication <= Published.publication /\ Published.publication \in Nat
      BY <3>2, PublishedFacts DEF PipelineInv
    <3>4. root # Empty /\ ~ (root.publication < n)
      BY <1>1, <3>2, <3>3, SlotAssumption
    <3>. QED
      BY <2>1, <2>2, <3>4 DEF Precedes
  <2>3. CASE left = Torn
    BY <2>1, <2>3, SlotAssumption DEF Precedes
  <2>4. CASE left = slot[k]
    BY <1>4, <2>1, <2>4
  <2>. QED
    BY <2>2, <2>3, <2>4
<1>. QED
  BY <1>3, <1>4

\* The write of a root, done in full, in part or not at all.
LEMMA WriteRoot ==
    ASSUME PipelineTypeOK, PipelineInv, PipelineTypeOK', NEW b \in Batch,
           batch[b].pc = "ready", Readable(slot), NEW root, root = NextRoot(b),
           NEW left \in {root, Torn, slot[root.publication % 2]},
           slot' = [slot EXCEPT ![root.publication % 2] = left],
           onDisk' = [onDisk EXCEPT ![root.publication % 2] = @ \cup {left}],
           left = Torn => hurt', pages' = pages, barrier' = barrier, opened' = opened,
           \A q \in Process : dirty[q].pages \subseteq dirty'[q].pages,
           \A q \in Process : dirty[q].roots \subseteq dirty'[q].roots,
           \A q \in Process : dirty'[q].roots \subseteq
               dirty[q].roots \cup (IF left = root THEN {root.publication} ELSE {}),
           \A c \in Batch \ {b} : batch'[c] = batch[c],
           batch'[b].pc \in {"published", "unknown"},
           batch'[b].pc = "published" => batch'[b].tree = batch[b].tree,
           working' # Torn => /\ working # Torn /\ working'.tree = working.tree
                              /\ working'.durable = working.durable
                              /\ working'.ready = working.ready
    PROVE  /\ RootInv' /\ NeverSelfCorrupt' /\ BarrierInv' /\ WorkingInv'
           /\ \A c \in Batch : StagedInv(c)'
           /\ \A c \in Batch \ {b} : PageInv(c)' /\ ReadyInv(c)' /\ OwedInv(c)'
           /\ Readable(slot)' => IsPrefix(Published.tree, Published'.tree)
<1> DEFINE k == root.publication % 2
<1>0. batch'[b].pc \in SpentPc /\ \A c \in Batch : batch[c].pc \in SpentPc => batch'[c].pc \in SpentPc
  BY DEF SpentPc
<1>1. /\ root \in Snapshot /\ k \in Slot /\ root.tree \in {batch[b].tree, Published.tree}
      /\ IsPrefix(Published.tree, root.tree)
  BY NextRootFacts
<1>2. /\ slot'[k] = left /\ onDisk'[k] = onDisk[k] \cup {left}
      /\ \A j \in Slot : j # k => slot'[j] = slot[j] /\ onDisk'[j] = onDisk[j]
  BY <1>1 DEF PipelineTypeOK
<1>3. /\ \A j \in Slot : slot[j] # Torn /\ slot[j] \in onDisk[j]
      /\ Published \in Roots /\ Published.tree \in Tree
  BY RootsTyped, ReadableFacts, PublishedFacts DEF PipelineInv, RootInv
<1>4. /\ RootInv' /\ NeverSelfCorrupt' /\ Roots' \subseteq Roots \cup {root}
      /\ Readable(slot)' => IsPrefix(Published.tree, Published'.tree)
  <2>1. CASE left = root
    <3>1. RootInv' /\ Readable(slot)' /\ Published' = root /\ Roots' \subseteq Roots \cup {root}
      BY <1>0, <2>1, PublishEffect
    <3>. QED
      BY <1>1, <3>1 DEF NeverSelfCorrupt
  <2>2. CASE left = Torn
    <3>1. ~ Readable(slot') /\ hurt'
      BY <1>1, <1>2, <2>2, SlotAssumption DEF Readable, Decodes
    <3>2. /\ \A j \in Slot : onDisk'[j] \subseteq onDisk[j] \cup {Torn}
          /\ \A j \in Slot : slot'[j] = Torn \/ slot'[j] \in onDisk'[j]
          /\ \A s \in Roots : \A i \in 1..Len(s.tree) : pages'[s.tree[i]] = "durable"
      BY <1>2, <1>3, <2>2 DEF PipelineInv, RootInv
    <3>3. ~ Readable(slot)'
      BY <3>1
    <3>4. RootInv' /\ Roots' \subseteq Roots
      BY <1>0, <3>2, <3>3, RootKeep DEF PipelineInv
    <3>. QED
      BY <3>1, <3>3, <3>4 DEF NeverSelfCorrupt
  <2>3. CASE left = slot[k]
    <3>1. slot' = slot /\ onDisk' = onDisk
      BY <1>1, <1>3, <2>3 DEF PipelineTypeOK
    <3>2. /\ \A j \in Slot : slot[j] = Torn \/ slot[j] \in onDisk'[j]
          /\ \A s \in Roots : \A i \in 1..Len(s.tree) : pages'[s.tree[i]] = "durable"
      BY <1>3, <3>1 DEF PipelineInv, RootInv
    <3>3. RootInv' /\ Roots' \subseteq Roots
      BY <1>0, <3>1, <3>2, RootSame DEF PipelineInv
    <3>4. Readable(slot)' /\ Published' = Published
      BY <3>1 DEF Published
    <3>. QED
      BY <1>3, <3>3, <3>4, PrefixOrder DEF NeverSelfCorrupt
  <2>. QED
    BY <2>1, <2>2, <2>3
<1>5. BarrierInv'
  <2>1. ASSUME NEW q \in Process PROVE TicketInv(q)'
    <3>1. TicketInv(q) /\ barrier[q].waiting \subseteq Batch
      BY DEF PipelineInv, BarrierInv, PipelineTypeOK, Barrier
    <3>2. \A c \in barrier[q].waiting : batch'[c].pc \in {"pageSync", "rootSync"} \/ barrier[q].failed
      BY <3>1 DEF TicketInv
    <3>3. ASSUME NEW n \in Unsynced(q)'.roots PROVE ~ Precedes(slot'[n % 2], n)
      <4>1. n \in Nat
        BY DEF PipelineTypeOK, Unsynced, Barrier, Writes
      <4>2. CASE n \in Unsynced(q).roots
        <5>1. ~ Precedes(slot[n % 2], n)
          BY <3>1, <4>2 DEF TicketInv
        <5>. QED
          BY <4>1, <5>1, NotPreceded
      <4>3. CASE n \notin Unsynced(q).roots
        <5>1. n = root.publication /\ left = root
          BY <4>3 DEF Unsynced
        <5>2. slot'[n % 2] = root
          BY <1>2, <5>1
        <5>3. root # Empty /\ ~ (root.publication < root.publication)
          BY <1>1, <4>1, <5>1, SlotAssumption
        <5>. QED
          BY <5>1, <5>2, <5>3 DEF Precedes
      <4>. QED
        BY <4>2, <4>3
    <3>. QED
      BY <3>1, <3>2, <3>3 DEF TicketInv
  <2>. QED
    BY <2>1 DEF BarrierInv
<1>6. \A s \in Roots' : \E u \in Roots : s.tree = u.tree \/ s.tree = batch[b].tree
  BY <1>1, <1>3, <1>4
<1>7. \A c \in Batch : StagedInv(c)'
  <2>1. b \in Running
    BY DEF Running, Active
  <2>2. \A c \in Batch : batch'[c].pc \in Active =>
               /\ batch[c].pc \in Active /\ batch'[c].tree = batch[c].tree
               /\ ProcessOf[c] \in opened'
    BY DEF PipelineInv, BatchInv, StagedInv, Active
  <2>3. working' # Torn => working # Torn /\ IsPrefix(working.tree, working'.tree)
    BY PrefixOrder DEF PipelineTypeOK, WorkingState
  <2>. QED
    BY <1>6, <2>1, <2>2, <2>3, StagedKeep DEF PipelineInv, BatchInv
<1>8. WorkingInv'
  <2>1. working # Torn => /\ IsPrefix(batch[b].tree, working.tree)
                          /\ Generation(batch[b].tree) <= working.durable
    BY DEF PipelineInv, BatchInv, StagedInv, ReadyInv, Active
  <2>. QED
    BY <1>6, <2>1, WorkingKeep DEF PipelineInv
<1>9. ASSUME NEW c \in Batch \ {b} PROVE PageInv(c)' /\ ReadyInv(c)' /\ OwedInv(c)'
  <2>1. PageInv(c) /\ ReadyInv(c) /\ OwedInv(c) /\ ProcessOf[c] \in Process /\ batch'[c] = batch[c]
    BY BatchTyped DEF PipelineInv, BatchInv
  <2>2. PageInv(c)'
    BY <2>1, PageKeep
  <2>3. ReadyInv(c)'
    BY <2>1 DEF ReadyInv
  <2>4. OwedInv(c)'
    <3> DEFINE q == ProcessOf[c]
    <3>1. TicketInv(q)
      BY <2>1 DEF PipelineInv, BarrierInv
    <3>2. \A n \in Unsynced(q).roots : ~ Precedes(slot[n % 2], n)
      BY <3>1 DEF TicketInv
    <3>3. \A j \in Slot : onDisk'[j] \subseteq onDisk[j] \cup {NextRoot(b), Torn}
      <4>1. SUFFICES ASSUME NEW j \in Slot
                     PROVE  onDisk'[j] \subseteq onDisk[j] \cup {NextRoot(b), Torn}
        OBVIOUS
      <4>2. CASE j # k
        BY <1>2, <4>2
      <4>3. CASE j = k
        BY <1>2, <1>3, <4>3
      <4>. QED
        BY <4>2, <4>3
    <3>4. Unsynced(q).roots \subseteq Unsynced(q)'.roots /\ barrier[q].writes.roots \subseteq Unsynced(q).roots
      BY <2>1 DEF Unsynced
    <3>5. ASSUME NEW R, NEW Q, R \subseteq Q, R \subseteq Unsynced(q).roots, Owed(c, onDisk, R)
          PROVE  Owed(c, onDisk', Q)
      BY <3>2, <3>3, <3>5, OwedPublish
    <3>6. Owed(c, onDisk, Unsynced(q).roots) => Owed(c, onDisk', Unsynced(q)'.roots)
      BY <3>4, <3>5
    <3>7. Owed(c, onDisk, barrier[q].writes.roots) => Owed(c, onDisk', barrier[q].writes.roots)
      BY <3>4, <3>5
    <3>8. Owed(c, onDisk, {}) => Owed(c, onDisk', {})
      <4> DEFINE none == {}
      <4>1. none \subseteq none /\ none \subseteq Unsynced(q).roots
        OBVIOUS
      <4> HIDE DEF none
      <4>2. Owed(c, onDisk, none) => Owed(c, onDisk', none)
        BY <3>5, <4>1
      <4>. QED
        BY <4>2 DEF none
    <3>. QED
      BY <2>1, <3>6, <3>7, <3>8 DEF OwedInv
  <2>. QED
    BY <2>2, <2>3, <2>4
<1>. QED
  BY <1>4, <1>5, <1>7, <1>8, <1>9

\* The typed parts of writing a root.
LEMMA PublishTypes ==
    ASSUME PipelineTypeOK, PipelineInv, NEW b \in Batch, batch[b].pc = "ready", Readable(slot),
           NEW left \in {NextRoot(b), Torn, slot[NextRoot(b).publication % 2]}
    PROVE  LET k == NextRoot(b).publication % 2
           IN  /\ [slot EXCEPT ![k] = left] \in [Slot -> Snapshot \cup {Empty, Torn}]
               /\ [onDisk EXCEPT ![k] = @ \cup {left}]
                     \in [Slot -> SUBSET (Snapshot \cup {Empty, Torn})]
<1>1. NextRoot(b) \in Snapshot /\ NextRoot(b).publication % 2 \in Slot
  BY NextRootFacts
<1>2. left \in Snapshot \cup {Empty, Torn}
  BY <1>1 DEF PipelineTypeOK
<1>. QED
  BY <1>1, <1>2 DEF PipelineTypeOK

\* A ready batch publishes.
LEMMA PublishStep ==
    ASSUME PipelineTypeOK, PipelineInv, NEW b \in Batch, Publish(b)
    PROVE  /\ PipelineTypeOK' /\ PipelineInv'
           /\ Readable(slot)' => IsPrefix(Published.tree, Published'.tree)
<1> DEFINE root == NextRoot(b)
           k == root.publication % 2
           p == ProcessOf[b]
<1>1. /\ batch[b].pc = "ready" /\ Readable(slot)
      /\ slot' = [slot EXCEPT ![k] = root]
      /\ onDisk' = [onDisk EXCEPT ![k] = @ \cup {root}]
      /\ dirty' = [dirty EXCEPT ![p].roots = @ \cup {root.publication}]
      /\ Goto(b, "published")
      /\ UNCHANGED <<pages, working, barrier, opened, hurt>>
  BY DEF Publish
<1>2. /\ root \in Snapshot /\ root.publication = Published.publication + 1
      /\ root.publication \in Nat /\ k \in Slot
      /\ \E j \in 1..Len(root.tree) : root.tree[j] = b
  BY <1>1, NextRootFacts
<1>3. root # Torn /\ root # Empty /\ Holds(root.tree, b)
  BY <1>2, SlotAssumption DEF Holds
<1>4. /\ slot' \in [Slot -> Snapshot \cup {Empty, Torn}]
      /\ onDisk' \in [Slot -> SUBSET (Snapshot \cup {Empty, Torn})]
  BY <1>1, PublishTypes
<1>5. p \in Process /\ dirty[p] \in Writes
  BY BatchTyped DEF PipelineTypeOK
<1> HIDE DEF root
<1>6. /\ dirty' \in [Process -> Writes]
      /\ \A q \in Process : /\ dirty[q].pages \subseteq dirty'[q].pages
                             /\ dirty[q].roots \subseteq dirty'[q].roots
                             /\ \A n \in dirty'[q].roots :
                                   n \in dirty[q].roots \/ n = root.publication
      /\ root.publication \in dirty'[p].roots
  BY <1>1, <1>2, <1>5 DEF PipelineTypeOK, Writes
<1>7. /\ batch' \in [Batch -> [pc : Active \cup {"idle", "acked", "unknown", "duplicate"},
                               tree : Tree]]
      /\ batch'[b].pc = "published" /\ batch'[b].tree = batch[b].tree
      /\ \A c \in Batch \ {b} : batch'[c] = batch[c]
  BY <1>1, GotoFacts DEF Active
<1>8. PipelineTypeOK'
  BY <1>1, <1>4, <1>6, <1>7 DEF PipelineTypeOK
<1>9. root = Torn => hurt'
  BY <1>3
<1>10. /\ RootInv' /\ NeverSelfCorrupt' /\ BarrierInv' /\ WorkingInv'
       /\ \A c \in Batch : StagedInv(c)'
       /\ \A c \in Batch \ {b} : PageInv(c)' /\ ReadyInv(c)' /\ OwedInv(c)'
       /\ Readable(slot)' => IsPrefix(Published.tree, Published'.tree)
  <2>0. PICK left \in {root} : TRUE
    OBVIOUS
  <2>1. /\ root = NextRoot(b) /\ left \in {root, Torn, slot[root.publication % 2]}
        /\ slot' = [slot EXCEPT ![root.publication % 2] = left]
        /\ onDisk' = [onDisk EXCEPT ![root.publication % 2] = @ \cup {left}]
        /\ left = Torn => hurt'
    BY <1>1, <1>9, <2>0 DEF root
  <2>2. /\ \A q \in Process : dirty[q].pages \subseteq dirty'[q].pages
        /\ \A q \in Process : dirty[q].roots \subseteq dirty'[q].roots
        /\ \A q \in Process : dirty'[q].roots \subseteq
               dirty[q].roots \cup (IF left = root THEN {root.publication} ELSE {})
    BY <1>6, <2>0
  <2>3. /\ batch[b].pc = "ready" /\ Readable(slot) /\ pages' = pages /\ barrier' = barrier
        /\ opened' = opened
        /\ working' # Torn => /\ working # Torn /\ working'.tree = working.tree
                              /\ working'.durable = working.durable
                              /\ working'.ready = working.ready
    BY <1>1
  <2>4. /\ \A c \in Batch \ {b} : batch'[c] = batch[c]
        /\ batch'[b].pc \in {"published", "unknown"}
        /\ batch'[b].pc = "published" => batch'[b].tree = batch[b].tree
    BY <1>7
  <2>. QED
    BY <1>8, <2>1, <2>2, <2>3, <2>4, WriteRoot
<1>11. PageInv(b)' /\ ReadyInv(b)'
  BY <1>1, <1>7 DEF PipelineInv, BatchInv, PageInv, ReadyInv
<1>12. Owed(b, onDisk', Unsynced(p)'.roots)
  <2>1. root.publication \in Unsynced(p)'.roots
    BY <1>6 DEF Unsynced
  <2>2. onDisk'[k] = onDisk[k] \cup {root}
    BY <1>1, <1>2 DEF PipelineTypeOK
  <2>3. ASSUME NEW s \in onDisk'[k] \ {Torn}
        PROVE  \/ \E n \in Unsynced(p)'.roots : n % 2 = k /\ Precedes(s, n)
               \/ s # Empty /\ Holds(s.tree, b)
    <3>1. CASE s = root
      BY <1>3, <3>1
    <3>2. CASE s = Empty
      BY <2>1, <3>2 DEF Precedes
    <3>3. CASE s # Empty /\ s \in onDisk[k]
      <4>1. s \in Roots /\ s.publication \in Nat
        BY <1>2, <3>3, RootsTyped
      <4>2. s.publication <= Published.publication /\ Published.publication \in Nat
        BY <1>1, <4>1, PublishedFacts DEF PipelineInv
      <4>3. Precedes(s, root.publication)
        BY <1>2, <4>1, <4>2 DEF Precedes
      <4>. QED
        BY <2>1, <4>3
    <3>. QED
      BY <2>2, <3>1, <3>2, <3>3
  <2>. QED
    BY <1>2, <2>3 DEF Owed
<1>13. OwedInv(b)'
  BY <1>7, <1>12 DEF OwedInv
<1>. QED
  BY <1>8, <1>10, <1>11, <1>13, Assemble

\* Publishing fails.
LEMMA PublishErrorStep ==
    ASSUME PipelineTypeOK, PipelineInv, NEW b \in Batch, PublishError(b)
    PROVE  /\ PipelineTypeOK' /\ PipelineInv'
           /\ Readable(slot)' => IsPrefix(Published.tree, Published'.tree)
<1> DEFINE root == NextRoot(b)
           k == root.publication % 2
<1>1. /\ batch[b].pc = "ready" /\ Readable(slot)
      /\ \E left \in {root, Torn, slot[k]} :
            /\ slot' = [slot EXCEPT ![k] = left]
            /\ onDisk' = [onDisk EXCEPT ![k] = @ \cup {left}]
            /\ hurt' = (hurt \/ left = Torn)
      /\ FlagFailed(working) /\ Goto(b, "unknown")
      /\ UNCHANGED <<pages, dirty, barrier, opened>>
  BY DEF PublishError
<1>2. PICK left \in {root, Torn, slot[k]} :
            /\ slot' = [slot EXCEPT ![k] = left]
            /\ onDisk' = [onDisk EXCEPT ![k] = @ \cup {left}]
            /\ hurt' = (hurt \/ left = Torn)
  BY <1>1
<1>3. /\ slot' \in [Slot -> Snapshot \cup {Empty, Torn}]
      /\ onDisk' \in [Slot -> SUBSET (Snapshot \cup {Empty, Torn})]
  BY <1>1, <1>2, PublishTypes
<1>4. /\ working' \in WorkingState \cup {Torn}
      /\ working' # Torn => /\ working # Torn /\ working'.tree = working.tree
                            /\ working'.durable = working.durable /\ working'.ready = working.ready
  BY <1>1, FlagFacts DEF PipelineTypeOK
<1>5. /\ batch' \in [Batch -> [pc : Active \cup {"idle", "acked", "unknown", "duplicate"},
                               tree : Tree]]
      /\ batch'[b].pc = "unknown" /\ \A c \in Batch \ {b} : batch'[c] = batch[c]
  BY <1>1, GotoFacts
<1>6. PipelineTypeOK'
  BY <1>1, <1>2, <1>3, <1>4, <1>5 DEF PipelineTypeOK
<1>7. /\ RootInv' /\ NeverSelfCorrupt' /\ BarrierInv' /\ WorkingInv'
      /\ \A c \in Batch : StagedInv(c)'
      /\ \A c \in Batch \ {b} : PageInv(c)' /\ ReadyInv(c)' /\ OwedInv(c)'
      /\ Readable(slot)' => IsPrefix(Published.tree, Published'.tree)
  <2>1. left = Torn => hurt'
    BY <1>2
  <2>2. root = NextRoot(b)
    OBVIOUS
  <2>3. dirty' = dirty /\ pages' = pages /\ barrier' = barrier /\ opened' = opened
    BY <1>1
  <2>4. /\ \A q \in Process : dirty[q].pages \subseteq dirty'[q].pages
        /\ \A q \in Process : dirty[q].roots \subseteq dirty'[q].roots
        /\ \A q \in Process : dirty'[q].roots \subseteq
               dirty[q].roots \cup (IF left = root THEN {root.publication} ELSE {})
    BY <2>3
  <2>5. batch[b].pc = "ready" /\ Readable(slot)
    BY <1>1
  <2>6. batch'[b].pc \in {"published", "unknown"} /\ batch'[b].pc # "published"
    BY <1>5
  <2> HIDE DEF root
  <2>. QED
    BY <1>2, <1>4, <1>5, <1>6, <2>1, <2>2, <2>3, <2>4, <2>5, <2>6, WriteRoot
<1>. QED
  BY <1>5, <1>6, <1>7, EndedBatch, Assemble

\* A finite set without two elements.
LEMMA AtMostOne ==
    ASSUME NEW S, IsFiniteSet(S), ~ (Cardinality(S) > 1), NEW x \in S, NEW y \in S
    PROVE  x = y
<1>1. Cardinality(S) \in Nat /\ Cardinality(S) # 0
  BY FS_CardinalityType, FS_EmptySet
<1>2. Cardinality(S) = 1
  BY <1>1
<1>3. PICK z : S = {z}
  BY <1>2, FS_Singleton
<1>. QED
  BY <1>3

\* A pair of roots that a power loss leaves is in step, unless a fault excuses it.
LEMMA SurvivorsReadable ==
    ASSUME PipelineTypeOK, RootInv, Readable(slot), NEW left \in [Slot -> SlotValues],
           \A k \in Slot : left[k] \in Survivors(k), ~ Excused(left)
    PROVE  Readable(left)
<1>1. \A k \in Slot : left[k] # Torn /\ left[k] \in onDisk[k]
  BY DEF Excused, Survivors
<1>2. \A k \in Slot : slot[k] # Torn /\ slot[k] \in onDisk[k]
  BY RootsTyped, ReadableFacts DEF RootInv
<1>3. \A k \in Slot : ~ (Cardinality(onDisk[k]) > 1) => left[k] = slot[k]
  BY <1>1, <1>2, AtMostOne DEF RootInv
<1>4. 0 \in Slot /\ 1 \in Slot /\ left[1] # Empty /\ 1 - 1 = 0 /\ 1 - 0 = 1
  BY <1>1 DEF RootInv, Slot
<1>5. \A k \in Slot : left[k] # Empty =>
        /\ left[k] \in Roots /\ left[k] \in Snapshot
        /\ left[k].publication \in Nat /\ left[k].tree \in Tree
        /\ left[k].publication >= 1 /\ left[k].publication % 2 = k
        /\ left[k].publication <= Published.publication
  BY <1>1, RootsTyped, PublishedFacts DEF RootInv
<1>6. Published.publication \in Nat
  BY PublishedFacts
<1>7. \A k \in Slot : left[k] # Empty => left[k].publication \in 1..Generation(left[k].tree)
  <2>1. SUFFICES ASSUME NEW k \in Slot, left[k] # Empty
                 PROVE  left[k].publication \in 1..Generation(left[k].tree)
    OBVIOUS
  <2> DEFINE t == left[k].tree
  <2>2. t \in Tree /\ left[k].publication \in Nat /\ left[k].publication >= 1
        /\ left[k].publication <= Cardinality(Spent(t)) + 1
    BY <1>5, <2>1 DEF RootInv
  <2> HIDE DEF t
  <2>3. Len(t) \in Nat /\ Spent(t) \subseteq 1..Len(t) /\ Generation(t) = Len(t) + 1
    BY <2>2, GenerationFacts DEF Spent
  <2>4. IsFiniteSet(1..Len(t)) /\ Cardinality(1..Len(t)) = Len(t)
    BY <2>3, FS_Interval
  <2>5. Cardinality(Spent(t)) <= Len(t) /\ Cardinality(Spent(t)) \in Nat
    BY <2>3, <2>4, FS_Subset, FS_CardinalityType
  <2>. QED
    BY <2>2, <2>3, <2>5 DEF t
<1>8. CASE left[0] = Empty
  <2>1. ~ (Cardinality(onDisk[0]) > 1)
    BY <1>4, <1>8 DEF Excused, LostBeneath, Precedes
  <2>2. slot[0] = Empty
    BY <1>3, <1>4, <1>8, <2>1
  <2>3. slot[1] = [publication |-> 1, tree |-> <<>>]
    BY <1>4, <2>2, RootsTyped, ReadableFacts, SlotAssumption
  <2>4. Published = slot[1]
    BY <2>2 DEF Published, Latest, NewerSlot
  <2>5. left[1].publication = 1
    BY <1>4, <1>5, <1>6, <2>3, <2>4
  <2>6. left[1].tree = <<>>
    BY <1>4, <1>5, <2>5 DEF RootInv
  <2>7. left[1] = [publication |-> 1, tree |-> <<>>]
    BY <1>4, <1>5, <2>5, <2>6 DEF Snapshot
  <2>. QED
    BY <1>8, <2>7, ReadableFirst
<1>9. CASE left[0] # Empty
  <2>1. \A k \in Slot : left[k] # Empty
    BY <1>4, <1>9 DEF Slot
  <2>2. PICK hi \in Slot : left[hi].publication > left[1 - hi].publication
    <3>1. left[0].publication # left[1].publication
      BY <1>4, <1>5, <2>1
    <3>2. left[0].publication > left[1].publication \/ left[1].publication > left[0].publication
      BY <1>4, <1>5, <2>1, <3>1
    <3>. QED
      BY <1>4, <3>2
  <2> DEFINE lo == 1 - hi
  <2>3. lo \in Slot /\ 1 - hi = lo
    BY DEF Slot
  <2>4. left[lo].publication >= left[hi].publication - 1
    <3>1. CASE Cardinality(onDisk[lo]) > 1
      <4>1. ~ Precedes(left[lo], left[hi].publication - 1)
        BY <2>1, <2>3, <3>1 DEF Excused, LostBeneath
      <4>. QED
        BY <1>1, <1>5, <2>1, <2>3, <4>1 DEF Precedes
    <3>2. CASE ~ (Cardinality(onDisk[lo]) > 1)
      <4>1. left[lo] = slot[lo]
        BY <1>3, <2>3, <3>2
      <4>2. slot[lo].publication >= Published.publication - 1
        <5>1. \/ slot[0] = Empty /\ slot[1] = [publication |-> 1, tree |-> <<>>]
              \/ \A k \in Slot : slot[k].publication >= Published.publication - 1
          BY RootsTyped, ReadableFacts DEF Published
        <5>2. CASE slot[0] = Empty /\ slot[1] = [publication |-> 1, tree |-> <<>>]
          <6>1. Published = slot[1]
            BY <5>2 DEF Published, Latest, NewerSlot
          <6>2. slot[lo] = slot[1]
            BY <2>1, <2>3, <4>1, <5>2 DEF Slot
          <6>. QED
            BY <1>6, <6>1, <6>2
        <5>. QED
          BY <2>3, <5>1, <5>2
      <4>. QED
        BY <1>5, <1>6, <2>1, <2>3, <4>1, <4>2
    <3>. QED
      BY <3>1, <3>2
  <2>5. left[hi].publication = left[1 - hi].publication + 1
    BY <1>5, <2>1, <2>2, <2>3, <2>4
  <2>6. IsPrefix(left[1 - hi].tree, left[hi].tree)
    <3>1. left[1 - hi] \in Roots /\ left[hi] \in Roots
      BY <1>5, <2>1, <2>3
    <3>2. left[1 - hi].publication <= left[hi].publication
      BY <1>5, <2>1, <2>3, <2>5
    <3>. QED
      BY <3>1, <3>2 DEF RootInv
  <2>7. /\ left[0] \in Snapshot /\ left[1] \in Snapshot
        /\ \A j \in Slot : /\ left[j].publication \in 1..Generation(left[j].tree)
                            /\ left[j].publication % 2 = j
    BY <1>4, <1>5, <1>7, <2>1
  <2>. QED
    BY <2>5, <2>6, <2>7, ReadablePair
<1>. QED
  BY <1>8, <1>9

\* A power loss.
LEMMA PowerLossStep ==
    ASSUME PipelineTypeOK, PipelineInv, PowerLoss
    PROVE  PipelineTypeOK' /\ PipelineInv'
<1>1. PICK left \in {f \in [Slot -> Survivors(0) \cup Survivors(1)] :
                       \A k \in Slot : f[k] \in Survivors(k)} :
          /\ slot' = left
          /\ onDisk' = [k \in Slot |-> {left[k]}]
          /\ hurt' = (hurt \/ (~ Readable(left) /\ Excused(left)))
  BY DEF PowerLoss
<1>2. PICK lost \in SUBSET {b \in Batch : pages[b] = "written"} :
          pages' = [b \in Batch |-> IF b \in lost THEN "lost"
                                    ELSE IF pages[b] = "written" THEN "durable" ELSE pages[b]]
  BY DEF PowerLoss
<1>3. /\ working' = Torn /\ batch' = Ended(Process) /\ opened' = {}
      /\ barrier' = [p \in Process |-> NewBarrier] /\ dirty' = [p \in Process |-> NoWrites]
  BY DEF PowerLoss
<1>4. \A k \in Slot : Survivors(k) \subseteq onDisk[k] \cup {Torn} /\ Survivors(k) \subseteq SlotValues
  BY DEF Survivors, PipelineTypeOK, SlotValues
<1>5. /\ left \in [Slot -> SlotValues]
      /\ \A k \in Slot : left[k] \in Survivors(k) /\ left[k] \in onDisk[k] \cup {Torn}
  BY <1>4 DEF Slot
<1>6. /\ pages' \in [Batch -> {"none", "written", "durable", "lost"}]
      /\ \A c \in Batch : pages[c] = "durable" => pages'[c] = "durable"
  BY <1>2 DEF PipelineTypeOK
<1>7. /\ batch' \in [Batch -> [pc : Active \cup {"idle", "acked", "unknown", "duplicate"},
                               tree : Tree]]
      /\ \A c \in Batch : IF batch[c].pc \in Active /\ ProcessOf[c] \in Process
                           THEN batch'[c].pc = "unknown" ELSE batch'[c] = batch[c]
  BY <1>3, EndedFacts
<1>8. /\ barrier' \in [Process -> Barrier] /\ dirty' \in [Process -> Writes]
      /\ \A p \in Process : barrier'[p] = NewBarrier /\ dirty'[p] = NoWrites
  BY <1>3 DEF Barrier, NewBarrier, Writes, NoWrites
<1>9. PipelineTypeOK'
  <2>1. /\ slot' \in [Slot -> Snapshot \cup {Empty, Torn}]
        /\ onDisk' \in [Slot -> SUBSET (Snapshot \cup {Empty, Torn})] /\ hurt' \in BOOLEAN
    BY <1>1, <1>5 DEF SlotValues
  <2>. QED
    BY <1>3, <1>6, <1>7, <1>8, <2>1 DEF PipelineTypeOK
<1>10. RootInv' /\ Roots' \subseteq Roots
  <2>1. /\ \A k \in Slot : onDisk'[k] \subseteq onDisk[k] \cup {Torn}
        /\ \A k \in Slot : slot'[k] = Torn \/ slot'[k] \in onDisk'[k]
    BY <1>1, <1>5
  <2>2. \A s \in Roots : \A i \in 1..Len(s.tree) : pages'[s.tree[i]] = "durable"
    <3>1. \A s \in Roots : \A i \in 1..Len(s.tree) : s.tree[i] \in Batch
      BY RootsTyped DEF Tree
    <3>. QED
      BY <1>6, <3>1 DEF PipelineInv, RootInv
  <2>3. \A c \in Batch : batch[c].pc \in SpentPc => batch'[c].pc \in SpentPc
    BY <1>7 DEF SpentPc
  <2>4. Readable(slot)' => \A s \in Roots' : s.publication <= Published'.publication
    <3>1. SUFFICES ASSUME Readable(left) PROVE \A s \in Roots' : s.publication <= Published'.publication
      BY <1>1
    <3>2. Published' = Latest(left)
      BY <1>1 DEF Published
    <3>3. \A k \in Slot : left[k] # Empty => left[k].publication <= Latest(left).publication
      BY <1>5, <3>1, ReadableFacts
    <3>4. \A s \in Roots' : s # Empty /\ \E k \in Slot : s = left[k]
      BY <1>1 DEF Roots, Slot
    <3>. QED
      BY <3>2, <3>3, <3>4
  <2>. QED
    BY <1>9, <2>1, <2>2, <2>3, <2>4, RootKeep DEF PipelineInv
<1>11. NeverSelfCorrupt'
  <2>1. CASE hurt
    BY <1>1, <2>1 DEF NeverSelfCorrupt
  <2>2. CASE ~ hurt /\ Excused(left)
    BY <1>1, <2>2 DEF NeverSelfCorrupt
  <2>3. CASE ~ hurt /\ ~ Excused(left)
    <3>1. Readable(slot)
      BY <2>3 DEF PipelineInv, NeverSelfCorrupt
    <3>2. Readable(left)
      BY <1>5, <2>3, <3>1, SurvivorsReadable DEF PipelineInv
    <3>. QED
      BY <1>1, <3>2 DEF NeverSelfCorrupt
  <2>. QED
    BY <2>1, <2>2, <2>3
<1>12. BarrierInv'
  <2>1. ASSUME NEW q \in Process PROVE TicketInv(q)'
    <3>1. Unsynced(q)'.roots = {}
      BY <1>8 DEF Unsynced, NewBarrier, NoWrites
    <3>2. /\ barrier'[q].leader = {} /\ barrier'[q].tickets = {} /\ barrier'[q].waiting = {}
          /\ barrier'[q].writes = NoWrites
      BY <1>8 DEF NewBarrier
    <3>. QED
      BY <3>1, <3>2 DEF TicketInv
  <2>. QED
    BY <2>1 DEF BarrierInv
<1>13. ASSUME NEW c \in Batch PROVE StagedInv(c)' /\ PageInv(c)' /\ ReadyInv(c)' /\ OwedInv(c)'
  <2>1. PageInv(c) /\ OwedInv(c) /\ ProcessOf[c] \in Process
    BY BatchTyped DEF PipelineInv, BatchInv
  <2>2. CASE batch[c].pc \in Active
    BY <1>7, <2>1, <2>2, EndedBatch
  <2>3. CASE batch[c].pc \notin Active
    <3>1. batch'[c] = batch[c]
      BY <1>7, <2>3
    <3>2. Owed(c, onDisk, {}) => Owed(c, onDisk', {})
      <4>1. \A k \in Slot : onDisk'[k] \subseteq onDisk[k] \cup {Torn}
        BY <1>1, <1>5
      <4>. QED
        BY <4>1, OwedKeep
    <3>3. StagedInv(c)' /\ ReadyInv(c)'
      BY <2>3, <3>1 DEF StagedInv, ReadyInv, Active
    <3>4. PageInv(c)'
      BY <1>6, <2>1, <2>3, <3>1 DEF PageInv, Active
    <3>5. OwedInv(c)'
      BY <2>1, <2>3, <3>1, <3>2 DEF OwedInv, Active
    <3>. QED
      BY <3>3, <3>4, <3>5
  <2>. QED
    BY <2>2, <2>3
<1>14. WorkingInv'
  BY <1>3 DEF WorkingInv
<1>. QED
  BY <1>9, <1>10, <1>11, <1>12, <1>13, <1>14, Assemble

--------------------------------------------------------------------------------
(* The theorems.                                                           *)

\* A store just created is in order (create_inner).
LEMMA PipelineStart == PipelineInit => PipelineTypeOK /\ PipelineInv
<1> SUFFICES ASSUME PipelineInit
             PROVE  PipelineTypeOK /\ PipelineInv
  OBVIOUS
<1> DEFINE first == [publication |-> 1, tree |-> <<>>]
<1>1. first \in Snapshot /\ <<>> \in Tree /\ Len(<<>>) = 0
  BY DEF Snapshot, Tree
<1>2. first # Empty /\ first # Torn
  BY <1>1, SlotAssumption
<1>3. /\ slot[0] = Empty /\ slot[1] = first /\ onDisk[0] = {Empty} /\ onDisk[1] = {first}
      /\ slot \in [Slot -> Snapshot \cup {Empty, Torn}]
      /\ onDisk \in [Slot -> SUBSET (Snapshot \cup {Empty, Torn})]
  BY <1>1 DEF PipelineInit, Slot
<1>4. working \in WorkingState /\ working.tree = <<>> /\ working.durable = 1 /\ working.ready = {}
  BY <1>1 DEF PipelineInit, FreshWorking, WorkingState, Generation
<1>5. PipelineTypeOK
  <2>1. /\ barrier \in [Process -> Barrier] /\ dirty \in [Process -> Writes]
        /\ pages \in [Batch -> {"none", "written", "durable", "lost"}]
        /\ opened \subseteq Process /\ hurt \in BOOLEAN
    BY DEF PipelineInit, Barrier, NewBarrier, Writes, NoWrites
  <2>2. batch \in [Batch -> [pc : Active \cup {"idle", "acked", "unknown", "duplicate"}, tree : Tree]]
    BY <1>1 DEF PipelineInit
  <2>. QED
    BY <1>3, <1>4, <2>1, <2>2 DEF PipelineTypeOK
<1>6. Readable(slot) /\ Published = first
  BY <1>3, ReadableFirst DEF Published
<1>7. Roots = {first}
  BY <1>2, <1>3 DEF Roots
<1>8. RootInv
  <2>1. \A k \in Slot : IsFiniteSet(onDisk[k]) /\ (slot[k] = Torn \/ slot[k] \in onDisk[k])
    <3>1. IsFiniteSet({Empty}) /\ IsFiniteSet({first})
      BY FS_Singleton
    <3>2. IsFiniteSet(onDisk[0]) /\ IsFiniteSet(onDisk[1])
      BY <1>3, <3>1, Zenon
    <3>3. slot[0] \in onDisk[0] /\ slot[1] \in onDisk[1]
      BY <1>3
    <3>. QED
      BY <3>2, <3>3 DEF Slot
  <2>2. \A k \in Slot : \A s \in onDisk[k] \ {Empty, Torn} : s.publication >= 1 /\ s.publication % 2 = k
    BY <1>2, <1>3 DEF Slot
  <2>3. Spent(<<>>) = {} /\ Cardinality({}) = 0
    BY <1>1, FS_EmptySet DEF Spent
  <2>4. /\ \A i \in 1..Len(first.tree) : pages[first.tree[i]] = "durable"
        /\ first.publication <= Cardinality(Spent(first.tree)) + 1
        /\ first.publication = 1 => first.tree = <<>>
    BY <1>1, <2>3
  <2>5. IsPrefix(first.tree, first.tree)
    BY <1>1, PrefixOrder
  <2>. QED
    BY <1>2, <1>3, <1>6, <1>7, <2>1, <2>2, <2>4, <2>5 DEF RootInv
<1>9. NeverSelfCorrupt
  BY <1>6 DEF NeverSelfCorrupt
<1>10. BarrierInv
  <2>1. ASSUME NEW q \in Process PROVE TicketInv(q)
    <3>1. Unsynced(q).roots = {}
      BY DEF PipelineInit, Unsynced, NewBarrier, NoWrites
    <3>2. /\ barrier[q].leader = {} /\ barrier[q].tickets = {} /\ barrier[q].waiting = {}
          /\ barrier[q].writes = NoWrites
      BY DEF PipelineInit, NewBarrier
    <3>. QED
      BY <3>1, <3>2 DEF TicketInv
  <2>. QED
    BY <2>1 DEF BarrierInv
<1>11. BatchInv
  <2>1. \A c \in Batch : batch[c].pc = "idle"
    BY DEF PipelineInit
  <2>. QED
    BY <2>1 DEF BatchInv, StagedInv, PageInv, ReadyInv, OwedInv, Active
<1>12. WorkingInv
  <2>1. Generation(<<>>) = 1 /\ IsPrefix(<<>>, <<>>) /\ Window \in Nat
    BY <1>1, PrefixOrder, PipelineAssumption DEF Generation
  <2>2. \A i \in 1..(1 - 1) : FALSE
    OBVIOUS
  <2>. QED
    BY <1>4, <1>7, <2>1, <2>2 DEF WorkingInv
<1>. QED
  BY <1>5, <1>8, <1>9, <1>10, <1>11, <1>12 DEF PipelineInv

\* No step leaves the types or the invariant.
LEMMA PipelineStep ==
    ASSUME PipelineTypeOK, PipelineInv, [PipelineNext]_vars
    PROVE  PipelineTypeOK' /\ PipelineInv'
<1>1. ASSUME NEW b \in Batch, Step(b) PROVE PipelineTypeOK' /\ PipelineInv'
  <2>1. CASE Stage(b) \/ StageError(b) \/ Duplicate(b)
    BY <2>1, StageStep, StageErrorStep, DuplicateStep
  <2>2. CASE RequestSync(b) \/ StartSync(b) \/ EndSync(b) \/ SyncError(b) \/ SyncCompleted(b)
    BY <2>2, RequestSyncStep, StartSyncStep, EndSyncStep, SyncErrorStep, SyncCompletedStep
  <2>3. CASE MarkReady(b) \/ MarkError(b) \/ AwaitPrefix(b)
    BY <2>3, MarkReadyStep, MarkErrorStep, AwaitPrefixStep
  <2>4. CASE Publish(b) \/ PublishError(b) \/ Fail(b)
    BY <2>4, PublishStep, PublishErrorStep, FailStep
  <2>. QED
    BY <1>1, <2>1, <2>2, <2>3, <2>4 DEF Step
<1>2. ASSUME NEW p \in Process, Open(p) \/ Kill(p) PROVE PipelineTypeOK' /\ PipelineInv'
  BY <1>2, OpenStep, KillStep
<1>3. CASE PowerLoss
  BY <1>3, PowerLossStep
<1>4. CASE UNCHANGED vars
  <2>1. /\ slot' = slot /\ onDisk' = onDisk /\ pages' = pages /\ working' = working
        /\ barrier' = barrier /\ dirty' = dirty /\ batch' = batch /\ opened' = opened
        /\ hurt' = hurt
    BY <1>4 DEF vars
  <2>2. Roots' = Roots /\ Published' = Published /\ Running' = Running
    BY <2>1 DEF Roots, Published, Running
  <2>3. PipelineTypeOK' = PipelineTypeOK
    BY <2>1 DEF PipelineTypeOK
  <2>4. RootInv' = RootInv
    BY <2>1, <2>2 DEF RootInv, Spent
  <2>5. NeverSelfCorrupt' = NeverSelfCorrupt
    BY <2>1 DEF NeverSelfCorrupt
  <2>6. BarrierInv' = BarrierInv
    BY <2>1 DEF BarrierInv, TicketInv, Unsynced
  <2>7. BatchInv' = BatchInv
    <3>1. ASSUME NEW b \in Batch
          PROVE  /\ StagedInv(b)' = StagedInv(b) /\ PageInv(b)' = PageInv(b)
                 /\ ReadyInv(b)' = ReadyInv(b) /\ OwedInv(b)' = OwedInv(b)
      BY <2>1, <2>2 DEF StagedInv, PageInv, ReadyInv, OwedInv, Unsynced
    <3>. QED
      BY <3>1 DEF BatchInv
  <2>8. WorkingInv' = WorkingInv
    BY <2>1, <2>2 DEF WorkingInv
  <2>. QED
    BY <2>3, <2>4, <2>5, <2>6, <2>7, <2>8 DEF PipelineInv
<1>. QED
  BY <1>1, <1>2, <1>3, <1>4 DEF PipelineNext

\* The types and the inductive invariant, for every number of batches, processes and keys
\* and every window, through deaths, failed syncs, failed writes and power losses.
THEOREM PipelineSafe == PipelineSpec => [](PipelineTypeOK /\ PipelineInv)
<1>1. PipelineTypeOK /\ PipelineInv /\ [PipelineNext]_vars => PipelineTypeOK' /\ PipelineInv'
  BY PipelineStep
<1>. QED
  BY PipelineStart, <1>1, PTL DEF PipelineSpec

\* Every record the pipeline keeps has the shape the code gives it.
THEOREM PipelineTyped == PipelineSpec => []PipelineTypeOK
  BY PipelineSafe, PTL

\* The newest root of two slots that are whole, in step or not: it contains the other.
LEMMA NewestFacts ==
    ASSUME PipelineTypeOK, RootInv, \A k \in Slot : slot[k] # Torn
    PROVE  /\ Published \in Roots /\ Published.tree \in Tree
           /\ \A k \in Slot : slot[k] # Empty => IsPrefix(slot[k].tree, Published.tree)
<1>1. 0 \in Slot /\ 1 \in Slot /\ \A k \in Slot : k = 0 \/ k = 1
  BY DEF Slot
<1>2. slot[1] # Empty
  BY <1>1 DEF RootInv
<1>3. \A k \in Slot : slot[k] # Empty => slot[k] \in Roots /\ slot[k].publication \in Nat
  BY RootsTyped
<1>4. PICK n \in Slot : /\ Published = slot[n] /\ slot[n] # Empty
                        /\ \A k \in Slot : slot[k] # Empty =>
                                slot[k].publication <= slot[n].publication
  <2>1. CASE slot[0] = Empty
    <3>1. Published = slot[1]
      BY <2>1 DEF Published, Latest, NewerSlot
    <3>2. \A k \in Slot : slot[k] # Empty => slot[k].publication <= slot[1].publication
      BY <1>1, <1>3, <2>1
    <3>. QED
      BY <1>1, <1>2, <3>1, <3>2
  <2>2. CASE slot[0] # Empty /\ slot[0].publication > slot[1].publication
    <3>1. Published = slot[0]
      BY <1>2, <2>2 DEF Published, Latest, NewerSlot
    <3>2. \A k \in Slot : slot[k] # Empty => slot[k].publication <= slot[0].publication
      BY <1>1, <1>2, <1>3, <2>2
    <3>. QED
      BY <1>1, <2>2, <3>1, <3>2
  <2>3. CASE slot[0] # Empty /\ ~ (slot[0].publication > slot[1].publication)
    <3>1. Published = slot[1]
      BY <1>2, <2>3 DEF Published, Latest, NewerSlot
    <3>2. \A k \in Slot : slot[k] # Empty => slot[k].publication <= slot[1].publication
      BY <1>1, <1>2, <1>3, <2>3
    <3>. QED
      BY <1>1, <1>2, <3>1, <3>2
  <2>. QED
    BY <2>1, <2>2, <2>3
<1>5. Published \in Roots /\ Published.tree \in Tree
  BY <1>3, <1>4, RootsTyped
<1>6. ASSUME NEW k \in Slot, slot[k] # Empty PROVE IsPrefix(slot[k].tree, Published.tree)
  <2>1. slot[k] \in Roots /\ slot[k].publication <= Published.publication
    BY <1>3, <1>4, <1>6
  <2>. QED
    BY <1>5, <2>1 DEF RootInv
<1>. QED
  BY <1>5, <1>6

\* Acknowledged batches are in the newest root, with all their pages, also when a power
\* loss has left two roots that are not in step (write_pipelined acknowledges only
\* after the sync of the root).
THEOREM AcknowledgedSafe == PipelineSpec => []AckedSurvives
<1>1. ASSUME PipelineTypeOK, PipelineInv PROVE AckedSurvives
  <2>1. SUFFICES ASSUME \A k \in Slot : slot[k] # Torn PROVE AckedSurvives
    BY DEF AckedSurvives
  <2>2. /\ Published \in Roots /\ Published.tree \in Tree
        /\ \A k \in Slot : slot[k] # Empty => IsPrefix(slot[k].tree, Published.tree)
    BY <1>1, <2>1, NewestFacts DEF PipelineInv
  <2>3. \A i \in 1..Len(Published.tree) : pages[Published.tree[i]] = "durable"
    BY <1>1, <2>2 DEF PipelineInv, RootInv
  <2>4. ASSUME NEW b \in Batch, batch[b].pc = "acked" PROVE Holds(Published.tree, b)
    <3>1. Owed(b, onDisk, {})
      BY <1>1, <2>4 DEF PipelineInv, BatchInv, OwedInv
    <3>2. PICK k \in Slot : \A s \in onDisk[k] \ {Torn} : s # Empty /\ Holds(s.tree, b)
      BY <3>1 DEF Owed
    <3>3. slot[k] \in onDisk[k] /\ slot[k] # Torn
      BY <1>1, <2>1 DEF PipelineInv, RootInv
    <3>4. slot[k] # Empty /\ Holds(slot[k].tree, b)
      BY <3>2, <3>3
    <3>5. slot[k].tree \in Tree
      BY <1>1, <3>3, <3>4, RootsTyped
    <3>. QED
      BY <2>2, <3>4, <3>5, PrefixHolds
  <2>. QED
    BY <2>3, <2>4 DEF AckedSurvives
<1>. QED
  BY PipelineSafe, <1>1, PTL

\* The slots stay in step unless a root was torn, or a power loss lost a root no sync had
\* covered and kept its successor, synced and acknowledged or not (decode, read_snapshot).
THEOREM InStepSafe == PipelineSpec => []NeverSelfCorrupt
<1>1. PipelineInv => NeverSelfCorrupt
  BY DEF PipelineInv
<1>. QED
  BY PipelineSafe, <1>1, PTL

\* What a reader can capture only grows, except by a power loss (Publish, Open).
THEOREM ReadersOnlyAdvance == PipelineSpec => NoRollback
<1> DEFINE Grows == Readable(slot) /\ Readable(slot)' => IsPrefix(Published.tree, Published'.tree)
<1>1. ASSUME PipelineTypeOK, PipelineInv, [PipelineNext]_vars PROVE Grows \/ PowerLoss
  <2>1. ASSUME slot' = slot PROVE Grows
    <3>1. Published' = Published
      BY <2>1 DEF Published
    <3>2. Readable(slot) => Published.tree \in Tree
      BY <1>1, PublishedFacts DEF PipelineInv
    <3>. QED
      BY <3>1, <3>2, PrefixOrder
  <2>2. CASE \E b \in Batch : Publish(b) \/ PublishError(b)
    BY <1>1, <2>2, PublishStep, PublishErrorStep
  <2>3. CASE slot' = slot
    BY <2>1, <2>3
  <2>4. CASE PowerLoss
    BY <2>4
  <2>5. slot' = slot \/ PowerLoss \/ \E b \in Batch : Publish(b) \/ PublishError(b)
    BY <1>1 DEF PipelineNext, Step, vars, Stage, StageError, Duplicate, RequestSync, StartSync,
                EndSync, SyncError, SyncCompleted, MarkReady, MarkError, AwaitPrefix, Fail,
                Open, Kill
  <2>. QED
    BY <2>2, <2>3, <2>4, <2>5
<1>2. PipelineTypeOK /\ PipelineInv /\ [PipelineNext]_vars => [Grows \/ PowerLoss]_vars
  BY <1>1
<1>. QED
  BY PipelineSafe, <1>2, PTL DEF PipelineSpec, NoRollback
================================================================================
