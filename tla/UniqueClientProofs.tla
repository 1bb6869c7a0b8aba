--------------------------- MODULE UniqueClientProofs ---------------------------
(***************************************************************************)
(* What the callers of a unique index see, for every number of shards,     *)
(* rows, keys, processes, operations and queries.  To a writer,            *)
(* reservations, commits, finalisations, deaths and recoveries are single  *)
(* changes of an atomic register (UniqueAuthority implements               *)
(* UniqueRegister).  A query that looks the owners of a key up, and then   *)
(* reads their shards one by one, is right about some moment of its run.   *)
(***************************************************************************)
EXTENDS UniqueLookup, UniqueAuthorityProofs

--------------------------------------------------------------------------------
(* The register.                                                           *)

\* The register that callers see names exactly the row that has the key.
RegisterTruth ==
    /\ rows \in [Owner -> Key \cup {NoKey}]
    /\ SettledOwner \in [Key -> Owner \cup {NoOwner}]
    /\ \A k \in Key, o \in Owner : SettledOwner[k] = o <=> rows[o] = k

\* The rows leave no choice for the registers.
LEMMA Determined ==
    ASSUME NEW r \in [Owner -> Key \cup {NoKey}],
           NEW f \in [Key -> Owner \cup {NoOwner}], NEW g \in [Key -> Owner \cup {NoOwner}],
           \A k \in Key, o \in Owner : f[k] = o <=> r[o] = k,
           \A k \in Key, o \in Owner : g[k] = o <=> r[o] = k
    PROVE  f = g
<1>1. ASSUME NEW k \in Key PROVE f[k] = g[k]
  <2>1. CASE f[k] \in Owner
    BY <2>1
  <2>2. CASE f[k] \notin Owner
    <3>1. f[k] = NoOwner
      BY <2>2
    <3>2. g[k] \notin Owner
      BY <2>2
    <3>. QED
      BY <3>1, <3>2
  <2>. QED
    BY <2>1, <2>2
<1>. QED
  BY <1>1

\* The invariant of the authority makes the register true (OwnerTruth for a key nobody
\* changes, the sides of OperationInv for one under way).
LEMMA TruthHolds ==
    ASSUME AuthorityTypeOK, AuthorityInv PROVE RegisterTruth
<1>1. rows \in [Owner -> Key \cup {NoKey}] /\ uniqueKeys \in [Key -> Owner \cup {NoOwner}]
  BY DEF AuthorityTypeOK
<1>2. ASSUME NEW k \in Key
      PROVE  /\ SettledOwner[k] \in Owner \cup {NoOwner}
             /\ Holders(k) = {SettledOwner[k]} \ {NoOwner}
  <2>1. CASE reservations[k] = NoOperation
    <3>1. SettledOwner[k] = uniqueKeys[k]
      BY <2>1 DEF SettledOwner
    <3>. QED
      BY <1>1, <2>1, <3>1 DEF AuthorityInv, OwnerTruth
  <2>2. CASE reservations[k] # NoOperation
    <3>1. PICK p \in Operation : p = reservations[k]
      BY <2>2 DEF AuthorityTypeOK
    <3>2. operations[p].state = "active" /\ k \in KeysOf(operations[p].mutation)
      BY <2>2, <3>1 DEF AuthorityInv, OperationInv
    <3>3. PICK m \in Mutation : m = operations[p].mutation
      BY DEF AuthorityTypeOK
    <3>4. Before(m) \/ After(m)
      BY <3>2, <3>3, ActiveFacts DEF AuthorityInv
    <3>5. SettledOwner[k] = IF After(m) THEN KeysAfter(m)[k] ELSE uniqueKeys[k]
      BY <2>2, <3>1, <3>3 DEF SettledOwner
    <3>6. KeysAfter(m) \in [Key -> Owner \cup {NoOwner}]
      BY KeysAfterType
    <3>7. CASE After(m)
      BY <3>2, <3>3, <3>5, <3>6, <3>7 DEF After
    <3>8. CASE ~ After(m)
      BY <1>1, <3>2, <3>3, <3>4, <3>5, <3>8 DEF Before
    <3>. QED
      BY <3>7, <3>8
  <2>. QED
    BY <2>1, <2>2
<1>3. SettledOwner = [k \in Key |-> SettledOwner[k]]
  BY DEF SettledOwner
<1>4. SettledOwner \in [Key -> Owner \cup {NoOwner}]
  BY <1>2, <1>3
<1>5. ASSUME NEW k \in Key, NEW o \in Owner PROVE SettledOwner[k] = o <=> rows[o] = k
  <2>1. o \in Holders(k) <=> rows[o] = k
    BY DEF Holders
  <2>. QED
    BY <1>2, <2>1, AuthorityAssumption
<1>. QED
  BY <1>1, <1>4, <1>5 DEF RegisterTruth

\* A step that changes no row changes no register.
LEMMA SameRows ==
    ASSUME RegisterTruth, RegisterTruth', UNCHANGED rows
    PROVE  UNCHANGED <<rows, SettledOwner>>
<1>1. PICK f, g : f = SettledOwner /\ g = SettledOwner'
  OBVIOUS
<1>2. f = g
  BY <1>1, Determined DEF RegisterTruth
<1>. QED
  BY <1>1, <1>2

\* Only the commit of a shard changes rows.
LEMMA OthersKeepRows ==
    ASSUME [AuthorityNext]_vars PROVE UNCHANGED rows \/ \E w \in Writer : Commit(w)
<1>1. CASE UNCHANGED vars
  BY <1>1 DEF vars
<1>2. CASE Rebuild
  BY <1>2 DEF Rebuild
<1>3. ASSUME NEW w \in Writer, WriterStep(w), ~ Commit(w) PROVE UNCHANGED rows
  <2>1. CASE \E s \in Shard, m \in Mutation : OpenTransaction(w, s, m)
    BY <2>1 DEF OpenTransaction
  <2>2. CASE ListActive(w) \/ \E p \in Operation : OpenMarker(w, p)
    BY <2>2 DEF ListActive, OpenMarker
  <2>3. CASE LockMarker(w) \/ ProbeNew(w) \/ Decide(w)
    BY <2>3 DEF LockMarker, ProbeNew, Decide
  <2>4. CASE Settle(w) \/ SettleDone(w) \/ RepairSnapshot(w)
    BY <2>4 DEF Settle, SettleDone, Release, RepairSnapshot
  <2>5. CASE \E p \in Operation : Reserve(w, p)
    BY <2>5 DEF Reserve
  <2>6. CASE RollBackRows(w) \/ Complete(w) \/ CompleteDone(w)
    BY <2>6 DEF RollBackRows, Complete, CompleteDone, Release
  <2>7. CASE Abandon(w) \/ Restart(w)
    BY <2>7 DEF Abandon, Restart
  <2>. QED
    BY <1>3, <2>1, <2>2, <2>3, <2>4, <2>5, <2>6, <2>7 DEF WriterStep
<1>. QED
  BY <1>1, <1>2, <1>3 DEF AuthorityNext

\* What a commit rests upon: its mutation is that of an active operation and fits the
\* rows, and a key that it gives to a row belongs to no other.
LEMMA CommitFacts ==
    ASSUME AuthorityTypeOK, AuthorityInv, RegisterTruth, NEW w \in Writer, Commit(w),
           NEW m, m = writer[w].mutation
    PROVE  /\ m \in Mutation /\ m.previous # m.new /\ rows' = RowsAfter(m)
           /\ IsMutation(writer[w].shard, m)
           /\ (m.new # NoEntry /\ (m.previous = NoEntry \/ m.previous[1] # m.new[1])) =>
                 SettledOwner[m.new[1]] = NoOwner
<1>1. m \in Mutation /\ writer[w].step = "reserved" /\ rows' = RowsAfter(m)
  BY DEF AuthorityTypeOK, Local, Commit
<1>2. PICK p \in Operation : p = writer[w].operation
  BY <1>1 DEF AuthorityInv, LeaseInv, Holding
<1>3. operations[p].mutation \in Mutation
  BY DEF AuthorityTypeOK
<1>4. operations[p].state = "active" /\ operations[p].mutation = m /\ Before(m)
  BY <1>1, <1>2, <1>3 DEF AuthorityInv, SideInv, Knows
<1>5. m.previous # m.new /\ CanFinalize(m)
  BY <1>4, ActiveFacts DEF AuthorityInv
<1>6. IsMutation(writer[w].shard, m)
  BY <1>1, <1>5 DEF AuthorityInv, TransactionInv, InTransaction, NoMutation
<1>7. ASSUME m.new # NoEntry, m.previous = NoEntry \/ m.previous[1] # m.new[1]
      PROVE  SettledOwner[m.new[1]] = NoOwner
  <2>1. m.new \in Entry /\ m.new[1] \in KeysOf(m) /\ m.new[1] \in Key
    BY <1>1, <1>7, KeysOfType
  <2>2. uniqueKeys[m.new[1]] = NoOwner
    BY <1>5, <1>7 DEF CanFinalize
  <2>3. Holders(m.new[1]) = {}
    BY <1>4, <2>1, <2>2 DEF Before
  <2>4. \A o \in Owner : rows[o] # m.new[1]
    BY <2>3 DEF Holders
  <2>. QED
    BY <2>1, <2>4 DEF RegisterTruth
<1>. QED
  BY <1>1, <1>5, <1>6, <1>7

\* A commit is one change of the register.
LEMMA CommitRefines ==
    ASSUME AuthorityTypeOK, AuthorityInv, RegisterTruth, RegisterTruth', NEW w \in Writer,
           Commit(w)
    PROVE  Register!RegisterNext
<1>1. PICK m : m = writer[w].mutation
  OBVIOUS
<1>2. /\ m \in Mutation /\ m.previous # m.new /\ rows' = RowsAfter(m)
      /\ IsMutation(writer[w].shard, m)
      /\ (m.new # NoEntry /\ (m.previous = NoEntry \/ m.previous[1] # m.new[1])) =>
            SettledOwner[m.new[1]] = NoOwner
  BY <1>1, CommitFacts
<1>3. PICK r, s, f, g : /\ r = rows /\ s = rows' /\ f = SettledOwner /\ g = SettledOwner'
  OBVIOUS
<1>4. /\ r \in [Owner -> Key \cup {NoKey}] /\ s \in [Owner -> Key \cup {NoKey}]
      /\ f \in [Key -> Owner \cup {NoOwner}] /\ g \in [Key -> Owner \cup {NoOwner}]
      /\ \A k \in Key, o \in Owner : f[k] = o <=> r[o] = k
      /\ \A k \in Key, o \in Owner : g[k] = o <=> s[o] = k
  BY <1>3 DEF RegisterTruth
<1>5. NoKey \notin Key /\ NoOwner \notin Owner
  BY AuthorityAssumption
<1>6. /\ m.previous # NoEntry => /\ m.previous \in Entry /\ m.previous[1] \in Key
                                 /\ m.previous[2] \in Owner
                                 /\ m.previous = <<m.previous[1], m.previous[2]>>
                                 /\ r[m.previous[2]] = m.previous[1]
      /\ m.new # NoEntry => /\ m.new \in Entry /\ m.new[1] \in Key /\ m.new[2] \in Owner
                            /\ m.new = <<m.new[1], m.new[2]>>
  BY <1>2, <1>3, MutationType, EntryParts DEF IsMutation
<1>7. s = [o \in Owner |-> IF m.new # NoEntry /\ m.new[2] = o THEN m.new[1]
                           ELSE IF m.previous # NoEntry /\ m.previous[2] = o THEN NoKey
                           ELSE r[o]]
  BY <1>2, <1>3 DEF RowsAfter
<1>8. CASE m.new = NoEntry
  <2>1. PICK k \in Key, o \in Owner : m.previous[1] = k /\ m.previous[2] = o
    BY <1>2, <1>6, <1>8
  <2>2. r[o] = k /\ s = [r EXCEPT ![o] = NoKey]
    <3>1. m.previous # NoEntry
      BY <1>2, <1>8
    <3>2. r[o] = k
      BY <1>6, <2>1, <3>1
    <3>3. \A q \in Owner : s[q] = IF q = o THEN NoKey ELSE r[q]
      BY <1>7, <1>8, <2>1, <3>1
    <3>4. s = [r EXCEPT ![o] = NoKey]
      BY <1>4, <3>3
    <3>. QED
      BY <3>2, <3>4
  <2> DEFINE h == [f EXCEPT ![k] = NoOwner]
  <2>3. h \in [Key -> Owner \cup {NoOwner}]
    BY <1>4
  <2>4. ASSUME NEW j \in Key, NEW q \in Owner PROVE h[j] = q <=> s[q] = j
    BY <1>4, <1>5, <2>2
  <2> HIDE DEF h
  <2>5. g = h
    BY <1>4, <2>3, <2>4, Determined
  <2>6. Register!Delete(o)
    BY <1>3, <1>5, <2>2, <2>5 DEF Register!Delete, h
  <2>. QED
    BY <2>6 DEF Register!RegisterNext
<1>9. CASE m.new # NoEntry /\ (m.previous = NoEntry \/ m.previous[2] = m.new[2])
  <2>1. PICK k \in Key, o \in Owner : m.new[1] = k /\ m.new[2] = o
    BY <1>6, <1>9
  <2>2. s = [r EXCEPT ![o] = k]
    <3>1. \A q \in Owner : s[q] = IF q = o THEN k ELSE r[q]
      <4> SUFFICES ASSUME NEW q \in Owner PROVE s[q] = IF q = o THEN k ELSE r[q]
        OBVIOUS
      <4>1. CASE q = o
        BY <1>7, <1>9, <2>1, <4>1
      <4>2. CASE q # o
        <5>1. ~ (m.previous # NoEntry /\ m.previous[2] = q) /\ m.new[2] # q
          BY <1>9, <2>1, <4>2
        <5>. QED
          BY <1>7, <4>2, <5>1
      <4>. QED
        BY <4>1, <4>2
    <3>. QED
      BY <1>4, <3>1
  <2>3. m.previous # NoEntry => m.previous[1] # k
    BY <1>2, <1>6, <1>9, <2>1
  <2>4. f[k] = NoOwner
    BY <1>2, <1>3, <1>9, <2>1, <2>3
  <2>5. r[o] # k
    BY <1>4, <1>5, <2>4
  <2> DEFINE h == [l \in Key |-> IF l = k THEN o ELSE IF l = r[o] THEN NoOwner ELSE f[l]]
  <2>6. h \in [Key -> Owner \cup {NoOwner}]
    BY <1>4
  <2>7. ASSUME NEW j \in Key, NEW q \in Owner PROVE h[j] = q <=> s[q] = j
    BY <1>4, <1>5, <2>2, <2>4, <2>5
  <2> HIDE DEF h
  <2>8. g = h
    BY <1>4, <2>6, <2>7, Determined
  <2>9. Register!Put(o, k)
    BY <1>3, <2>2, <2>4, <2>5, <2>8 DEF Register!Put, h
  <2>. QED
    BY <2>9 DEF Register!RegisterNext
<1>10. CASE m.new # NoEntry /\ m.previous # NoEntry /\ m.previous[2] # m.new[2]
  <2>1. PICK k \in Key, p \in Owner, o \in Owner :
            m.new[1] = k /\ m.new[2] = p /\ m.previous[2] = o
    BY <1>6, <1>10
  <2>2. r[o] \in Key /\ r[p] = NoKey /\ o # p
    BY <1>2, <1>3, <1>6, <1>10, <2>1 DEF IsMutation
  <2>3. s = [r EXCEPT ![o] = NoKey, ![p] = k]
    BY <1>4, <1>7, <1>10, <2>1, <2>2
  <2>4. k = r[o] \/ f[k] = NoOwner
    BY <1>2, <1>3, <1>6, <1>10, <2>1
  <2> DEFINE h == [l \in Key |-> IF l = k THEN p ELSE IF l = r[o] THEN NoOwner ELSE f[l]]
  <2>5. h \in [Key -> Owner \cup {NoOwner}]
    BY <1>4
  <2>6. ASSUME NEW j \in Key, NEW q \in Owner PROVE h[j] = q <=> s[q] = j
    <3>1. s[q] = IF q = p THEN k ELSE IF q = o THEN NoKey ELSE r[q]
      BY <1>4, <2>2, <2>3
    <3>2. h[j] = IF j = k THEN p ELSE IF j = r[o] THEN NoOwner ELSE f[j]
      OBVIOUS
    <3>3. (f[j] = q <=> r[q] = j) /\ (f[j] = o <=> r[o] = j) /\ (f[k] = q <=> r[q] = k)
          /\ (f[j] = p <=> r[p] = j)
      BY <1>4
    <3>4. q = p => (h[j] = q <=> s[q] = j)
      BY <1>5, <2>2, <3>1, <3>2, <3>3
    <3>5. q = o => (h[j] = q <=> s[q] = j)
      BY <1>5, <2>2, <3>1, <3>2, <3>3
    <3>6. q # o /\ q # p => (h[j] = q <=> s[q] = j)
      BY <1>5, <2>2, <2>4, <3>1, <3>2, <3>3
    <3>. QED
      BY <3>4, <3>5, <3>6
  <2> HIDE DEF h
  <2>7. g = h
    BY <1>4, <2>5, <2>6, Determined
  <2>8. Register!Move(o, p, k)
    BY <1>3, <1>5, <2>2, <2>3, <2>4, <2>7 DEF Register!Move, h
  <2>. QED
    BY <2>8 DEF Register!RegisterNext
<1>. QED
  BY <1>8, <1>9, <1>10

\* The initial rows and registers agree.
LEMMA RegisterInitHolds == RegisterTruth => Register!RegisterInit
  BY DEF RegisterTruth, Register!RegisterInit, Register!RegisterTypeOK, Register!Agree

\* Every step is a change of the register or none.
LEMMA RegisterStep ==
    AuthorityTypeOK /\ AuthorityInv /\ RegisterTruth /\ RegisterTruth' /\ [AuthorityNext]_vars
      => [Register!RegisterNext]_(Register!registerVars)
<1> SUFFICES ASSUME AuthorityTypeOK, AuthorityInv, RegisterTruth, RegisterTruth',
                    [AuthorityNext]_vars
             PROVE  Register!RegisterNext \/ UNCHANGED <<rows, SettledOwner>>
  BY DEF Register!registerVars
<1>1. CASE UNCHANGED rows
  BY <1>1, SameRows
<1>2. CASE \E w \in Writer : Commit(w)
  BY <1>2, CommitRefines
<1>. QED
  BY <1>1, <1>2, OthersKeepRows

\* A unique index is an atomic register: rows and owners change together, in the commit
\* of a shard, and everything before and after it is invisible (reserve_unique, commit,
\* finalize_unique_write, decide_orphaned_unique_write).
THEOREM AuthorityIsRegister == AuthoritySpec => AtomicRegister
<1>1. AuthorityTypeOK /\ AuthorityInv => RegisterTruth
  BY TruthHolds
<1>. QED
  BY <1>1, AuthoritySafe, RegisterInitHolds, RegisterStep, PTL
     DEF AuthoritySpec, AtomicRegister, Register!RegisterSpec

--------------------------------------------------------------------------------
(* Queries.                                                                *)

\* A query that has found nothing, while the key never was without a row, still has to
\* read the shard of a row with the key.
Sought(r) ==
    /\ read[r].step = "scan" => read[r].key \in Key
    /\ read[r].step = "scan" /\ ~ read[r].found /\ ~ read[r].absent =>
          \E o \in Holders(read[r].key) : o[1] \in read[r].todo

LookupInv == LookupTypeOK /\ AuthorityInv /\ \A r \in Reader : Sought(r)

\* The lookup misses no row: the recorded owner is in the snapshot, and a row that has
\* replaced it is the new side of the operation under way (lookup_authoritative_owners).
LEMMA LookupHasHolder ==
    ASSUME AuthorityTypeOK, AuthorityInv, NEW k \in Key, NEW o \in Holders(k)
    PROVE  o \in LookupOwners(k)
<1>1. o \in Owner /\ rows[o] = k /\ <<k, o>> \in Entry
  BY DEF Holders, Entry
<1>2. ASSUME uniqueKeys[k] = o PROVE o \in LookupOwners(k)
  <2>1. <<k, o>> \in RowEntries
    BY <1>1 DEF RowEntries
  <2>2. <<k, o>> \in entries
    BY <1>2, <2>1 DEF AuthorityInv, SnapshotInv
  <2>. QED
    BY <2>2 DEF LookupOwners
<1>3. CASE reservations[k] = NoOperation
  <2>1. Holders(k) = {uniqueKeys[k]} \ {NoOwner}
    BY <1>3 DEF AuthorityInv, OwnerTruth
  <2>. QED
    BY <1>2, <2>1
<1>4. CASE reservations[k] # NoOperation
  <2>1. PICK p \in Operation : p = reservations[k]
    BY <1>4 DEF AuthorityTypeOK
  <2>2. operations[p].state = "active" /\ k \in KeysOf(operations[p].mutation)
    BY <1>4, <2>1 DEF AuthorityInv, OperationInv
  <2>3. PICK m \in Mutation : m = operations[p].mutation
    BY DEF AuthorityTypeOK
  <2>4. Before(m) \/ After(m)
    BY <2>2, <2>3, ActiveFacts DEF AuthorityInv
  <2>5. CASE Before(m)
    BY <1>2, <2>2, <2>3, <2>5 DEF Before
  <2>6. CASE After(m)
    <3>1. Holders(k) = {KeysAfter(m)[k]} \ {NoOwner}
      BY <2>2, <2>3, <2>6 DEF After
    <3>2. o = KeysAfter(m)[k] /\ o # NoOwner
      BY <3>1
    <3>3. CASE m.new # NoEntry /\ m.new[1] = k
      <4>1. o = m.new[2]
        BY <3>2, <3>3 DEF KeysAfter
      <4>2. m \in {operations[q].mutation : q \in {q \in Operation :
                      reservations[k] = q /\ operations[q].state = "active"}}
        BY <2>1, <2>2, <2>3
      <4>3. o \in {e[2] : e \in {m.previous, m.new} \ {NoEntry}}
        BY <3>3, <4>1
      <4>. QED
        BY <4>2, <4>3 DEF LookupOwners
    <3>4. CASE ~ (m.new # NoEntry /\ m.new[1] = k)
      <4>1. uniqueKeys[k] = o
        BY <3>2, <3>4 DEF KeysAfter
      <4>. QED
        BY <1>2, <4>1
    <3>. QED
      BY <3>3, <3>4
  <2>. QED
    BY <2>4, <2>5, <2>6
<1>. QED
  BY <1>3, <1>4

\* A commit takes a key from its row for good, or hands it to a row of the same shard
\* (collapse_global_unique_mutations refuses everything else).
LEMMA CommitKeepsShard ==
    ASSUME AuthorityTypeOK, AuthorityInv, NEW w \in Writer, Commit(w),
           NEW k \in Key, NEW o \in Owner, rows[o] = k
    PROVE  \/ \A q \in Owner : rows'[q] # k
           \/ \E q \in Owner : rows'[q] = k /\ q[1] = o[1]
<1>1. PICK m : m = writer[w].mutation
  OBVIOUS
<1>2. /\ m \in Mutation /\ m.previous # m.new /\ rows' = RowsAfter(m)
      /\ IsMutation(writer[w].shard, m)
  BY <1>1, TruthHolds, CommitFacts
<1>3. /\ m.previous # NoEntry => m.previous[1] \in Key /\ m.previous[2] \in Owner
      /\ m.new # NoEntry => m.new[1] \in Key /\ m.new[2] \in Owner
  BY <1>2, MutationType, EntryParts
<1>4. \A q \in Owner : rows'[q] = IF m.new # NoEntry /\ m.new[2] = q THEN m.new[1]
                                  ELSE IF m.previous # NoEntry /\ m.previous[2] = q THEN NoKey
                                  ELSE rows[q]
  BY <1>2 DEF RowsAfter
<1>5. UniqueRows
  BY InvUnique DEF AuthorityInv
<1>6. k # NoKey
  BY AuthorityAssumption
<1>7. CASE m.previous # NoEntry /\ m.previous[2] = o
  <2>1. CASE m.new # NoEntry /\ m.new[1] = k
    BY <1>2, <1>3, <1>4, <1>7, <2>1 DEF IsMutation
  <2>2. CASE ~ (m.new # NoEntry /\ m.new[1] = k)
    <3>1. ASSUME NEW q \in Owner PROVE rows'[q] # k
      <4>1. rows[q] = k => q = o
        BY <1>5, <1>6 DEF UniqueRows
      <4>. QED
        BY <1>4, <1>6, <1>7, <2>2, <4>1
    <3>. QED
      BY <3>1
  <2>. QED
    BY <2>1, <2>2
<1>8. CASE ~ (m.previous # NoEntry /\ m.previous[2] = o)
  <2>1. m.new # NoEntry => m.new[2] # o
    BY <1>2, <1>6, <1>8 DEF IsMutation
  <2>2. rows'[o] = k
    BY <1>4, <1>8, <2>1
  <2>. QED
    BY <2>2
<1>. QED
  BY <1>7, <1>8

\* A writer's step leaves a query what it seeks (Watch records the key's absence).
LEMMA WriterSought ==
    ASSUME LookupInv, NEW w \in Writer, WriterStep(w), Watch, NEW r \in Reader
    PROVE  Sought(r)'
<1>1. read[r] \in Read /\ Sought(r) /\ AuthorityTypeOK /\ AuthorityInv
  BY DEF LookupInv, LookupTypeOK
<1>2. /\ read'[r].step = read[r].step /\ read'[r].key = read[r].key
      /\ read'[r].todo = read[r].todo /\ read'[r].found = read[r].found
      /\ read'[r].absent = (read[r].absent \/
            (read[r].step = "scan" /\ \A o \in Owner : rows'[o] # read[r].key))
  BY <1>1 DEF Watch, Read
<1>. SUFFICES ASSUME read[r].step = "scan", ~ read[r].found, ~ read'[r].absent
              PROVE  \E o \in Owner : rows'[o] = read[r].key /\ o[1] \in read[r].todo
  BY <1>1, <1>2 DEF Sought, Holders
<1>3. PICK k \in Key : k = read[r].key
  BY <1>1 DEF Sought
<1>4. PICK o \in Owner : rows[o] = k /\ o[1] \in read[r].todo
  BY <1>1, <1>2, <1>3 DEF Sought, Holders
<1>5. \E q \in Owner : rows'[q] = k
  BY <1>2, <1>3
<1>6. CASE UNCHANGED rows
  BY <1>3, <1>4, <1>6
<1>7. CASE \E v \in Writer : Commit(v)
  <2>1. \E q \in Owner : rows'[q] = k /\ q[1] = o[1]
    BY <1>1, <1>4, <1>5, <1>7, CommitKeepsShard
  <2>. QED
    BY <1>3, <1>4, <2>1
<1>8. AuthorityNext
  BY DEF AuthorityNext
<1>. QED
  BY <1>6, <1>7, <1>8, OthersKeepRows

\* Reading a shard without a row that has the key leaves the row in another one.
LEMMA QuerySought ==
    ASSUME LookupInv, NEW q \in Reader, LookupStep(q), NEW r \in Reader
    PROVE  read'[r] \in Read /\ Sought(r)'
<1>1. read \in [Reader -> Read] /\ read[r] \in Read /\ Sought(r)
  BY DEF LookupInv, LookupTypeOK
<1>2. UNCHANGED vars /\ UNCHANGED rows
  BY DEF LookupStep, LookUp, ReadShard, EndRead, vars
<1>3. NoRead \in Read
  BY DEF NoRead, Read
<1>4. CASE read'[r] = read[r]
  BY <1>1, <1>2, <1>4 DEF Sought, Holders
<1>5. CASE r = q /\ \E k \in Key : LookUp(q, k)
  <2>1. PICK k \in Key : LookUp(q, k)
    BY <1>5
  <2>2. read'[r] = [step |-> "scan", key |-> k, found |-> FALSE,
                    todo |-> {o[1] : o \in LookupOwners(k)}, absent |-> Holders(k) = {}]
    BY <1>1, <1>5, <2>1 DEF LookUp
  <2>3. {o[1] : o \in LookupOwners(k)} \subseteq Shard
    <3>1. ASSUME NEW e \in Entry PROVE e[2][1] \in Shard
      BY DEF Entry, Owner
    <3>2. ASSUME NEW o \in LookupOwners(k) PROVE \E e \in Entry : o = e[2]
      <4>1. CASE \E f \in entries : o = f[2]
        BY <4>1 DEF LookupInv, LookupTypeOK, AuthorityTypeOK
      <4>2. CASE \E p \in Operation : o \in {e[2] : e \in
                    {operations[p].mutation.previous, operations[p].mutation.new} \ {NoEntry}}
        <5>1. PICK p \in Operation : o \in {e[2] : e \in
                    {operations[p].mutation.previous, operations[p].mutation.new} \ {NoEntry}}
          BY <4>2
        <5>2. operations[p].mutation \in Mutation
          BY DEF LookupInv, LookupTypeOK, AuthorityTypeOK
        <5>. QED
          BY <5>1, <5>2 DEF Mutation
      <4>. QED
        BY <4>1, <4>2 DEF LookupOwners
    <3>. QED
      BY <3>1, <3>2
  <2>4. read'[r] \in Read
    BY <2>2, <2>3 DEF Read
  <2>5. ASSUME Holders(k) # {} PROVE \E o \in Holders(k) : o[1] \in {p[1] : p \in LookupOwners(k)}
    BY <2>5, LookupHasHolder DEF LookupInv, LookupTypeOK
  <2>6. /\ read'[r].step = "scan" /\ read'[r].key = k
        /\ read'[r].todo = {o[1] : o \in LookupOwners(k)}
        /\ read'[r].absent = (Holders(k) = {})
    BY <2>2
  <2>7. \A o \in Holders(k) : o \in Owner /\ rows'[o] = k
    BY <1>2 DEF Holders
  <2>8. Sought(r)'
    BY <2>5, <2>6, <2>7 DEF Sought, Holders
  <2>. QED
    BY <2>4, <2>8
<1>6. CASE r = q /\ \E s \in Shard : ReadShard(q, s)
  <2>1. PICK s \in Shard : ReadShard(q, s)
    BY <1>6
  <2>2. read'[r] = [read[r] EXCEPT !.todo = @ \ {s},
                       !.found = @ \/ \E o \in Holders(read[r].key) : o[1] = s]
    BY <1>1, <1>6, <2>1 DEF ReadShard
  <2>3. /\ read'[r].step = read[r].step /\ read'[r].key = read[r].key
        /\ read'[r].absent = read[r].absent /\ read'[r].todo = read[r].todo \ {s}
        /\ read'[r].found = (read[r].found \/ \E o \in Holders(read[r].key) : o[1] = s)
    BY <1>1, <2>2 DEF Read
  <2>4. read'[r] \in Read
    BY ZenonT(40), <1>1, <2>2 DEF Read
  <2>. QED
    BY <1>1, <1>2, <2>3, <2>4 DEF Sought, Holders
<1>7. CASE r = q /\ EndRead(q)
  <2>1. read'[r] = NoRead
    BY <1>1, <1>7 DEF EndRead
  <2>. QED
    BY <1>3, <2>1 DEF Sought, NoRead
<1>8. r # q => read'[r] = read[r]
  BY <1>1 DEF LookupStep, LookUp, ReadShard, EndRead
<1>. QED
  BY <1>4, <1>5, <1>6, <1>7, <1>8 DEF LookupStep

\* The invariant holds at the start.
LEMMA LookupInitInv == LookupInit => LookupInv
<1>. SUFFICES ASSUME LookupInit PROVE LookupInv
  OBVIOUS
<1>1. NoRead \in Read
  BY DEF NoRead, Read
<1>2. AuthorityTypeOK /\ AuthorityInv
  BY InvInit DEF LookupInit
<1>. QED
  BY <1>1, <1>2 DEF LookupInit, LookupInv, LookupTypeOK, Sought, NoRead

\* Every step of a query, a writer or a rebuild preserves it.
LEMMA LookupInvStep == ASSUME LookupInv, [LookupNext]_lookupVars PROVE LookupInv'
<1>1. [AuthorityNext]_vars
  BY DEF LookupNext, lookupVars, AuthorityNext, LookupStep, LookUp, ReadShard, EndRead
<1>2. AuthorityTypeOK' /\ AuthorityInv'
  BY <1>1, InvStep DEF LookupInv, LookupTypeOK
<1>3. read \in [Reader -> Read]
  BY DEF LookupInv, LookupTypeOK
<1>4. CASE \E q \in Reader : LookupStep(q)
  <2>1. read' \in [Reader -> Read]
    <3>1. \A r \in Reader : read'[r] \in Read
      BY <1>4, QuerySought
    <3>2. \E f : read' = [r \in Reader |-> f[r]]
      <4>1. PICK q \in Reader : LookupStep(q)
        BY <1>4
      <4>2. DOMAIN read' = Reader /\ read' = [r \in DOMAIN read' |-> read'[r]]
        BY <1>3, <4>1 DEF LookupStep, LookUp, ReadShard, EndRead
      <4>. QED
        BY <4>2
    <3>. QED
      BY <3>1, <3>2
  <2>2. \A r \in Reader : Sought(r)'
    BY <1>4, QuerySought
  <2>. QED
    BY <1>2, <2>1, <2>2 DEF LookupInv, LookupTypeOK
<1>5. CASE (\E w \in Writer : WriterStep(w)) /\ Watch
  <2>1. read' \in [Reader -> Read]
    <3>1. \A e \in Read : \A a \in BOOLEAN : [e EXCEPT !.absent = a] \in Read
      BY DEF Read
    <3>2. \A e \in Read : e.absent \in BOOLEAN
      BY DEF Read
    <3>. QED
      BY <1>3, <1>5, <3>1, <3>2 DEF Watch
  <2>2. \A r \in Reader : Sought(r)'
    BY <1>5, WriterSought
  <2>. QED
    BY <1>2, <2>1, <2>2 DEF LookupInv, LookupTypeOK
<1>6. CASE UNCHANGED lookupVars \/ (Rebuild /\ UNCHANGED read)
  <2>1. UNCHANGED <<rows, read>>
    BY <1>6 DEF lookupVars, vars, Rebuild
  <2>2. \A r \in Reader : Sought(r)'
    BY <2>1 DEF LookupInv, Sought, Holders
  <2>. QED
    BY <1>2, <1>3, <2>1, <2>2 DEF LookupInv, LookupTypeOK
<1>. QED
  BY <1>4, <1>5, <1>6 DEF LookupNext

\* A query through a unique index that has read all its shards and found nothing is right
\* about some moment of its run, whatever is reserved, committed, finalised, abandoned or
\* recovered meanwhile (lookup_authoritative_owners).
THEOREM LookupsSafe == LookupSpec => []LookupComplete
<1>1. LookupInv => LookupComplete
  BY DEF LookupInv, Sought, LookupComplete
<1>2. LookupInv /\ [LookupNext]_lookupVars => LookupInv'
  BY LookupInvStep
<1>. QED
  BY <1>1, <1>2, LookupInitInv, PTL DEF LookupSpec
================================================================================
