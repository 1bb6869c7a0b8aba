------------------------- MODULE UniqueAuthorityProofs -------------------------
(***************************************************************************)
(* Proofs about UniqueAuthority: owners, reservations and rows agree for   *)
(* every number of shards, rows, keys, processes and operations.           *)
(***************************************************************************)
EXTENDS UniqueAuthority, TLAPS

--------------------------------------------------------------------------------
(* Types.                                                                  *)

\* The two parts of a mutation.
LEMMA MutationType ==
    /\ NoMutation \in Mutation
    /\ \A m \in Mutation :
          /\ m.previous \in Entry \cup {NoEntry} /\ m.new \in Entry \cup {NoEntry}
          /\ m = [previous |-> m.previous, new |-> m.new]
BY DEF Mutation, NoMutation

\* Idle is a local state.
LEMMA IdleType == Idle \in Local
<1>1. (CHOOSE s \in Shard : TRUE) \in Shard
  BY AuthorityAssumption
<1>. QED
  BY <1>1, MutationType DEF Idle, Local

\* The parts of an index entry.
LEMMA EntryParts ==
    ASSUME NEW e \in Entry
    PROVE  e[1] \in Key /\ e[2] \in Owner /\ e[2][1] \in Shard /\ e = <<e[1], e[2]>>
BY DEF Entry, Owner

\* KeysOf collects the keys of the two entries of a mutation and nothing else.
LEMMA KeysOfType ==
    ASSUME NEW m \in Mutation
    PROVE  /\ KeysOf(m) \subseteq Key
           /\ m.previous # NoEntry => m.previous \in Entry /\ m.previous[1] \in KeysOf(m)
           /\ m.new # NoEntry => m.new \in Entry /\ m.new[1] \in KeysOf(m)
           /\ \A k \in KeysOf(m) : \/ m.previous # NoEntry /\ k = m.previous[1]
                                   \/ m.new # NoEntry /\ k = m.new[1]
BY MutationType, EntryParts DEF KeysOf

\* A rebuild assigns owners.
LEMMA RowOwnersType == RowOwners \in [Key -> Owner \cup {NoOwner}]
<1>1. ASSUME NEW k \in Key, Holders(k) # {}
      PROVE  (CHOOSE o \in Holders(k) : TRUE) \in Owner
  BY <1>1 DEF Holders
<1>. QED
  BY <1>1 DEF RowOwners

\* A finalisation assigns owners.
LEMMA KeysAfterType ==
    ASSUME AuthorityTypeOK, NEW m \in Mutation
    PROVE  KeysAfter(m) \in [Key -> Owner \cup {NoOwner}]
BY MutationType, EntryParts DEF KeysAfter, AuthorityTypeOK

\* A commit writes keys.
LEMMA RowsAfterType ==
    ASSUME AuthorityTypeOK, NEW m \in Mutation
    PROVE  RowsAfter(m) \in [Owner -> Key \cup {NoKey}]
BY MutationType, EntryParts DEF RowsAfter, AuthorityTypeOK

\* The parts of the local state of a process.
LEMMA LocalType ==
    ASSUME AuthorityTypeOK, NEW w \in Writer
    PROVE  /\ writer[w] \in Local
           /\ writer[w].mutation \in Mutation
           /\ writer[w].shard \in Shard
           /\ writer[w].operation \in Operation \cup {NoOperation}
           /\ writer[w].todo \subseteq Operation
BY DEF AuthorityTypeOK, Local

\* A step of one process keeps the others typed.
LEMMA BecomeType ==
    ASSUME AuthorityTypeOK, NEW w \in Writer, NEW local \in Local, Become(w, local)
    PROVE  writer' \in [Writer -> Local]
BY DEF Become, AuthorityTypeOK

\* Holding a lease names an operation.
LEMMA HoldsOperation ==
    ASSUME LeaseInv, NEW w \in Writer, writer[w].step \in Holding
    PROVE  /\ writer[w].operation \in Operation
           /\ lease[writer[w].operation] = w
           /\ operations[writer[w].operation].state # "none"
BY DEF LeaseInv

\* finalize_unique_write and rollback_unique keep the tables typed.
LEMMA SettleType ==
    ASSUME AuthorityTypeOK, NEW p \in Operation,
           FinalizeOperation(p) \/ RollBackOperation(p)
    PROVE  /\ uniqueKeys' \in [Key -> Owner \cup {NoOwner}]
           /\ entries' \subseteq Entry
           /\ operations' \in [Operation ->
                 [state : {"none", "active", "finalized", "rolled_back"}, mutation : Mutation]]
           /\ reservations' \in [Key -> Operation \cup {NoOperation}]
<1>1. Unlocked(p) \in [Key -> Operation \cup {NoOperation}]
  BY DEF Unlocked, AuthorityTypeOK
<1>2. \A x \in {"none", "active", "finalized", "rolled_back"} :
        [operations EXCEPT ![p].state = x] \in [Operation ->
          [state : {"none", "active", "finalized", "rolled_back"}, mutation : Mutation]]
  BY DEF AuthorityTypeOK
<1>3. CASE RollBackOperation(p)
  BY <1>1, <1>2, <1>3 DEF RollBackOperation, AuthorityTypeOK
<1>4. CASE FinalizeOperation(p) /\ operations[p].state = "finalized"
  BY <1>4 DEF FinalizeOperation, authorityVars, AuthorityTypeOK
<1>5. CASE FinalizeOperation(p) /\ operations[p].state # "finalized"
  <2>. DEFINE m == operations[p].mutation
  <2>1. operations' = [operations EXCEPT ![p].state = "finalized"]
        /\ uniqueKeys' = KeysAfter(m) /\ entries' = Refreshed(ShardsOf(m))
        /\ reservations' = Unlocked(p)
    BY <1>5 DEF FinalizeOperation
  <2>2. KeysAfter(m) \in [Key -> Owner \cup {NoOwner}]
    <3>1. m \in Mutation
      BY DEF AuthorityTypeOK
    <3>. QED  BY <3>1, KeysAfterType
  <2>3. Refreshed(ShardsOf(m)) \subseteq Entry
    BY DEF Refreshed, RowEntries, AuthorityTypeOK
  <2>. QED
    BY <2>1, <2>2, <2>3, <1>1, <1>2
<1>. QED
  BY <1>3, <1>4, <1>5

\* Every step preserves the type invariant; leases say that a holder has an operation.
LEMMA TypeStep ==
    ASSUME AuthorityTypeOK, LeaseInv, [AuthorityNext]_vars
    PROVE  AuthorityTypeOK'
<1>. USE MutationType, IdleType
<1>a. CASE UNCHANGED vars
  BY <1>a DEF AuthorityTypeOK, vars, authorityVars
<1>b. CASE Rebuild
  <2>1. [p \in Operation |-> IF operations[p].state = "active"
                               THEN [operations[p] EXCEPT !.state = "rolled_back"]
                               ELSE operations[p]]
          \in [Operation ->
                [state : {"none", "active", "finalized", "rolled_back"}, mutation : Mutation]]
    BY DEF AuthorityTypeOK
  <2>. QED
    BY <1>b, <2>1, RowOwnersType DEF Rebuild, AuthorityTypeOK, RowEntries
<1>c. ASSUME NEW w \in Writer, WriterStep(w)  PROVE AuthorityTypeOK'
  <2>l. writer[w] \in Local /\ writer[w].mutation \in Mutation /\ writer[w].shard \in Shard
        /\ writer[w].operation \in Operation \cup {NoOperation}
        /\ writer[w].todo \subseteq Operation
    BY LocalType
  <2>1. CASE \E s \in Shard, m \in Mutation : OpenTransaction(w, s, m)
    <3>1. PICK s \in Shard, m \in Mutation : OpenTransaction(w, s, m)
      BY <2>1
    <3>2. [Idle EXCEPT !.step = "open", !.shard = s, !.mutation = m] \in Local
      BY DEF Local, InTransaction
    <3>. QED
      BY <3>1, <3>2, BecomeType DEF OpenTransaction, AuthorityTypeOK, authorityVars
  <2>2. CASE ListActive(w)
    <3>1. [writer[w] EXCEPT !.step = "recover",
             !.todo = {p \in Operation : operations[p].state = "active"}] \in Local
      BY <2>l DEF Local, InTransaction, Recovering
    <3>. QED
      BY <2>2, <3>1, BecomeType DEF ListActive, AuthorityTypeOK, authorityVars
  <2>3. CASE \E p \in Operation : OpenMarker(w, p)
    <3>1. PICK p \in Operation : OpenMarker(w, p)
      BY <2>3
    <3>2. [writer[w] EXCEPT !.step = "opened", !.operation = p, !.todo = @ \ {p}] \in Local
          /\ [writer[w] EXCEPT !.todo = @ \ {p}] \in Local
      BY <2>l DEF Local, InTransaction, Recovering
    <3>. QED
      BY <3>1, <3>2, BecomeType DEF OpenMarker, AuthorityTypeOK, authorityVars
  <2>4. CASE LockMarker(w)
    <3>1. [writer[w] EXCEPT !.step = "recover", !.operation = NoOperation] \in Local
          /\ [writer[w] EXCEPT !.step = "locked"] \in Local
      BY <2>l DEF Local, InTransaction, Recovering
    <3>2. writer' \in [Writer -> Local]
      BY <2>4, <3>1, BecomeType DEF LockMarker
    <3>3. lease' \in [Operation -> Writer \cup {NoWriter}]
      BY <2>4 DEF LockMarker, AuthorityTypeOK
    <3>. QED
      BY <2>4, <3>2, <3>3 DEF LockMarker, AuthorityTypeOK, authorityVars
  <2>5. CASE ProbeNew(w)
    <3>1. [writer[w] EXCEPT !.step = "probed",
             !.newMatches = Matches(operations[writer[w].operation].mutation.new)] \in Local
      BY <2>l DEF Local, InTransaction, Recovering, Matches
    <3>. QED
      BY <2>5, <3>1, BecomeType DEF ProbeNew, AuthorityTypeOK, authorityVars
  <2>6. CASE Decide(w)
    <3>. DEFINE m == operations[writer[w].operation].mutation
                d == Decision(m, Matches(m.previous), writer[w].newMatches)
    <3>1. d \in {"finalize", "rollback", "ambiguous"}
      BY DEF Decision
    <3>2. d # "ambiguous" => [writer[w] EXCEPT !.step = d] \in Local
      BY <2>l, <3>1 DEF Local, InTransaction, Recovering
    <3>. HIDE DEF d
    <3>3. writer' \in [Writer -> Local]
      BY <2>6, <3>2, BecomeType DEF Decide, d
    <3>4. lease' \in [Operation -> Writer \cup {NoWriter}] /\ degraded' \subseteq Writer
      BY <2>6 DEF Decide, AuthorityTypeOK
    <3>. QED
      BY <2>6, <3>3, <3>4 DEF Decide, AuthorityTypeOK, authorityVars
  <2>7. CASE Settle(w) \/ Complete(w)
    <3>1. writer[w].operation \in Operation
      BY <2>7, HoldsOperation DEF Settle, Complete, Holding
    <3>2. [writer[w] EXCEPT !.step = "settled"] \in Local
          /\ [writer[w] EXCEPT !.step = "finished"] \in Local
      BY <2>l DEF Local, InTransaction, Recovering
    <3>3. writer' \in [Writer -> Local]
      BY <2>7, <3>2, BecomeType DEF Settle, Complete
    <3>4. FinalizeOperation(writer[w].operation) \/ RollBackOperation(writer[w].operation)
      BY <2>7 DEF Settle, Complete
    <3>5. rows' = rows /\ markers' = markers /\ lease' = lease /\ degraded' = degraded
      BY <2>7 DEF Settle, Complete
    <3>. QED
      BY <3>1, <3>3, <3>4, <3>5, SettleType DEF AuthorityTypeOK
  <2>8. CASE SettleDone(w) \/ CompleteDone(w)
    <3>1. [writer[w] EXCEPT !.step = "recover", !.operation = NoOperation,
                            !.newMatches = FALSE] \in Local
      BY <2>l DEF Local, InTransaction, Recovering
    <3>2. writer' \in [Writer -> Local]
      BY <2>8, <3>1, BecomeType DEF SettleDone, CompleteDone, Release
    <3>3. lease' \in [Operation -> Writer \cup {NoWriter}] /\ markers' \subseteq Operation
      BY <2>8 DEF SettleDone, CompleteDone, Release, AuthorityTypeOK
    <3>. QED
      BY <2>8, <3>2, <3>3 DEF SettleDone, CompleteDone, Release, AuthorityTypeOK, authorityVars
  <2>9. CASE RepairSnapshot(w)
    <3>1. Refreshed({writer[w].shard}) \subseteq Entry
      BY DEF Refreshed, RowEntries, AuthorityTypeOK
    <3>. QED
      BY <2>9, <3>1, BecomeType DEF RepairSnapshot, AuthorityTypeOK
  <2>10. CASE \E p \in Operation : Reserve(w, p)
    <3>1. PICK p \in Operation : Reserve(w, p)
      BY <2>10
    <3>2. [writer[w] EXCEPT !.step = "reserved", !.operation = p] \in Local
      BY <2>l DEF Local, InTransaction
    <3>3. operations' \in [Operation ->
            [state : {"none", "active", "finalized", "rolled_back"}, mutation : Mutation]]
      BY <2>l, <3>1 DEF Reserve, AuthorityTypeOK
    <3>4. reservations' \in [Key -> Operation \cup {NoOperation}]
          /\ markers' \subseteq Operation
          /\ lease' \in [Operation -> Writer \cup {NoWriter}]
      BY <3>1 DEF Reserve, AuthorityTypeOK
    <3>. QED
      BY <3>1, <3>2, <3>3, <3>4, BecomeType DEF Reserve, AuthorityTypeOK
  <2>11. CASE Commit(w)
    <3>1. [writer[w] EXCEPT !.step = "committed"] \in Local
      BY <2>l DEF Local
    <3>2. rows' \in [Owner -> Key \cup {NoKey}]
      BY <2>11, <2>l, RowsAfterType DEF Commit
    <3>. QED
      BY <2>11, <3>1, <3>2, BecomeType DEF Commit, AuthorityTypeOK, authorityVars
  <2>12. CASE RollBackRows(w)
    <3>1. [writer[w] EXCEPT !.step = "aborting"] \in Local
      BY <2>l DEF Local
    <3>. QED
      BY <2>12, <3>1, BecomeType DEF RollBackRows, AuthorityTypeOK, authorityVars
  <2>13. CASE Abandon(w)
    BY <2>13, BecomeType DEF Abandon, AuthorityTypeOK, authorityVars
  <2>14. CASE Restart(w)
    BY <2>14 DEF Restart, AuthorityTypeOK, authorityVars
  <2>. QED
    BY <1>c, <2>1, <2>2, <2>3, <2>4, <2>5, <2>6, <2>7, <2>8, <2>9, <2>10, <2>11, <2>12,
       <2>13, <2>14 DEF WriterStep
<1>. QED
  BY <1>a, <1>b, <1>c DEF AuthorityNext

--------------------------------------------------------------------------------
(* Rows and the two sides of a mutation.                                   *)

\* What the probes see on either side.
LEMMA Sides ==
    ASSUME AuthorityTypeOK, NEW m \in Mutation, m.previous # m.new, CanFinalize(m)
    PROVE  /\ Before(m) => /\ m.previous # NoEntry => Matches(m.previous)
                           /\ ~ Matches(m.new)
           /\ After(m) => /\ ~ Matches(m.previous)
                          /\ m.new # NoEntry => Matches(m.new)
<1>t. /\ m.previous # NoEntry => m.previous \in Entry /\ m.previous[1] \in KeysOf(m)
                                 /\ m.previous[1] \in Key /\ m.previous[2] \in Owner
      /\ m.new # NoEntry => m.new \in Entry /\ m.new[1] \in KeysOf(m)
                            /\ m.new[1] \in Key /\ m.new[2] \in Owner
  BY KeysOfType, EntryParts
<1>d. m.previous # NoEntry /\ m.new # NoEntry /\ m.previous[1] = m.new[1]
        => m.previous[2] # m.new[2]
  <2>1. m.previous # NoEntry => m.previous = <<m.previous[1], m.previous[2]>>
    BY <1>t, EntryParts
  <2>2. m.new # NoEntry => m.new = <<m.new[1], m.new[2]>>
    BY <1>t, EntryParts
  <2>. QED  BY <2>1, <2>2
<1>1. ASSUME Before(m), m.previous # NoEntry  PROVE Matches(m.previous)
  <2>1. Holders(m.previous[1]) = {m.previous[2]} \ {NoOwner}
    BY <1>1, <1>t DEF Before, CanFinalize
  <2>2. m.previous[2] \in Holders(m.previous[1])
    BY <2>1, <1>1, <1>t, AuthorityAssumption
  <2>. QED  BY <2>2, <1>1 DEF Holders, Matches
<1>2. ASSUME Before(m), m.new # NoEntry  PROVE ~ Matches(m.new)
  <2>1. m.new[2] \notin Holders(m.new[1])
    <3>1. CASE m.previous # NoEntry /\ m.previous[1] = m.new[1]
      BY <3>1, <1>2, <1>t, <1>d DEF Before, CanFinalize
    <3>2. CASE ~ (m.previous # NoEntry /\ m.previous[1] = m.new[1])
      BY <3>2, <1>2, <1>t DEF Before, CanFinalize
    <3>. QED  BY <3>1, <3>2
  <2>. QED  BY <2>1, <1>2, <1>t DEF Holders, Matches
<1>3. ASSUME After(m), m.new # NoEntry  PROVE Matches(m.new)
  <2>1. KeysAfter(m)[m.new[1]] = m.new[2]
    BY <1>3, <1>t DEF KeysAfter
  <2>2. m.new[2] \in Holders(m.new[1])
    BY <2>1, <1>3, <1>t, AuthorityAssumption DEF After
  <2>. QED  BY <2>2, <1>3 DEF Holders, Matches
<1>4. ASSUME After(m), m.previous # NoEntry  PROVE ~ Matches(m.previous)
  <2>1. CASE m.new # NoEntry /\ m.previous[1] = m.new[1]
    <3>1. KeysAfter(m)[m.previous[1]] = m.new[2]
      BY <1>4, <1>t, <2>1 DEF KeysAfter
    <3>. QED
      BY <3>1, <2>1, <1>4, <1>t, <1>d DEF After, Holders, Matches
  <2>2. CASE ~ (m.new # NoEntry /\ m.previous[1] = m.new[1])
    <3>1. KeysAfter(m)[m.previous[1]] = NoOwner
      BY <1>4, <1>t, <2>2 DEF KeysAfter
    <3>. QED
      BY <3>1, <1>4, <1>t DEF After, Holders, Matches
  <2>. QED  BY <2>1, <2>2
<1>. QED
  BY <1>1, <1>2, <1>3, <1>4 DEF Matches

\* The decision names the side.
LEMMA DecisionSide ==
    ASSUME AuthorityTypeOK, NEW m \in Mutation, m.previous # m.new, CanFinalize(m),
           Before(m) \/ After(m)
    PROVE  /\ Before(m) => Decision(m, Matches(m.previous), Matches(m.new)) = "rollback"
           /\ After(m) => Decision(m, Matches(m.previous), Matches(m.new)) = "finalize"
<1>1. CASE Before(m)
  <2>1. ~ Matches(m.new) /\ (m.previous # NoEntry => Matches(m.previous))
    BY <1>1, Sides
  <2>2. Decision(m, Matches(m.previous), Matches(m.new)) = "rollback"
    BY <2>1 DEF Decision
  <2>3. ~ After(m)
    BY <2>1, Sides DEF Matches
  <2>. QED  BY <2>2, <2>3
<1>2. CASE After(m)
  <2>1. ~ Matches(m.previous) /\ (m.new # NoEntry => Matches(m.new))
    BY <1>2, Sides
  <2>2. Decision(m, Matches(m.previous), Matches(m.new)) = "finalize"
    BY <2>1 DEF Decision
  <2>3. ~ Before(m)
    BY <2>1, Sides DEF Matches
  <2>. QED  BY <2>2, <2>3
<1>. QED  BY <1>1, <1>2

\* A commit touches the holders of the keys of its mutation only ...
LEMMA CommitElsewhere ==
    ASSUME AuthorityTypeOK, NEW s \in Shard, NEW m \in Mutation, IsMutation(s, m),
           rows' = RowsAfter(m), NEW k \in Key, k \notin KeysOf(m)
    PROVE  Holders(k)' = Holders(k)
<1>t. /\ m.previous # NoEntry => m.previous \in Entry /\ m.previous[1] \in KeysOf(m)
                                 /\ m.previous[2] \in Owner
      /\ m.new # NoEntry => m.new \in Entry /\ m.new[1] \in KeysOf(m) /\ m.new[2] \in Owner
  BY KeysOfType, EntryParts
<1>1. ASSUME NEW o \in Owner  PROVE rows'[o] = k <=> rows[o] = k
  <2>1. CASE m.new # NoEntry /\ m.new[2] = o
    BY <2>1, <1>t, AuthorityAssumption DEF RowsAfter, IsMutation
  <2>2. CASE ~ (m.new # NoEntry /\ m.new[2] = o) /\ m.previous # NoEntry /\ m.previous[2] = o
    BY <2>2, <1>t, AuthorityAssumption DEF RowsAfter, IsMutation
  <2>3. CASE ~ (m.new # NoEntry /\ m.new[2] = o) /\ ~ (m.previous # NoEntry /\ m.previous[2] = o)
    BY <2>3 DEF RowsAfter
  <2>. QED  BY <2>1, <2>2, <2>3
<1>. QED
  BY <1>1 DEF Holders

\* ... and takes those to the other side.
LEMMA CommitMoves ==
    ASSUME AuthorityTypeOK, NEW s \in Shard, NEW m \in Mutation, IsMutation(s, m),
           rows' = RowsAfter(m), uniqueKeys' = uniqueKeys, CanFinalize(m), Before(m)
    PROVE  After(m)'
<1>t. /\ m.previous # NoEntry => m.previous \in Entry /\ m.previous[1] \in KeysOf(m)
                                 /\ m.previous[1] \in Key /\ m.previous[2] \in Owner
      /\ m.new # NoEntry => m.new \in Entry /\ m.new[1] \in KeysOf(m)
                            /\ m.new[1] \in Key /\ m.new[2] \in Owner
  BY KeysOfType, EntryParts
<1>0. KeysAfter(m)' = KeysAfter(m)
  BY DEF KeysAfter
<1>1. ASSUME m.new # NoEntry  PROVE Holders(m.new[1])' = {m.new[2]}
  <2>1. Holders(m.new[1]) = {} \/ (m.previous # NoEntry /\ Holders(m.new[1]) = {m.previous[2]})
    BY <1>1, <1>t, AuthorityAssumption DEF Before, CanFinalize
  <2>2. rows'[m.new[2]] = m.new[1]
    BY <1>1, <1>t DEF RowsAfter
  <2>3. ASSUME NEW o \in Owner, o # m.new[2]  PROVE rows'[o] # m.new[1]
    <3>1. CASE m.previous # NoEntry /\ m.previous[2] = o
      BY <3>1, <2>3, <1>1, <1>t, AuthorityAssumption DEF RowsAfter
    <3>2. CASE ~ (m.previous # NoEntry /\ m.previous[2] = o)
      <4>1. rows'[o] = rows[o]
        BY <3>2, <2>3 DEF RowsAfter
      <4>2. o \notin Holders(m.new[1])
        BY <2>1, <3>2
      <4>. QED  BY <4>1, <4>2 DEF Holders
    <3>. QED  BY <3>1, <3>2
  <2>. QED
    BY <2>2, <2>3, <1>1, <1>t DEF Holders
<1>2. ASSUME m.previous # NoEntry, ~ (m.new # NoEntry /\ m.previous[1] = m.new[1])
      PROVE  Holders(m.previous[1])' = {}
  <2>1. Holders(m.previous[1]) = {m.previous[2]} \ {NoOwner}
    BY <1>2, <1>t DEF Before, CanFinalize
  <2>2. ASSUME NEW o \in Owner  PROVE rows'[o] # m.previous[1]
    <3>1. CASE m.new # NoEntry /\ m.new[2] = o
      BY <3>1, <1>2, <1>t DEF RowsAfter
    <3>2. CASE ~ (m.new # NoEntry /\ m.new[2] = o) /\ m.previous[2] = o
      BY <3>2, <1>2, <1>t, AuthorityAssumption DEF RowsAfter
    <3>3. CASE ~ (m.new # NoEntry /\ m.new[2] = o) /\ m.previous[2] # o
      <4>1. rows'[o] = rows[o]
        BY <3>3 DEF RowsAfter
      <4>. QED  BY <4>1, <2>1, <3>3 DEF Holders
    <3>. QED  BY <3>1, <3>2, <3>3
  <2>. QED  BY <2>2 DEF Holders
<1>3. ASSUME NEW k \in KeysOf(m)  PROVE Holders(k)' = {KeysAfter(m)[k]} \ {NoOwner}
  <2>1. CASE m.new # NoEntry /\ k = m.new[1]
    BY <2>1, <1>1, <1>t, AuthorityAssumption DEF KeysAfter
  <2>2. CASE ~ (m.new # NoEntry /\ k = m.new[1])
    <3>1. m.previous # NoEntry /\ k = m.previous[1]
      BY <2>2, <1>3, KeysOfType
    <3>. QED  BY <3>1, <2>2, <1>2, <1>t DEF KeysAfter
  <2>. QED  BY <2>1, <2>2
<1>. QED
  BY <1>0, <1>3 DEF After

--------------------------------------------------------------------------------
(* What a step does to the operations and to the other processes.          *)

\* Settled operations stay settled, and no operation changes its mutation.
LEMMA OperationsKept ==
    ASSUME AuthorityTypeOK, LeaseInv, [AuthorityNext]_vars,
           NEW p \in Operation, operations[p].state # "none"
    PROVE  /\ operations'[p].state # "none"
           /\ operations'[p].mutation = operations[p].mutation
           /\ operations[p].state # "active" => operations'[p].state # "active"
<1>a. CASE UNCHANGED operations
  BY <1>a
<1>b. CASE Rebuild
  BY <1>b DEF Rebuild, AuthorityTypeOK
<1>c. ASSUME NEW w \in Writer, Settle(w) \/ Complete(w)
      PROVE  /\ operations'[p].state # "none"
             /\ operations'[p].mutation = operations[p].mutation
             /\ operations[p].state # "active" => operations'[p].state # "active"
  <2>1. writer[w].operation \in Operation
    BY <1>c, HoldsOperation DEF Settle, Complete, Holding
  <2>2. CASE FinalizeOperation(writer[w].operation)
    BY <2>1, <2>2 DEF FinalizeOperation, authorityVars, AuthorityTypeOK
  <2>3. CASE RollBackOperation(writer[w].operation)
    BY <2>1, <2>3 DEF RollBackOperation, AuthorityTypeOK
  <2>. QED
    BY <1>c, <2>2, <2>3 DEF Settle, Complete
<1>d. ASSUME NEW w \in Writer, NEW q \in Operation, Reserve(w, q)
      PROVE  operations'[p] = operations[p]
  BY <1>d DEF Reserve, AuthorityTypeOK
<1>. QED
  BY <1>a, <1>b, <1>c, <1>d
     DEF AuthorityNext, WriterStep, vars, authorityVars, OpenTransaction, ListActive, OpenMarker,
         LockMarker, ProbeNew, Decide, SettleDone, CompleteDone, Release, RepairSnapshot, Commit,
         RollBackRows, Abandon, Restart

\* A step of one process leaves the transactions of the others alone.
LEMMA OthersKept ==
    ASSUME AuthorityTypeOK, NEW w \in Writer, WriterStep(w), NEW v \in Writer, v # w
    PROVE  writer'[v] = writer[v]
<1>1. ASSUME NEW local, Become(w, local)  PROVE writer'[v] = writer[v]
  BY <1>1 DEF Become, AuthorityTypeOK
<1>2. (\E local : Become(w, local)) \/ writer' = writer
  <2>1. CASE Decide(w) \/ LockMarker(w) \/ (\E p \in Operation : OpenMarker(w, p))
    BY <2>1 DEF Decide, LockMarker, OpenMarker
  <2>2. CASE ListActive(w) \/ ProbeNew(w) \/ Settle(w) \/ SettleDone(w) \/ RepairSnapshot(w)
    BY <2>2 DEF ListActive, ProbeNew, Settle, SettleDone, Release, RepairSnapshot
  <2>3. CASE Commit(w) \/ RollBackRows(w) \/ Complete(w) \/ CompleteDone(w) \/ Abandon(w)
    BY <2>3 DEF Commit, RollBackRows, Complete, CompleteDone, Release, Abandon
  <2>4. CASE \/ \E s \in Shard, m \in Mutation : OpenTransaction(w, s, m)
             \/ \E p \in Operation : Reserve(w, p)
             \/ Restart(w)
    BY <2>4 DEF OpenTransaction, Reserve, Restart
  <2>. QED  BY <2>1, <2>2, <2>3, <2>4 DEF WriterStep
<1>. QED  BY <1>1, <1>2

\* The flock of a process is freed or taken by itself only.
LEMMA LeaseKept ==
    ASSUME AuthorityTypeOK, LeaseInv, NEW w \in Writer, WriterStep(w),
           NEW v \in Writer, v # w, NEW p \in Operation,
           lease[p] = v, operations[p].state # "none"
    PROVE  lease'[p] = v
<1>0. v # NoWriter
  BY AuthorityAssumption
<1>1. CASE LockMarker(w)
  BY <1>1, <1>0 DEF LockMarker, LeaseHeld, AuthorityTypeOK
<1>2. CASE Decide(w)
  <2>1. lease[writer[w].operation] = w
    BY <1>2, HoldsOperation DEF Decide, Holding
  <2>. QED  BY <2>1, <1>2 DEF Decide, AuthorityTypeOK
<1>3. CASE SettleDone(w) \/ CompleteDone(w)
  <2>1. lease[writer[w].operation] = w
    BY <1>3, HoldsOperation DEF SettleDone, CompleteDone, Holding
  <2>. QED  BY <2>1, <1>3 DEF SettleDone, CompleteDone, Release, AuthorityTypeOK
<1>4. ASSUME NEW q \in Operation, Reserve(w, q)  PROVE lease'[p] = v
  BY <1>4 DEF Reserve, AuthorityTypeOK
<1>5. CASE Abandon(w)
  BY <1>5 DEF Abandon, AuthorityTypeOK
<1>. QED
  BY <1>1, <1>2, <1>3, <1>4, <1>5
     DEF WriterStep, OpenTransaction, ListActive, OpenMarker, ProbeNew, Settle, RepairSnapshot,
         Commit, RollBackRows, Complete, Restart

\* Every step preserves: whoever works on an operation holds its flock.
LEMMA LeaseStep ==
    ASSUME AuthorityTypeOK, LeaseInv, [AuthorityNext]_vars
    PROVE  LeaseInv'
<1>. USE DEF Holding
<1>n. \A p \in Operation : operations[p].state # "none" => operations'[p].state # "none"
  BY OperationsKept
<1>a. CASE writer' = writer /\ lease' = lease
  <2>1. ASSUME NEW v \in Writer
        PROVE  writer[v].todo \subseteq Operation
    BY <2>1, LocalType
  <2>. QED  BY <1>a, <1>n, <2>1 DEF LeaseInv
<1>c. ASSUME NEW w \in Writer, WriterStep(w), NEW v \in Writer
      PROVE  /\ writer'[v].step \in Holding \cup {"opened"} =>
                  /\ writer'[v].operation \in Operation
                  /\ operations'[writer'[v].operation].state # "none"
             /\ writer'[v].step \in Holding => lease'[writer'[v].operation] = v
             /\ \A p \in writer'[v].todo : operations'[p].state # "none"
  <2>l. /\ writer[v] \in Local /\ writer[v].operation \in Operation \cup {NoOperation}
        /\ writer[v].todo \subseteq Operation
    BY LocalType
  <2>o. CASE v # w
    <3>1. writer'[v] = writer[v]
      BY <1>c, <2>o, OthersKept
    <3>2. ASSUME writer[v].step \in Holding
          PROVE  lease'[writer[v].operation] = v
      BY <3>2, <1>c, <2>o, HoldsOperation, LeaseKept
    <3>. QED  BY <3>1, <3>2, <2>l, <1>n DEF LeaseInv
  <2>w. ASSUME v = w, NEW local, Become(w, local)
        PROVE  writer'[v] = local
    BY <2>w DEF Become, AuthorityTypeOK
  <2>i. Idle.step = "idle" /\ Idle.operation = NoOperation /\ Idle.todo = {}
    BY DEF Idle
  <2>s. CASE v = w
    <3>1. ASSUME NEW s \in Shard, NEW m \in Mutation, OpenTransaction(w, s, m)
          PROVE  writer'[v].step = "open" /\ writer'[v].todo = {}
      BY <3>1, <2>s, <2>w DEF OpenTransaction, Idle
    <3>2. ASSUME ListActive(w)
          PROVE  /\ writer'[v].step = "recover"
                 /\ writer'[v].todo = {p \in Operation : operations[p].state = "active"}
      <4> DEFINE active == {p \in Operation : operations[p].state = "active"}
      <4>1. writer'[v] = [writer[v] EXCEPT !.step = "recover", !.todo = active]
        BY <3>2, <2>s, <2>w DEF ListActive
      <4> HIDE DEF active
      <4>2. writer'[v].step = "recover" /\ writer'[v].todo = active
        BY <4>1, <2>l DEF Local
      <4>. QED  BY <4>2 DEF active
    <3>3. ASSUME NEW p \in Operation, OpenMarker(w, p)
          PROVE  /\ writer'[v].step \in {"opened", "recover"}
                 /\ writer'[v].step = "opened" => writer'[v].operation = p
                 /\ p \in writer[v].todo /\ writer'[v].todo \subseteq writer[v].todo
      <4>1. /\ writer[v].step = "recover" /\ p \in writer[v].todo
            /\ \/ writer'[v] = [writer[v] EXCEPT !.step = "opened", !.operation = p,
                                                 !.todo = @ \ {p}]
               \/ writer'[v] = [writer[v] EXCEPT !.todo = @ \ {p}]
        BY <3>3, <2>s, <2>w DEF OpenMarker
      <4>2. CASE writer'[v] = [writer[v] EXCEPT !.step = "opened", !.operation = p, !.todo = @ \ {p}]
        BY <4>1, <4>2, <2>l DEF Local
      <4>3. CASE writer'[v] = [writer[v] EXCEPT !.todo = @ \ {p}]
        BY <4>1, <4>3, <2>l DEF Local
      <4>. QED  BY <4>1, <4>2, <4>3
    <3>4. ASSUME LockMarker(w)
          PROVE  /\ writer[v].step = "opened" /\ writer'[v].todo = writer[v].todo
                 /\ \/ writer'[v].step = "recover"
                    \/ /\ writer'[v].step = "locked"
                       /\ writer'[v].operation = writer[v].operation
                       /\ lease' = [lease EXCEPT ![writer[v].operation] = w]
      BY <3>4, <2>s, <2>w, <2>l DEF LockMarker, Local
    <3>5. ASSUME ProbeNew(w) \/ Settle(w) \/ Commit(w) \/ RollBackRows(w) \/ Complete(w)
          PROVE  /\ writer[v].step \in Holding /\ writer'[v].step \in Holding
                 /\ writer'[v].operation = writer[v].operation
                 /\ writer'[v].todo = writer[v].todo /\ lease' = lease
      BY <3>5, <2>s, <2>w, <2>l DEF ProbeNew, Settle, Commit, RollBackRows, Complete, Local
    <3>6. ASSUME Decide(w)
          PROVE  \/ writer'[v] = Idle
                 \/ /\ writer[v].step \in Holding /\ writer'[v].step \in Holding
                    /\ writer'[v].operation = writer[v].operation
                    /\ writer'[v].todo = writer[v].todo /\ lease' = lease
      <4>. DEFINE m == operations[writer[w].operation].mutation
                  d == Decision(m, Matches(m.previous), writer[w].newMatches)
      <4>1. d \in {"finalize", "rollback", "ambiguous"}
        BY DEF Decision
      <4>. HIDE DEF d
      <4>2. \/ Become(w, Idle)
            \/ /\ d # "ambiguous" /\ Become(w, [writer[w] EXCEPT !.step = d])
               /\ lease' = lease /\ writer[w].step = "probed"
        BY <3>6 DEF Decide, d
      <4>. QED  BY <4>1, <4>2, <2>s, <2>w, <2>l DEF Local
    <3>7. ASSUME SettleDone(w) \/ RepairSnapshot(w) \/ CompleteDone(w) \/ Abandon(w)
          PROVE  /\ writer'[v].step \in {"idle", "recover"}
                 /\ writer'[v].todo \subseteq writer[v].todo
      <4>1. \/ writer'[v] = [writer[v] EXCEPT !.step = "recover", !.operation = NoOperation,
                                              !.newMatches = FALSE]
            \/ writer'[v] = Idle
        BY <3>7, <2>s, <2>w DEF SettleDone, RepairSnapshot, CompleteDone, Release, Abandon
      <4>. QED  BY <4>1, <2>l, <2>i DEF Local
    <3>8. ASSUME NEW p \in Operation, Reserve(w, p)
          PROVE  /\ writer'[v].operation = p /\ lease'[p] = v /\ operations'[p].state = "active"
                 /\ writer'[v].todo = {}
      <4>1. writer'[v] = [writer[w] EXCEPT !.step = "reserved", !.operation = p]
        BY <3>8, <2>s, <2>w DEF Reserve
      <4>. QED  BY <4>1, <3>8, <2>s, <2>l DEF Reserve, Local, AuthorityTypeOK
    <3>9. ASSUME Restart(w)  PROVE writer' = writer /\ lease' = lease
      BY <3>9 DEF Restart
    <3>i. /\ writer[v].step \in Holding \cup {"opened"} =>
                /\ writer[v].operation \in Operation
                /\ operations[writer[v].operation].state # "none"
          /\ writer[v].step \in Holding => lease[writer[v].operation] = v
          /\ \A p \in writer[v].todo : operations[p].state # "none"
      BY DEF LeaseInv
    <3>1q. CASE \E s \in Shard, m \in Mutation : OpenTransaction(w, s, m)
      BY <3>1q, <3>1
    <3>2q. CASE ListActive(w)
      BY <3>2q, <3>2, <1>n
    <3>3q. CASE \E p \in Operation : OpenMarker(w, p)
      BY <3>3q, <3>3, <3>i, <1>n, <2>l
    <3>4q. CASE LockMarker(w)
      BY <3>4q, <3>4, <3>i, <1>n, <2>l, <2>s DEF AuthorityTypeOK
    <3>5q. CASE ProbeNew(w) \/ Settle(w) \/ Commit(w) \/ RollBackRows(w) \/ Complete(w)
      BY <3>5q, <3>5, <3>i, <1>n, <2>l
    <3>6q. CASE Decide(w)
      BY <3>6q, <3>6, <3>i, <1>n, <2>l, <2>i
    <3>7q. CASE SettleDone(w) \/ RepairSnapshot(w) \/ CompleteDone(w) \/ Abandon(w)
      BY <3>7q, <3>7, <3>i, <1>n, <2>l
    <3>8q. CASE \E p \in Operation : Reserve(w, p)
      BY <3>8q, <3>8
    <3>9q. CASE Restart(w)
      BY <3>9q, <3>9, <3>i, <1>n, <2>l
    <3>. QED
      BY <1>c, <3>1q, <3>2q, <3>3q, <3>4q, <3>5q, <3>6q, <3>7q, <3>8q, <3>9q DEF WriterStep
  <2>. QED  BY <2>o, <2>s
<1>1. CASE UNCHANGED vars \/ Rebuild
  BY <1>1, <1>a DEF vars, Rebuild
<1>2. CASE \E w \in Writer : WriterStep(w)
  BY <1>2, <1>c DEF LeaseInv
<1>. QED
  BY <1>1, <1>2 DEF AuthorityNext


\* A process is in a transaction after a step only if it was before, with the same
\* mutation and shard, or if it has just opened one.
LEMMA OwnTransaction ==
    ASSUME AuthorityTypeOK, NEW w \in Writer, WriterStep(w), writer'[w].step \in InTransaction
    PROVE  \/ /\ writer[w].step \in InTransaction
              /\ writer'[w].mutation = writer[w].mutation /\ writer'[w].shard = writer[w].shard
              /\ rows' = rows
           \/ \E s \in Shard, m \in Mutation : OpenTransaction(w, s, m)
<1>. USE DEF InTransaction, Recovering
<1>l. writer[w] \in Local
  BY LocalType
<1>w. ASSUME NEW local, Become(w, local)  PROVE writer'[w] = local
  BY <1>w DEF Become, AuthorityTypeOK
<1>i. Idle.step = "idle"
  BY DEF Idle
<1>1. CASE ListActive(w) \/ LockMarker(w) \/ ProbeNew(w) \/ Settle(w) \/ SettleDone(w)
  <2>1. \/ \E x : writer'[w] = [writer[w] EXCEPT !.step = "recover", !.todo = x]
        \/ writer'[w] = [writer[w] EXCEPT !.step = "recover", !.operation = NoOperation]
        \/ writer'[w] = [writer[w] EXCEPT !.step = "locked"]
        \/ \E x : writer'[w] = [writer[w] EXCEPT !.step = "probed", !.newMatches = x]
        \/ writer'[w] = [writer[w] EXCEPT !.step = "settled"]
        \/ writer'[w] = [writer[w] EXCEPT !.step = "recover", !.operation = NoOperation,
                                          !.newMatches = FALSE]
    BY <1>1, <1>w DEF ListActive, LockMarker, ProbeNew, Settle, SettleDone, Release
  <2>2. writer'[w].mutation = writer[w].mutation /\ writer'[w].shard = writer[w].shard
    BY <2>1, <1>l DEF Local
  <2>. QED
    BY <1>1, <2>2 DEF ListActive, LockMarker, ProbeNew, Settle, SettleDone, Release
<1>2. ASSUME NEW p \in Operation, OpenMarker(w, p) \/ Reserve(w, p)
      PROVE  /\ writer[w].step \in InTransaction
             /\ writer'[w].mutation = writer[w].mutation /\ writer'[w].shard = writer[w].shard
             /\ rows' = rows
  <2>1. \/ writer'[w] = [writer[w] EXCEPT !.step = "opened", !.operation = p, !.todo = @ \ {p}]
        \/ writer'[w] = [writer[w] EXCEPT !.todo = @ \ {p}]
        \/ writer'[w] = [writer[w] EXCEPT !.step = "reserved", !.operation = p]
    BY <1>2, <1>w DEF OpenMarker, Reserve
  <2>2. writer'[w].mutation = writer[w].mutation /\ writer'[w].shard = writer[w].shard
    BY <2>1, <1>l DEF Local
  <2>. QED  BY <1>2, <2>2 DEF OpenMarker, Reserve
<1>3. CASE Decide(w)
  <2>1. writer[w].step = "probed" /\ rows' = rows
        /\ (writer'[w] = Idle \/ \E d : writer'[w] = [writer[w] EXCEPT !.step = d])
    BY <1>3, <1>w DEF Decide
  <2>. QED  BY <2>1, <1>i, <1>l DEF Local
<1>4. CASE RepairSnapshot(w) \/ CompleteDone(w) \/ Abandon(w)
  BY <1>4, <1>w, <1>i DEF RepairSnapshot, CompleteDone, Release, Abandon
<1>5. CASE Commit(w) \/ RollBackRows(w) \/ Complete(w)
  <2>1. \/ writer'[w] = [writer[w] EXCEPT !.step = "committed"]
        \/ writer'[w] = [writer[w] EXCEPT !.step = "aborting"]
        \/ writer'[w] = [writer[w] EXCEPT !.step = "finished"]
    BY <1>5, <1>w DEF Commit, RollBackRows, Complete
  <2>. QED  BY <2>1, <1>l DEF Local
<1>6. CASE Restart(w)
  BY <1>6 DEF Restart
<1>. QED
  BY <1>1, <1>2, <1>3, <1>4, <1>5, <1>6 DEF WriterStep

\* A commit changes rows of its own shard only.
LEMMA CommitShard ==
    ASSUME AuthorityTypeOK, NEW s \in Shard, NEW m \in Mutation, IsMutation(s, m),
           rows' = RowsAfter(m), NEW o \in Owner, o[1] # s
    PROVE  rows'[o] = rows[o]
BY DEF RowsAfter, IsMutation

\* The rows change by a commit only.
LEMMA RowsKept ==
    ASSUME NEW w \in Writer, WriterStep(w)
    PROVE  rows' = rows \/ Commit(w)
BY DEF WriterStep, OpenTransaction, ListActive, OpenMarker, LockMarker, ProbeNew, Decide, Settle,
       SettleDone, CompleteDone, Release, RepairSnapshot, Reserve, RollBackRows, Complete,
       Abandon, Restart

\* Every step preserves: an open transaction sees the rows it was planned from.
LEMMA TransactionStep ==
    ASSUME AuthorityTypeOK, TransactionInv, [AuthorityNext]_vars
    PROVE  TransactionInv'
<1>a. CASE UNCHANGED vars \/ Rebuild
  BY <1>a DEF vars, Rebuild, TransactionInv, IsMutation
<1>b. ASSUME NEW w \in Writer, WriterStep(w)  PROVE TransactionInv'
  <2>1. \A v \in Writer : v # w => writer'[v] = writer[v]
    BY <1>b, OthersKept
  <2>2. \/ writer'[w].step \notin InTransaction
        \/ /\ writer[w].step \in InTransaction
           /\ writer'[w].mutation = writer[w].mutation /\ writer'[w].shard = writer[w].shard
           /\ rows' = rows
        \/ \E s \in Shard, m \in Mutation : OpenTransaction(w, s, m)
    BY <1>b, OwnTransaction
  <2>3. ASSUME NEW v \in Writer, v # w, writer[v].step \in InTransaction
        PROVE  \/ writer[v].mutation = NoMutation
               \/ IsMutation(writer[v].shard, writer[v].mutation)'
    <3>l. writer[v].mutation \in Mutation /\ writer[v].shard \in Shard
      BY LocalType
    <3>1. writer[v].mutation = NoMutation \/ IsMutation(writer[v].shard, writer[v].mutation)
      BY <2>3 DEF TransactionInv
    <3>2. CASE rows' = rows
      BY <3>1, <3>2, <2>1, <2>3 DEF IsMutation
    <3>3. CASE Commit(w) /\ writer[v].mutation # NoMutation
      <4>. DEFINE n == writer[v].mutation
                  m == writer[w].mutation
      <4>1. writer[w].step \in InTransaction /\ rows' = RowsAfter(m)
        BY <3>3 DEF Commit, InTransaction
      <4>2. writer[w].shard # writer[v].shard /\ (m = NoMutation \/ IsMutation(writer[w].shard, m))
        BY <4>1, <2>3 DEF TransactionInv
      <4>3. m \in Mutation /\ writer[w].shard \in Shard
        BY LocalType
      <4>4. ASSUME NEW o \in Owner, o[1] = writer[v].shard  PROVE rows'[o] = rows[o]
        <5>1. CASE m = NoMutation
          BY <5>1, <4>1 DEF RowsAfter, NoMutation
        <5>2. CASE m # NoMutation
          BY <5>2, <4>1, <4>2, <4>3, <4>4, CommitShard
        <5>. QED  BY <5>1, <5>2
      <4>5. /\ n.previous # NoEntry => n.previous[2] \in Owner
            /\ n.new # NoEntry => n.new[2] \in Owner
        BY <3>l, KeysOfType, EntryParts
      <4>6. IsMutation(writer[v].shard, n)
        BY <3>1, <3>3
      <4>. QED
        BY <4>4, <4>5, <4>6, <2>1, <2>3 DEF IsMutation
    <3>. QED  BY <1>b, <3>1, <3>2, <3>3, RowsKept
  <2>4. ASSUME writer'[w].step \in InTransaction
        PROVE  /\ \/ writer'[w].mutation = NoMutation
                  \/ IsMutation(writer[w].shard, writer[w].mutation)'
               /\ \A v \in Writer \ {w} :
                     writer[v].step \in InTransaction => writer[v].shard # writer'[w].shard
    <3>1. CASE \E s \in Shard, m \in Mutation : OpenTransaction(w, s, m)
      <4>1. PICK s \in Shard, m \in Mutation : OpenTransaction(w, s, m)
        BY <3>1
      <4>2. writer'[w] = [Idle EXCEPT !.step = "open", !.shard = s, !.mutation = m]
        BY <4>1 DEF OpenTransaction, Become, AuthorityTypeOK
      <4>3. writer'[w].shard = s /\ writer'[w].mutation = m
        BY <4>2 DEF Idle
      <4>. QED
        BY <4>1, <4>3 DEF OpenTransaction, IsMutation
    <3>2. CASE /\ writer[w].step \in InTransaction
               /\ writer'[w].mutation = writer[w].mutation /\ writer'[w].shard = writer[w].shard
               /\ rows' = rows
      BY <3>2 DEF TransactionInv, IsMutation
    <3>. QED  BY <2>2, <2>4, <3>1, <3>2
  <2>. QED
    BY <2>1, <2>3, <2>4 DEF TransactionInv
<1>. QED
  BY <1>a, <1>b DEF AuthorityNext


--------------------------------------------------------------------------------
(* What is known of an operation, and when it stays true.                  *)

\* What OperationInv says of one operation under way.
LEMMA ActiveFacts ==
    ASSUME AuthorityTypeOK, OperationInv, NEW p \in Operation, operations[p].state = "active"
    PROVE  LET m == operations[p].mutation
           IN  /\ m \in Mutation
               /\ p \in markers
               /\ m.previous # m.new
               /\ \A k \in KeysOf(m) : reservations[k] = p
               /\ CanFinalize(m)
               /\ Before(m) \/ After(m)
<1>1. operations[p].mutation \in Mutation
      /\ operations[p] = [state |-> "active", mutation |-> operations[p].mutation]
  BY DEF AuthorityTypeOK
<1>. QED  BY <1>1 DEF OperationInv

\* Two operations under way have no key in common.
LEMMA KeysApart ==
    ASSUME AuthorityTypeOK, OperationInv, NEW p \in Operation, NEW q \in Operation, p # q,
           operations[p].state = "active", operations[q].state = "active",
           NEW k \in KeysOf(operations[p].mutation)
    PROVE  k \notin KeysOf(operations[q].mutation)
BY ActiveFacts

\* A mutation whose keys nobody touches is seen as before.
LEMMA ViewKept ==
    ASSUME NEW m \in Mutation,
           \A k \in KeysOf(m) : Holders(k)' = Holders(k) /\ uniqueKeys'[k] = uniqueKeys[k]
    PROVE  /\ Before(m)' <=> Before(m)
           /\ After(m)' <=> After(m)
           /\ CanFinalize(m)' <=> CanFinalize(m)
           /\ Matches(m.previous)' <=> Matches(m.previous)
           /\ Matches(m.new)' <=> Matches(m.new)
<1>t. /\ KeysOf(m) \subseteq Key
      /\ m.previous # NoEntry => m.previous[1] \in KeysOf(m) /\ m.previous[2] \in Owner
      /\ m.new # NoEntry => m.new[1] \in KeysOf(m) /\ m.new[2] \in Owner
  BY KeysOfType, EntryParts
<1>1. Before(m)' <=> Before(m)
  BY DEF Before
<1>2. \A k \in KeysOf(m) : KeysAfter(m)'[k] = KeysAfter(m)[k]
  BY <1>t DEF KeysAfter
<1>3. After(m)' <=> After(m)
  BY <1>2 DEF After
<1>4. CanFinalize(m)' <=> CanFinalize(m)
  BY <1>t DEF CanFinalize
<1>5. ASSUME NEW e \in {m.previous, m.new}, e # NoEntry
      PROVE  (rows'[e[2]] = e[1]) <=> (rows[e[2]] = e[1])
  <2>1. e[2] \in Holders(e[1])' <=> e[2] \in Holders(e[1])
    BY <1>5, <1>t
  <2>2. e[2] \in Owner
    BY <1>5, <1>t
  <2>. QED  BY <2>1, <2>2 DEF Holders
<1>. QED
  BY <1>1, <1>3, <1>4, <1>5 DEF Matches

\* An active operation that a step leaves alone keeps its part of OperationInv.
LEMMA ActiveKept ==
    ASSUME AuthorityTypeOK, OperationInv, NEW p \in Operation, NEW m \in Mutation,
           operations[p].state = "active", operations[p].mutation = m, p \in markers',
           \A k \in KeysOf(m) : /\ Holders(k)' = Holders(k)
                                /\ uniqueKeys'[k] = uniqueKeys[k]
                                /\ reservations'[k] = reservations[k]
    PROVE  /\ p \in markers'
           /\ m.previous # m.new
           /\ \A k \in KeysOf(m) : reservations'[k] = p
           /\ CanFinalize(m)'
           /\ Before(m)' \/ After(m)'
BY ActiveFacts, ViewKept

\* A process that a step leaves alone keeps what it knows of its operation.
LEMMA KnowsKept ==
    ASSUME NEW v \in Writer, NEW p \in Operation, NEW m \in Mutation,
           writer'[v] = writer[v],
           operations'[p].state = "active" <=> operations[p].state = "active",
           operations[p].state = "active" =>
              \A k \in KeysOf(m) : Holders(k)' = Holders(k) /\ uniqueKeys'[k] = uniqueKeys[k],
           Knows(v, p, m)
    PROVE  Knows(v, p, m)'
<1>1. CASE operations[p].state = "active"
  <2>1. /\ Before(m)' <=> Before(m)
        /\ After(m)' <=> After(m)
        /\ Matches(m.new)' <=> Matches(m.new)
    BY <1>1, ViewKept
  <2>2. Matches(m.new)' = Matches(m.new)
    BY <2>1 DEF Matches
  <2>. QED
    BY <1>1, <2>1, <2>2 DEF Knows
<1>2. CASE operations[p].state # "active"
  BY <1>2 DEF Knows
<1>. QED  BY <1>1, <1>2

--------------------------------------------------------------------------------
(* Owners.                                                                 *)

\* The row that has a key is determined by the owner table and the side the
\* operation on the key is on.
LEMMA OneHolder ==
    ASSUME AuthorityTypeOK, OwnerTruth, OperationInv, NEW k \in Key
    PROVE  \E x \in Owner \cup {NoOwner} : Holders(k) = {x} \ {NoOwner}
<1>1. CASE reservations[k] = NoOperation
  BY <1>1 DEF OwnerTruth, AuthorityTypeOK
<1>2. CASE reservations[k] # NoOperation
  <2>. DEFINE p == reservations[k]
              m == operations[p].mutation
  <2>1. p \in Operation /\ operations[p].state = "active" /\ k \in KeysOf(m)
    BY <1>2 DEF OperationInv, AuthorityTypeOK
  <2>2. m \in Mutation /\ (Before(m) \/ After(m))
    BY <2>1, ActiveFacts
  <2>3. KeysAfter(m)[k] \in Owner \cup {NoOwner} /\ uniqueKeys[k] \in Owner \cup {NoOwner}
    BY <2>2, KeysAfterType DEF AuthorityTypeOK
  <2>. QED
    BY <2>1, <2>2, <2>3 DEF Before, After
<1>. QED  BY <1>1, <1>2

\* No two rows share a key, because every key has one holder at most.
LEMMA InvUnique ==
    ASSUME AuthorityTypeOK, OwnerTruth, OperationInv
    PROVE  UniqueRows
<1>1. SUFFICES ASSUME NEW o \in Owner, NEW p \in Owner, rows[o] = rows[p], rows[o] # NoKey
               PROVE  o = p
  BY DEF UniqueRows
<1>2. rows[o] \in Key
  BY <1>1 DEF AuthorityTypeOK
<1>3. PICK x \in Owner \cup {NoOwner} : Holders(rows[o]) = {x} \ {NoOwner}
  BY <1>2, OneHolder
<1>4. o \in Holders(rows[o]) /\ p \in Holders(rows[o])
  BY <1>1 DEF Holders
<1>. QED  BY <1>3, <1>4

\* A rebuild finds the right owners.
LEMMA RowOwnersTruth ==
    ASSUME AuthorityTypeOK, UniqueRows, NEW k \in Key
    PROVE  Holders(k) = {RowOwners[k]} \ {NoOwner}
<1>1. CASE Holders(k) = {}
  BY <1>1 DEF RowOwners
<1>2. CASE Holders(k) # {}
  <2>. DEFINE c == CHOOSE o \in Holders(k) : TRUE
  <2>1. c \in Holders(k)
    BY <1>2
  <2>2. RowOwners[k] = c
    BY <1>2 DEF RowOwners
  <2>. HIDE DEF c
  <2>3. ASSUME NEW o \in Holders(k)  PROVE o = c
    BY <2>1, AuthorityAssumption DEF UniqueRows, Holders, AuthorityTypeOK
  <2>4. c # NoOwner
    BY <2>1, AuthorityAssumption DEF Holders
  <2>. QED  BY <2>1, <2>2, <2>3, <2>4
<1>. QED  BY <1>1, <1>2


--------------------------------------------------------------------------------
(* The steps that change rows or the tables of global.sqlite.              *)

\* All other steps leave the rows and the tables alone.
LEMMA Effects ==
    ASSUME [AuthorityNext]_vars
    PROVE  \/ rows' = rows /\ UNCHANGED authorityVars
           \/ Rebuild
           \/ \E w \in Writer : \/ Commit(w) \/ RepairSnapshot(w) \/ Settle(w) \/ Complete(w)
                                \/ \E p \in Operation : Reserve(w, p)
BY DEF AuthorityNext, WriterStep, vars, OpenTransaction, ListActive, OpenMarker, LockMarker,
       ProbeNew, Decide, SettleDone, CompleteDone, Release, RollBackRows, Abandon, Restart

\* Settling an operation: it was settled already, or its process finalises it with
\* the rows on the side after it, or rolls it back with the rows on the side before.
LEMMA Settling ==
    ASSUME AuthorityTypeOK, AuthorityInv, NEW w \in Writer, Settle(w) \/ Complete(w)
    PROVE  LET p == writer[w].operation
               m == operations[p].mutation
           IN  /\ p \in Operation /\ m \in Mutation /\ rows' = rows
               /\ \/ UNCHANGED authorityVars
                  \/ /\ operations[p].state = "active" /\ After(m) /\ CanFinalize(m)
                     /\ operations' = [operations EXCEPT ![p].state = "finalized"]
                     /\ uniqueKeys' = KeysAfter(m) /\ entries' = Refreshed(ShardsOf(m))
                     /\ reservations' = Unlocked(p)
                  \/ /\ operations[p].state = "active" /\ Before(m)
                     /\ operations' = [operations EXCEPT ![p].state = "rolled_back"]
                     /\ reservations' = Unlocked(p)
                     /\ uniqueKeys' = uniqueKeys /\ entries' = entries
<1>. DEFINE p == writer[w].operation
            m == operations[p].mutation
<1>1. p \in Operation
  BY HoldsOperation DEF Settle, Complete, Holding, AuthorityInv
<1>2. m \in Mutation
  BY <1>1 DEF AuthorityTypeOK
<1>3. Knows(w, p, m)
  BY <1>1, <1>2 DEF AuthorityInv, SideInv
<1>4. rows' = rows
  BY DEF Settle, Complete
<1>5. CASE writer[w].step \in {"finalize", "committed"} /\ FinalizeOperation(p)
  <2>1. operations[p].state = "active" => After(m)
    BY <1>3, <1>5 DEF Knows
  <2>. QED
    BY <2>1, <1>1, <1>2, <1>4, <1>5 DEF FinalizeOperation
<1>6. CASE writer[w].step \in {"rollback", "aborting"} /\ RollBackOperation(p)
  <2>1. operations[p].state = "active" => Before(m)
    BY <1>3, <1>6 DEF Knows
  <2>2. CASE operations[p].state = "rolled_back"
    <3>1. [operations EXCEPT ![p].state = "rolled_back"] = operations
      BY <2>2, <1>1 DEF AuthorityTypeOK
    <3>2. Unlocked(p) = reservations
      <4>1. \A k \in Key : reservations[k] # p
        BY <2>2, <1>1, AuthorityAssumption DEF AuthorityInv, OperationInv
      <4>. QED  BY <4>1 DEF Unlocked, AuthorityTypeOK
    <3>. QED
      BY <3>1, <3>2, <1>1, <1>2, <1>4, <1>6 DEF RollBackOperation, authorityVars
  <2>. QED
    BY <2>1, <2>2, <1>1, <1>2, <1>4, <1>6 DEF RollBackOperation
<1>. QED
  BY <1>5, <1>6 DEF Settle, Complete

\* The facts of a process about to commit.
LEMMA Committing ==
    ASSUME AuthorityTypeOK, AuthorityInv, NEW w \in Writer, writer[w].step = "reserved"
    PROVE  LET p == writer[w].operation
               m == writer[w].mutation
           IN  /\ p \in Operation /\ m \in Mutation /\ operations[p].mutation = m
               /\ operations[p].state = "active" /\ CanFinalize(m) /\ Before(m)
               /\ m.previous # m.new
               /\ \A k \in KeysOf(m) : reservations[k] = p
               /\ writer[w].shard \in Shard /\ IsMutation(writer[w].shard, m)
<1>. DEFINE p == writer[w].operation
            m == writer[w].mutation
<1>1. p \in Operation
  BY HoldsOperation DEF Holding, AuthorityInv
<1>2. operations[p].mutation \in Mutation
  BY <1>1 DEF AuthorityTypeOK
<1>3. Knows(w, p, operations[p].mutation)
  BY <1>1, <1>2 DEF AuthorityInv, SideInv
<1>4. operations[p].mutation = m /\ operations[p].state = "active" /\ Before(m)
  BY <1>3 DEF Knows
<1>5. m.previous # m.new /\ CanFinalize(m) /\ \A k \in KeysOf(m) : reservations[k] = p
  BY <1>1, <1>4, ActiveFacts DEF AuthorityInv
<1>6. m # NoMutation
  BY <1>5 DEF NoMutation
<1>7. IsMutation(writer[w].shard, m)
  BY <1>6 DEF AuthorityInv, TransactionInv, InTransaction
<1>. QED
  BY <1>1, <1>2, <1>4, <1>5, <1>7, LocalType

\* Every step preserves: the owner of a key nobody has reserved is exact.
LEMMA OwnerStep ==
    ASSUME AuthorityTypeOK, AuthorityInv, [AuthorityNext]_vars
    PROVE  OwnerTruth'
<1>a. CASE rows' = rows /\ UNCHANGED authorityVars
  BY <1>a DEF AuthorityInv, OwnerTruth, Holders, authorityVars
<1>b. CASE Rebuild
  <2>1. UniqueRows
    BY InvUnique DEF AuthorityInv
  <2>2. \A k \in Key : Holders(k)' = Holders(k) /\ uniqueKeys'[k] = RowOwners[k]
    BY <1>b DEF Rebuild, Holders
  <2>. QED  BY <2>1, <2>2, RowOwnersTruth DEF OwnerTruth
<1>c. ASSUME NEW w \in Writer, Commit(w)  PROVE OwnerTruth'
  <2>. DEFINE m == writer[w].mutation
  <2>1. ASSUME NEW k \in Key, reservations[k] = NoOperation
        PROVE  Holders(k)' = Holders(k)
    <3>1. k \notin KeysOf(m)
      BY <1>c, <2>1, Committing, AuthorityAssumption DEF Commit
    <3>. QED  BY <1>c, <3>1, Committing, CommitElsewhere DEF Commit
  <2>. QED  BY <1>c, <2>1 DEF Commit, AuthorityInv, OwnerTruth, authorityVars
<1>d. ASSUME NEW w \in Writer, RepairSnapshot(w)  PROVE OwnerTruth'
  BY <1>d DEF RepairSnapshot, AuthorityInv, OwnerTruth, Holders
<1>e. ASSUME NEW w \in Writer, NEW p \in Operation, Reserve(w, p)  PROVE OwnerTruth'
  <2>1. \A k \in Key : reservations'[k] = NoOperation => reservations[k] = NoOperation
    BY <1>e, AuthorityAssumption DEF Reserve
  <2>. QED  BY <1>e, <2>1 DEF Reserve, AuthorityInv, OwnerTruth, Holders
<1>f. ASSUME NEW w \in Writer, Settle(w) \/ Complete(w)  PROVE OwnerTruth'
  <2>. DEFINE p == writer[w].operation
              m == operations[p].mutation
  <2>0. p \in Operation /\ m \in Mutation /\ rows' = rows
    BY <1>f, Settling
  <2>1. CASE UNCHANGED authorityVars
    BY <2>0, <2>1, <1>a
  <2>h. \A k \in Key : Holders(k)' = Holders(k)
    BY <2>0 DEF Holders
  <2>k. ASSUME NEW k \in Key, reservations' = Unlocked(p), reservations'[k] = NoOperation
        PROVE  reservations[k] = p \/ reservations[k] = NoOperation
    BY <2>k DEF Unlocked
  <2>m. ASSUME NEW k \in Key, reservations[k] = p  PROVE k \in KeysOf(m)
    BY <2>0, <2>m, AuthorityAssumption DEF AuthorityInv, OperationInv
  <2>n. ASSUME NEW k \in Key, reservations[k] = NoOperation, operations[p].state = "active"
        PROVE  k \notin KeysOf(m)
    BY <2>0, <2>n, ActiveFacts, AuthorityAssumption DEF AuthorityInv
  <2>2. CASE /\ operations[p].state = "active" /\ After(m)
             /\ uniqueKeys' = KeysAfter(m) /\ reservations' = Unlocked(p)
    <3>1. ASSUME NEW k \in Key, reservations'[k] = NoOperation
          PROVE  Holders(k)' = {uniqueKeys'[k]} \ {NoOwner}
      <4>1. CASE reservations[k] = p
        BY <4>1, <2>2, <2>h, <2>m DEF After
      <4>2. CASE reservations[k] = NoOperation
        <5>1. KeysAfter(m)[k] = uniqueKeys[k]
          BY <4>2, <2>n, <2>2, <2>0, KeysOfType DEF KeysAfter
        <5>. QED  BY <4>2, <5>1, <2>2, <2>h DEF AuthorityInv, OwnerTruth
      <4>. QED  BY <3>1, <2>2, <2>k, <4>1, <4>2
    <3>. QED  BY <3>1 DEF OwnerTruth
  <2>3. CASE /\ operations[p].state = "active" /\ Before(m)
             /\ uniqueKeys' = uniqueKeys /\ reservations' = Unlocked(p)
    <3>1. ASSUME NEW k \in Key, reservations'[k] = NoOperation
          PROVE  Holders(k)' = {uniqueKeys'[k]} \ {NoOwner}
      <4>1. CASE reservations[k] = p
        BY <4>1, <2>3, <2>h, <2>m DEF Before
      <4>2. CASE reservations[k] = NoOperation
        BY <4>2, <2>3, <2>h DEF AuthorityInv, OwnerTruth
      <4>. QED  BY <3>1, <2>3, <2>k, <4>1, <4>2
    <3>. QED  BY <3>1 DEF OwnerTruth
  <2>. QED
    BY <1>f, <2>1, <2>2, <2>3, Settling
<1>. QED
  BY <1>a, <1>b, <1>c, <1>d, <1>e, <1>f, Effects


\* As long as an operation is under way, nobody but the commit it protects touches
\* the holders, the owners or the locks of its keys.
LEMMA KeysUntouched ==
    ASSUME AuthorityTypeOK, AuthorityInv, [AuthorityNext]_vars, NEW q \in Operation,
           operations[q].state = "active", operations'[q].state = "active"
    PROVE  \/ \E w \in Writer : Commit(w) /\ writer[w].operation = q
           \/ \A k \in KeysOf(operations[q].mutation) :
                 /\ Holders(k)' = Holders(k)
                 /\ uniqueKeys'[k] = uniqueKeys[k]
                 /\ reservations'[k] = reservations[k]
<1>. DEFINE n == operations[q].mutation
<1>n. n \in Mutation /\ KeysOf(n) \subseteq Key /\ \A k \in KeysOf(n) : reservations[k] = q
  BY ActiveFacts, KeysOfType DEF AuthorityInv
<1>a. CASE rows' = rows /\ UNCHANGED authorityVars
  BY <1>a DEF Holders, authorityVars
<1>b. CASE Rebuild
  BY <1>b DEF Rebuild, AuthorityTypeOK
<1>c. ASSUME NEW w \in Writer, Commit(w), writer[w].operation # q
      PROVE  \A k \in KeysOf(n) : /\ Holders(k)' = Holders(k)
                                  /\ uniqueKeys'[k] = uniqueKeys[k]
                                  /\ reservations'[k] = reservations[k]
  <2>. DEFINE m == writer[w].mutation
  <2>1. ASSUME NEW k \in KeysOf(n)  PROVE k \notin KeysOf(m)
    BY <1>c, <1>n, Committing DEF Commit
  <2>2. ASSUME NEW k \in KeysOf(n)  PROVE Holders(k)' = Holders(k)
    BY <1>c, <1>n, <2>1, Committing, CommitElsewhere DEF Commit
  <2>. QED  BY <1>c, <2>2 DEF Commit, authorityVars
<1>d. ASSUME NEW w \in Writer, RepairSnapshot(w)
      PROVE  \A k \in KeysOf(n) : /\ Holders(k)' = Holders(k)
                                  /\ uniqueKeys'[k] = uniqueKeys[k]
                                  /\ reservations'[k] = reservations[k]
  BY <1>d DEF RepairSnapshot, Holders
<1>e. ASSUME NEW w \in Writer, NEW p \in Operation, Reserve(w, p)
      PROVE  \A k \in KeysOf(n) : /\ Holders(k)' = Holders(k)
                                  /\ uniqueKeys'[k] = uniqueKeys[k]
                                  /\ reservations'[k] = reservations[k]
  <2>1. \A k \in KeysOf(n) : k \notin KeysOf(writer[w].mutation)
    BY <1>e, <1>n, AuthorityAssumption DEF Reserve, CanReserve
  <2>. QED  BY <1>e, <1>n, <2>1 DEF Reserve, Holders
<1>f. ASSUME NEW w \in Writer, Settle(w) \/ Complete(w)
      PROVE  \A k \in KeysOf(n) : /\ Holders(k)' = Holders(k)
                                  /\ uniqueKeys'[k] = uniqueKeys[k]
                                  /\ reservations'[k] = reservations[k]
  <2>. DEFINE p == writer[w].operation
              m == operations[p].mutation
  <2>0. p \in Operation /\ m \in Mutation /\ rows' = rows
    BY <1>f, Settling
  <2>1. CASE UNCHANGED authorityVars
    BY <2>0, <2>1, <1>a DEF Holders, authorityVars
  <2>2. CASE /\ operations[p].state = "active" /\ reservations' = Unlocked(p)
             /\ \/ operations' = [operations EXCEPT ![p].state = "finalized"]
                   /\ uniqueKeys' = KeysAfter(m)
                \/ operations' = [operations EXCEPT ![p].state = "rolled_back"]
                   /\ uniqueKeys' = uniqueKeys
    <3>1. p # q
      BY <2>0, <2>2 DEF AuthorityTypeOK
    <3>2. \A k \in KeysOf(n) : k \notin KeysOf(m)
      BY <2>0, <2>2, <3>1, KeysApart DEF AuthorityInv
    <3>3. \A k \in KeysOf(n) : KeysAfter(m)[k] = uniqueKeys[k]
      BY <1>n, <2>0, <3>2, KeysOfType DEF KeysAfter
    <3>4. \A k \in KeysOf(n) : reservations'[k] = reservations[k]
      BY <1>n, <2>2, <3>1 DEF Unlocked
    <3>. QED  BY <2>0, <2>2, <3>3, <3>4 DEF Holders
  <2>. QED  BY <1>f, <2>1, <2>2, Settling
<1>. QED
  BY <1>a, <1>b, <1>c, <1>d, <1>e, <1>f, Effects

\* An operation that becomes active is the one reserved in this step.
LEMMA NewlyActive ==
    ASSUME AuthorityTypeOK, LeaseInv, [AuthorityNext]_vars, NEW q \in Operation,
           operations[q].state # "active", operations'[q].state = "active"
    PROVE  operations[q].state = "none" /\ \E w \in Writer : Reserve(w, q)
<1>1. operations[q].state = "none"
  BY OperationsKept
<1>2. ASSUME NEW w \in Writer, Settle(w) \/ Complete(w)  PROVE FALSE
  <2>1. writer[w].operation \in Operation
    BY <1>2, HoldsOperation DEF Settle, Complete, Holding
  <2>. QED
    BY <1>1, <1>2, <2>1
       DEF Settle, Complete, FinalizeOperation, RollBackOperation, authorityVars, AuthorityTypeOK
<1>3. ASSUME NEW w \in Writer, NEW p \in Operation, Reserve(w, p)  PROVE p = q
  BY <1>1, <1>3 DEF Reserve, AuthorityTypeOK
<1>4. ~ Rebuild
  BY <1>1 DEF Rebuild, AuthorityTypeOK
<1>5. ASSUME NEW w \in Writer, Commit(w) \/ RepairSnapshot(w)  PROVE FALSE
  BY <1>5 DEF Commit, RepairSnapshot, authorityVars
<1>. QED
  BY <1>1, <1>2, <1>3, <1>4, <1>5, Effects DEF authorityVars

\* Only the marker of a settled operation is removed.
LEMMA MarkersKept ==
    ASSUME AuthorityTypeOK, AuthorityInv, [AuthorityNext]_vars, NEW q \in markers,
           operations[q].state = "active"
    PROVE  q \in markers'
<1>1. ASSUME NEW w \in Writer, SettleDone(w) \/ CompleteDone(w)
      PROVE  markers' = markers \ {writer[w].operation} /\ q # writer[w].operation
  <2>1. writer[w].operation \in Operation
    BY <1>1, HoldsOperation DEF SettleDone, CompleteDone, Holding, AuthorityInv
  <2>2. operations[writer[w].operation].mutation \in Mutation
    BY <2>1 DEF AuthorityTypeOK
  <2>3. operations[writer[w].operation].state # "active"
    BY <1>1, <2>1, <2>2 DEF SettleDone, CompleteDone, AuthorityInv, SideInv, Knows
  <2>. QED  BY <1>1, <2>3 DEF SettleDone, CompleteDone, Release
<1>. QED
  BY <1>1 DEF AuthorityNext, WriterStep, vars, OpenTransaction, ListActive, OpenMarker, LockMarker,
       ProbeNew, Decide, Settle, RepairSnapshot, Reserve, Commit, RollBackRows, Complete, Abandon,
       Restart, Rebuild


\* A reservation takes keys whose owners are exact, so its operation starts with the
\* rows on the side before it.
LEMMA Reserving ==
    ASSUME AuthorityTypeOK, AuthorityInv, NEW w \in Writer, NEW p \in Operation, Reserve(w, p),
           NEW m \in Mutation, operations'[p] = [state |-> "active", mutation |-> m]
    PROVE  /\ m.previous # m.new
           /\ p \in markers'
           /\ \A k \in KeysOf(m) : reservations'[k] = p
           /\ CanFinalize(m)' /\ Before(m)'
<1>0. m = writer[w].mutation
  BY DEF Reserve, AuthorityTypeOK
<1>1. KeysOf(m) \subseteq Key
  BY KeysOfType
<1>2. m.previous # m.new
  BY <1>0 DEF Reserve, AuthorityInv, TransactionInv, InTransaction, Recovering, IsMutation
<1>3. p \in markers'
  BY DEF Reserve
<1>4. \A k \in KeysOf(m) : reservations'[k] = p
  BY <1>0, <1>1 DEF Reserve
<1>5. CanFinalize(m) /\ \A k \in KeysOf(m) : reservations[k] = NoOperation
  BY <1>0 DEF Reserve, CanReserve
<1>6. Before(m)
  BY <1>1, <1>5 DEF Before, AuthorityInv, OwnerTruth
<1>7. \A k \in KeysOf(m) : Holders(k)' = Holders(k) /\ uniqueKeys'[k] = uniqueKeys[k]
  BY DEF Reserve, Holders
<1>. QED
  BY <1>1, <1>2, <1>3, <1>4, <1>5, <1>6, <1>7, ViewKept

\* Every lock belongs to an operation under way that wants the key.
LEMMA LocksStep ==
    ASSUME AuthorityTypeOK, AuthorityInv, [AuthorityNext]_vars,
           NEW k \in Key, reservations'[k] # NoOperation
    PROVE  /\ operations'[reservations'[k]].state = "active"
           /\ k \in KeysOf(operations'[reservations'[k]].mutation)
<1>i. reservations[k] # NoOperation =>
        /\ reservations[k] \in Operation
        /\ operations[reservations[k]].state = "active"
        /\ k \in KeysOf(operations[reservations[k]].mutation)
  BY DEF AuthorityInv, OperationInv, AuthorityTypeOK
<1>a. CASE UNCHANGED <<operations, reservations>>
  BY <1>a, <1>i
<1>b. CASE Rebuild
  BY <1>b DEF Rebuild
<1>c. ASSUME NEW w \in Writer, NEW p \in Operation, Reserve(w, p)
      PROVE  /\ operations'[reservations'[k]].state = "active"
             /\ k \in KeysOf(operations'[reservations'[k]].mutation)
  <2>1. CASE k \in KeysOf(writer[w].mutation)
    <3>1. operations'[p] = [state |-> "active", mutation |-> writer[w].mutation]
          /\ reservations'[k] = p
      BY <1>c, <2>1 DEF Reserve, AuthorityTypeOK
    <3>. QED  BY <2>1, <3>1
  <2>2. CASE k \notin KeysOf(writer[w].mutation)
    <3>1. reservations'[k] = reservations[k] /\ reservations[k] # p
      BY <1>c, <1>i, <2>2 DEF Reserve
    <3>2. operations'[reservations[k]] = operations[reservations[k]]
      BY <1>c, <1>i, <3>1 DEF Reserve, AuthorityTypeOK
    <3>. QED  BY <3>1, <3>2, <1>i
  <2>. QED  BY <2>1, <2>2
<1>d. ASSUME NEW w \in Writer, Settle(w) \/ Complete(w)
      PROVE  /\ operations'[reservations'[k]].state = "active"
             /\ k \in KeysOf(operations'[reservations'[k]].mutation)
  <2>. DEFINE p == writer[w].operation
  <2>1. CASE UNCHANGED authorityVars
    BY <2>1, <1>a DEF authorityVars
  <2>2. CASE /\ reservations' = Unlocked(p)
             /\ \/ operations' = [operations EXCEPT ![p].state = "finalized"]
                \/ operations' = [operations EXCEPT ![p].state = "rolled_back"]
    <3>1. reservations'[k] = reservations[k] /\ reservations[k] # p
      BY <2>2 DEF Unlocked
    <3>2. operations'[reservations[k]] = operations[reservations[k]]
      BY <1>i, <2>2, <3>1 DEF AuthorityTypeOK
    <3>. QED  BY <3>1, <3>2, <1>i
  <2>. QED  BY <1>d, <2>1, <2>2, Settling
<1>e. ASSUME NEW w \in Writer, Commit(w) \/ RepairSnapshot(w)
      PROVE  UNCHANGED <<operations, reservations>>
  BY <1>e DEF Commit, RepairSnapshot, authorityVars
<1>. QED
  BY <1>a, <1>b, <1>c, <1>d, <1>e, Effects DEF authorityVars

\* Every step preserves: locks, markers and sides of the operations under way.
LEMMA OperationStep ==
    ASSUME AuthorityTypeOK, AuthorityInv, [AuthorityNext]_vars
    PROVE  OperationInv'
<1>1. ASSUME NEW q \in Operation, NEW m \in Mutation,
             operations'[q] = [state |-> "active", mutation |-> m]
      PROVE  /\ q \in markers'
             /\ m.previous # m.new
             /\ \A k \in KeysOf(m) : reservations'[k] = q
             /\ CanFinalize(m)'
             /\ Before(m)' \/ After(m)'
  <2>0. operations'[q].state = "active" /\ operations'[q].mutation = m
    BY <1>1
  <2>1. CASE operations[q].state # "active"
    <3>1. PICK w \in Writer : Reserve(w, q)
      BY <2>0, <2>1, NewlyActive DEF AuthorityInv
    <3>. QED  BY <1>1, <3>1, Reserving
  <2>2. CASE operations[q].state = "active"
    <3>1. operations[q].mutation = m
      BY <2>0, <2>2, OperationsKept DEF AuthorityInv
    <3>2. q \in markers'
      BY <2>2, ActiveFacts, MarkersKept DEF AuthorityInv
    <3>3. CASE \A k \in KeysOf(m) : /\ Holders(k)' = Holders(k)
                                    /\ uniqueKeys'[k] = uniqueKeys[k]
                                    /\ reservations'[k] = reservations[k]
      BY <2>2, <3>1, <3>2, <3>3, ActiveKept DEF AuthorityInv
    <3>4. ASSUME NEW w \in Writer, Commit(w), writer[w].operation = q
          PROVE  /\ m.previous # m.new
                 /\ \A k \in KeysOf(m) : reservations'[k] = q
                 /\ CanFinalize(m)'
                 /\ After(m)'
      <4>1. writer[w].step = "reserved" /\ writer[w].mutation = m
        BY <3>1, <3>4, Committing DEF Commit
      <4>2. /\ rows' = RowsAfter(m) /\ uniqueKeys' = uniqueKeys /\ reservations' = reservations
        BY <3>4, <4>1 DEF Commit, authorityVars
      <4>3. /\ m.previous # m.new /\ CanFinalize(m) /\ Before(m)
            /\ \A k \in KeysOf(m) : reservations[k] = q
            /\ writer[w].shard \in Shard /\ IsMutation(writer[w].shard, m)
        BY <3>4, <4>1, Committing
      <4>4. After(m)'
        BY <4>2, <4>3, CommitMoves
      <4>5. CanFinalize(m)'
        BY <4>2, <4>3 DEF CanFinalize
      <4>. QED  BY <4>2, <4>3, <4>4, <4>5
    <3>. QED
      BY <2>0, <2>2, <3>1, <3>2, <3>3, <3>4, KeysUntouched
  <2>. QED  BY <2>1, <2>2
<1>. QED
  BY <1>1, LocksStep DEF OperationInv


\* Without the flock there is nothing to know.
LEMMA KnowsNothing ==
    ASSUME NEW w \in Writer, NEW p \in Operation, NEW m \in Mutation,
           writer'[w].step \notin Holding \/ writer'[w].step = "locked"
    PROVE  Knows(w, p, m)'
BY DEF Knows, Holding

\* What the others know survives a step: an operation is settled by the holder of
\* its flock only.
LEMMA SideOthers ==
    ASSUME AuthorityTypeOK, AuthorityInv, [AuthorityNext]_vars, NEW v \in Writer,
           writer'[v] = writer[v],
           \A w \in Writer : v = w => ~ (Settle(w) \/ Complete(w) \/ Commit(w)),
           NEW p \in Operation, NEW m \in Mutation,
           writer[v].operation = p, operations'[p].mutation = m
    PROVE  Knows(v, p, m)'
<1>1. CASE writer[v].step \notin Holding
  BY <1>1, KnowsNothing
<1>2. CASE writer[v].step \in Holding
  <2>1. lease[p] = v /\ operations[p].state # "none"
    BY <1>2, HoldsOperation DEF AuthorityInv
  <2>2. /\ operations[p].mutation = m
        /\ operations[p].state # "active" => operations'[p].state # "active"
    BY <2>1, OperationsKept DEF AuthorityInv
  <2>3. Knows(v, p, m)
    BY <2>2 DEF AuthorityInv, SideInv
  <2>4. ASSUME NEW w \in Writer, writer[w].step \in Holding, writer[w].operation = p
        PROVE  w = v
    BY <2>1, <2>4, HoldsOperation DEF AuthorityInv
  <2>5. ASSUME operations[p].state = "active"  PROVE operations'[p].state = "active"
    <3>1. ~ Rebuild
      BY <1>2 DEF Rebuild, Holding
    <3>2. ASSUME NEW w \in Writer, Settle(w) \/ Complete(w)  PROVE operations'[p] = operations[p]
      <4>1. writer[w].step \in Holding
        BY <3>2 DEF Settle, Complete, Holding
      <4>2. writer[w].operation # p
        BY <3>2, <4>1, <2>4
      <4>3. \/ UNCHANGED authorityVars
            \/ operations' = [operations EXCEPT ![writer[w].operation].state = "finalized"]
            \/ operations' = [operations EXCEPT ![writer[w].operation].state = "rolled_back"]
        BY <3>2, Settling
      <4>. QED  BY <4>2, <4>3 DEF AuthorityTypeOK, authorityVars
    <3>3. ASSUME NEW w \in Writer, NEW q \in Operation, Reserve(w, q)
          PROVE  operations'[p] = operations[p]
      BY <2>1, <3>3 DEF Reserve, AuthorityTypeOK
    <3>4. ASSUME NEW w \in Writer, Commit(w) \/ RepairSnapshot(w)
          PROVE  operations'[p] = operations[p]
      BY <3>4 DEF Commit, RepairSnapshot, authorityVars
    <3>. QED
      BY <2>5, <3>1, <3>2, <3>3, <3>4, Effects DEF authorityVars
  <2>6. ASSUME NEW w \in Writer, Commit(w), writer[w].operation = p  PROVE FALSE
    <3>1. writer[w].step \in Holding
      BY <2>6 DEF Commit, Holding
    <3>. QED  BY <2>4, <2>6, <3>1
  <2>7. operations[p].state = "active" =>
           \A k \in KeysOf(m) : Holders(k)' = Holders(k) /\ uniqueKeys'[k] = uniqueKeys[k]
    BY <2>2, <2>5, <2>6, KeysUntouched
  <2>. QED
    BY <2>2, <2>3, <2>5, <2>7, KnowsKept
<1>. QED  BY <1>1, <1>2

\* What the process of the step itself knows after it.
LEMMA SideOwn ==
    ASSUME AuthorityTypeOK, AuthorityInv, [AuthorityNext]_vars, NEW w \in Writer, WriterStep(w),
           NEW p \in Operation, NEW m \in Mutation,
           writer'[w].operation = p, operations'[p].mutation = m
    PROVE  Knows(w, p, m)'
<1>. USE DEF Holding
<1>l. writer[w] \in Local /\ writer[w].mutation \in Mutation
  BY LocalType
<1>w. ASSUME NEW local, Become(w, local)  PROVE writer'[w] = local
  BY <1>w DEF Become, AuthorityTypeOK
<1>i. Idle.step = "idle"
  BY DEF Idle
\* The operation of a process that goes on with it.
<1>o. ASSUME writer[w].step \in Holding, writer'[w].operation = writer[w].operation
      PROVE  writer[w].operation = p /\ operations[p].mutation = m /\ Knows(w, p, m)
  <2>1. writer[w].operation = p /\ operations[p].state # "none"
    BY <1>o, HoldsOperation DEF AuthorityInv
  <2>2. operations[p].mutation = m
    BY <2>1, OperationsKept DEF AuthorityInv
  <2>. QED  BY <2>1, <2>2 DEF AuthorityInv, SideInv
<1>1. CASE writer'[w].step \notin Holding \/ writer'[w].step = "locked"
  BY <1>1, KnowsNothing
<1>2. CASE ListActive(w) \/ LockMarker(w) \/ SettleDone(w) \/ RepairSnapshot(w) \/ CompleteDone(w)
           \/ Abandon(w)
  <2>1. writer'[w].step \in {"recover", "locked", "idle"}
    <3>1. \/ \E x : writer'[w] = [writer[w] EXCEPT !.step = "recover", !.todo = x]
          \/ writer'[w] = [writer[w] EXCEPT !.step = "recover", !.operation = NoOperation]
          \/ writer'[w] = [writer[w] EXCEPT !.step = "locked"]
          \/ writer'[w] = [writer[w] EXCEPT !.step = "recover", !.operation = NoOperation,
                                            !.newMatches = FALSE]
          \/ writer'[w] = Idle
      BY <1>2, <1>w
         DEF ListActive, LockMarker, SettleDone, RepairSnapshot, CompleteDone, Release, Abandon
    <3>. QED  BY <3>1, <1>l, <1>i DEF Local
  <2>. QED  BY <2>1, <1>1
<1>3. CASE \E s \in Shard, n \in Mutation : OpenTransaction(w, s, n)
  <2>1. writer'[w].step = "open"
    BY <1>3, <1>w DEF OpenTransaction, Idle
  <2>. QED  BY <2>1, <1>1
<1>4. CASE \E q \in Operation : OpenMarker(w, q)
  <2>1. writer'[w].step \in {"opened", "recover"}
    <3>1. \E q : \/ writer'[w] = [writer[w] EXCEPT !.step = "opened", !.operation = q,
                                                   !.todo = @ \ {q}]
                 \/ writer'[w] = [writer[w] EXCEPT !.todo = @ \ {q}]
      BY <1>4, <1>w DEF OpenMarker
    <3>2. writer[w].step = "recover"
      BY <1>4 DEF OpenMarker
    <3>. QED  BY <3>1, <3>2, <1>l DEF Local
  <2>. QED  BY <2>1, <1>1
<1>5. CASE Restart(w)
  <2>1. writer' = writer /\ rows' = rows /\ UNCHANGED authorityVars
    BY <1>5 DEF Restart
  <2>2. Knows(w, p, m)
    BY <2>1 DEF AuthorityInv, SideInv, authorityVars
  <2>. QED
    BY <2>1, <2>2, KnowsKept DEF authorityVars, Holders
<1>6. CASE ProbeNew(w)
  <2>1. /\ writer'[w] = [writer[w] EXCEPT !.step = "probed",
              !.newMatches = Matches(operations[writer[w].operation].mutation.new)]
        /\ writer[w].step \in Holding /\ rows' = rows
    BY <1>6, <1>w DEF ProbeNew
  <2>2. /\ writer'[w].operation = writer[w].operation /\ writer'[w].step = "probed"
        /\ writer'[w].newMatches = Matches(operations[writer[w].operation].mutation.new)
    BY <2>1, <1>l DEF Local
  <2>3. writer'[w].newMatches = Matches(m.new)'
    BY <2>1, <2>2, <1>o DEF Matches
  <2>. QED  BY <2>2, <2>3 DEF Knows
<1>7. CASE Decide(w)
  <2>. DEFINE n == operations[writer[w].operation].mutation
              d == Decision(n, Matches(n.previous), writer[w].newMatches)
  <2>1. d \in {"finalize", "rollback", "ambiguous"}
    BY DEF Decision
  <2>. HIDE DEF d
  <2>2. /\ writer[w].step = "probed" /\ rows' = rows /\ UNCHANGED authorityVars
        /\ \/ writer'[w] = Idle
           \/ writer'[w] = [writer[w] EXCEPT !.step = d] /\ d # "ambiguous"
    BY <1>7, <1>w DEF Decide, d
  <2>3. CASE writer'[w] = Idle
    BY <2>3, <1>i, <1>1
  <2>4. CASE writer'[w] = [writer[w] EXCEPT !.step = d] /\ d # "ambiguous"
    <3>1. writer'[w].step = d /\ writer'[w].operation = writer[w].operation
      BY <2>4, <1>l DEF Local
    <3>2. writer[w].operation = p /\ operations[p].mutation = m /\ Knows(w, p, m)
      BY <2>2, <3>1, <1>o
    <3>3. \A k \in KeysOf(m) : Holders(k)' = Holders(k) /\ uniqueKeys'[k] = uniqueKeys[k]
      BY <2>2 DEF Holders, authorityVars
    <3>4. CASE operations[p].state = "active"
      <4>1. writer[w].newMatches = Matches(m.new)
        BY <2>2, <3>2, <3>4 DEF Knows
      <4>2. d = Decision(m, Matches(m.previous), Matches(m.new))
        BY <3>2, <4>1 DEF d
      <4>3. /\ m.previous # m.new /\ CanFinalize(m) /\ (Before(m) \/ After(m))
        BY <3>2, <3>4, ActiveFacts DEF AuthorityInv
      <4>4. (d = "finalize" => After(m)) /\ (d = "rollback" => Before(m))
        BY <4>2, <4>3, DecisionSide
      <4>5. (d = "finalize" => After(m)') /\ (d = "rollback" => Before(m)')
        BY <4>4, <3>3, ViewKept
      <4>. QED  BY <4>5, <3>1, <2>1, <2>4 DEF Knows
    <3>5. CASE operations[p].state # "active"
      <4>1. operations'[p].state # "active"
        BY <3>5, <2>2 DEF authorityVars
      <4>. QED  BY <4>1, <3>1, <2>1, <2>4 DEF Knows
    <3>. QED  BY <3>4, <3>5
  <2>. QED  BY <2>2, <2>3, <2>4
<1>8. CASE Settle(w) \/ Complete(w)
  <2>1. \/ writer'[w] = [writer[w] EXCEPT !.step = "settled"]
        \/ writer'[w] = [writer[w] EXCEPT !.step = "finished"]
    BY <1>8, <1>w DEF Settle, Complete
  <2>2. writer'[w].step \in {"settled", "finished"} /\ writer'[w].operation = writer[w].operation
    BY <2>1, <1>l DEF Local
  <2>3. writer[w].operation = p
    BY <2>2
  <2>4. operations'[p].state # "active"
    <3>1. FinalizeOperation(p) \/ RollBackOperation(p)
      BY <1>8, <2>3 DEF Settle, Complete
    <3>. QED
      BY <3>1 DEF FinalizeOperation, RollBackOperation, authorityVars, AuthorityTypeOK
  <2>. QED  BY <2>2, <2>4 DEF Knows
<1>9. CASE \E q \in Operation : Reserve(w, q)
  <2>1. PICK q \in Operation : Reserve(w, q)
    BY <1>9
  <2>2. writer'[w] = [writer[w] EXCEPT !.step = "reserved", !.operation = q]
    BY <2>1, <1>w DEF Reserve
  <2>3. /\ writer'[w].step = "reserved" /\ writer'[w].operation = q
        /\ writer'[w].mutation = writer[w].mutation
    BY <2>2, <1>l DEF Local
  <2>4. operations'[p] = [state |-> "active", mutation |-> writer[w].mutation]
    BY <2>1, <2>3 DEF Reserve, AuthorityTypeOK
  <2>5. m = writer[w].mutation /\ operations'[p] = [state |-> "active", mutation |-> m]
    BY <2>4
  <2>6. Before(m)'
    BY <2>1, <2>3, <2>5, Reserving
  <2>. QED  BY <2>3, <2>4, <2>5, <2>6 DEF Knows
<1>10. CASE Commit(w)
  <2>1. /\ writer'[w] = [writer[w] EXCEPT !.step = "committed"] /\ writer[w].step = "reserved"
        /\ rows' = RowsAfter(writer[w].mutation) /\ UNCHANGED authorityVars
    BY <1>10, <1>w DEF Commit
  <2>2. /\ writer'[w].step = "committed" /\ writer'[w].operation = writer[w].operation
        /\ writer'[w].mutation = writer[w].mutation
    BY <2>1, <1>l DEF Local
  <2>3. writer[w].operation = p /\ operations[p].mutation = m
    BY <2>1, <2>2, <1>o
  <2>4. /\ writer[w].mutation = m /\ operations[p].state = "active" /\ CanFinalize(m) /\ Before(m)
        /\ writer[w].shard \in Shard /\ IsMutation(writer[w].shard, m)
    BY <2>1, <2>3, Committing
  <2>5. After(m)'
    BY <2>1, <2>4, CommitMoves DEF authorityVars
  <2>. QED  BY <2>1, <2>2, <2>4, <2>5 DEF Knows, authorityVars
<1>11. CASE RollBackRows(w)
  <2>1. /\ writer'[w] = [writer[w] EXCEPT !.step = "aborting"] /\ writer[w].step = "reserved"
        /\ rows' = rows /\ UNCHANGED authorityVars
    BY <1>11, <1>w DEF RollBackRows
  <2>2. /\ writer'[w].step = "aborting" /\ writer'[w].operation = writer[w].operation
        /\ writer'[w].mutation = writer[w].mutation
    BY <2>1, <1>l DEF Local
  <2>3. writer[w].operation = p /\ operations[p].mutation = m
    BY <2>1, <2>2, <1>o
  <2>4. writer[w].mutation = m /\ operations[p].state = "active" /\ Before(m)
    BY <2>1, <2>3, Committing
  <2>5. Before(m)'
    <3>1. \A k \in KeysOf(m) : Holders(k)' = Holders(k) /\ uniqueKeys'[k] = uniqueKeys[k]
      BY <2>1 DEF Holders, authorityVars
    <3>. QED  BY <2>4, <3>1, ViewKept
  <2>. QED  BY <2>1, <2>2, <2>4, <2>5 DEF Knows, authorityVars
<1>. QED
  BY <1>2, <1>3, <1>4, <1>5, <1>6, <1>7, <1>8, <1>9, <1>10, <1>11 DEF WriterStep


\* Every step preserves: a process knows the side of its operation.
LEMMA SideStep ==
    ASSUME AuthorityTypeOK, AuthorityInv, [AuthorityNext]_vars
    PROVE  SideInv'
<1>1. ASSUME NEW v \in Writer, NEW p \in Operation, NEW m \in Mutation,
             writer'[v].operation = p, operations'[p].mutation = m
      PROVE  Knows(v, p, m)'
  <2>1. CASE WriterStep(v)
    BY <1>1, <2>1, SideOwn
  <2>2. CASE ~ WriterStep(v)
    <3>1. writer'[v] = writer[v]
      <4>1. CASE UNCHANGED vars \/ Rebuild
        BY <4>1 DEF vars, Rebuild
      <4>2. CASE \E w \in Writer : WriterStep(w)
        BY <2>2, <4>2, OthersKept
      <4>. QED  BY <4>1, <4>2 DEF AuthorityNext
    <3>2. ~ (Settle(v) \/ Complete(v) \/ Commit(v))
      BY <2>2 DEF WriterStep
    <3>. QED
      BY <1>1, <3>1, <3>2, SideOthers
  <2>. QED  BY <2>1, <2>2
<1>. QED
  BY <1>1 DEF SideInv

--------------------------------------------------------------------------------
(* Snapshots.                                                              *)

\* A refreshed snapshot has every row of its shards and loses no other entry.
LEMMA RefreshedHas ==
    ASSUME NEW shards, NEW e \in RowEntries, e[2][1] \in shards \/ e \in entries
    PROVE  e \in Refreshed(shards)
BY DEF Refreshed

\* Every step preserves: the snapshot has every row whose owner is recorded.
LEMMA SnapshotStep ==
    ASSUME AuthorityTypeOK, AuthorityInv, [AuthorityNext]_vars
    PROVE  SnapshotInv'
<1>s. \A e \in RowEntries : uniqueKeys[e[1]] = e[2] => e \in entries
  BY DEF AuthorityInv, SnapshotInv
<1>r. ASSUME rows' = rows  PROVE RowEntries' = RowEntries
  BY <1>r DEF RowEntries
<1>a. CASE rows' = rows /\ UNCHANGED authorityVars
  BY <1>a, <1>r, <1>s DEF SnapshotInv, authorityVars
<1>b. CASE Rebuild
  BY <1>b, <1>r DEF Rebuild, SnapshotInv
<1>c. ASSUME NEW w \in Writer, Commit(w)  PROVE SnapshotInv'
  <2>. DEFINE m == writer[w].mutation
  <2>1. /\ m \in Mutation /\ m.previous # m.new /\ CanFinalize(m)
        /\ rows' = RowsAfter(m) /\ uniqueKeys' = uniqueKeys /\ entries' = entries
    BY <1>c, Committing DEF Commit, authorityVars
  <2>2. /\ m.previous # NoEntry => m.previous \in Entry /\ m.previous = <<m.previous[1], m.previous[2]>>
        /\ m.new # NoEntry => m.new \in Entry /\ m.new = <<m.new[1], m.new[2]>>
    BY <2>1, KeysOfType, EntryParts
  <2>. HIDE DEF m
  <2>3. ASSUME NEW e \in Entry, rows'[e[2]] = e[1], uniqueKeys[e[1]] = e[2]
        PROVE  e \in entries
    <3>e. e[1] \in Key /\ e[2] \in Owner /\ e = <<e[1], e[2]>>
      BY EntryParts
    <3>1. CASE m.new # NoEntry /\ m.new[2] = e[2]
      <4>1. m.new[1] = e[1]
        BY <2>1, <2>3, <3>1, <3>e DEF RowsAfter
      <4>2. m.previous # NoEntry /\ m.previous[1] = m.new[1]
        BY <2>1, <2>3, <3>1, <3>e, <4>1, AuthorityAssumption DEF CanFinalize
      <4>3. m.previous[2] = m.new[2]
        BY <2>1, <2>3, <3>1, <4>1, <4>2 DEF CanFinalize
      <4>. QED  BY <2>1, <2>2, <3>1, <4>2, <4>3
    <3>2. CASE ~ (m.new # NoEntry /\ m.new[2] = e[2]) /\ m.previous # NoEntry /\ m.previous[2] = e[2]
      <4>1. rows'[e[2]] = NoKey
        BY <2>1, <3>2, <3>e DEF RowsAfter
      <4>. QED  BY <4>1, <2>3, <3>e, AuthorityAssumption
    <3>3. CASE ~ (m.new # NoEntry /\ m.new[2] = e[2])
               /\ ~ (m.previous # NoEntry /\ m.previous[2] = e[2])
      <4>1. rows'[e[2]] = rows[e[2]]
        BY <2>1, <3>3, <3>e DEF RowsAfter
      <4>. QED  BY <4>1, <2>3, <1>s DEF RowEntries
    <3>. QED  BY <3>1, <3>2, <3>3
  <2>. QED
    BY <2>1, <2>3 DEF SnapshotInv, RowEntries
<1>d. ASSUME NEW w \in Writer, RepairSnapshot(w)  PROVE SnapshotInv'
  <2>1. rows' = rows /\ uniqueKeys' = uniqueKeys /\ entries' = Refreshed({writer[w].shard})
    BY <1>d DEF RepairSnapshot
  <2>. QED  BY <2>1, <1>r, <1>s, RefreshedHas DEF SnapshotInv
<1>e. ASSUME NEW w \in Writer, NEW p \in Operation, Reserve(w, p)  PROVE SnapshotInv'
  BY <1>e, <1>r, <1>s DEF Reserve, SnapshotInv
<1>f. ASSUME NEW w \in Writer, Settle(w) \/ Complete(w)  PROVE SnapshotInv'
  <2>. DEFINE p == writer[w].operation
              m == operations[p].mutation
  <2>0. p \in Operation /\ m \in Mutation /\ rows' = rows
    BY <1>f, Settling
  <2>1. CASE uniqueKeys' = uniqueKeys /\ entries' = entries
    BY <2>0, <2>1, <1>r, <1>s DEF SnapshotInv
  <2>2. CASE uniqueKeys' = KeysAfter(m) /\ entries' = Refreshed(ShardsOf(m))
    <3>1. ASSUME NEW e \in RowEntries, KeysAfter(m)[e[1]] = e[2]
          PROVE  e[2][1] \in ShardsOf(m) \/ e \in entries
      <4>e. e[1] \in Key /\ e[2] \in Owner
        BY EntryParts DEF RowEntries
      <4>1. CASE m.new # NoEntry /\ m.new[1] = e[1]
        BY <3>1, <4>e, <4>1 DEF KeysAfter, ShardsOf
      <4>2. CASE ~ (m.new # NoEntry /\ m.new[1] = e[1]) /\ m.previous # NoEntry
                 /\ m.previous[1] = e[1]
        BY <3>1, <4>e, <4>2, AuthorityAssumption DEF KeysAfter
      <4>3. CASE ~ (m.new # NoEntry /\ m.new[1] = e[1])
                 /\ ~ (m.previous # NoEntry /\ m.previous[1] = e[1])
        BY <3>1, <4>e, <4>3, <1>s DEF KeysAfter
      <4>. QED  BY <4>1, <4>2, <4>3
    <3>. QED  BY <2>0, <2>2, <3>1, <1>r, RefreshedHas DEF SnapshotInv
  <2>. QED  BY <1>f, <2>1, <2>2, Settling DEF authorityVars
<1>. QED
  BY <1>a, <1>b, <1>c, <1>d, <1>e, <1>f, Effects

--------------------------------------------------------------------------------
(* The theorems.                                                           *)

\* The invariant holds initially.
LEMMA InvInit ==
    ASSUME AuthorityInit
    PROVE  AuthorityTypeOK /\ AuthorityInv
<1>. USE DEF AuthorityInit
<1>i. Idle.step = "idle" /\ Idle.operation = NoOperation /\ Idle.todo = {}
  BY DEF Idle
<1>w. \A w \in Writer : writer[w] = Idle
  OBVIOUS
<1>p. \A p \in Operation : operations[p].state = "none"
  OBVIOUS
<1>1. AuthorityTypeOK
  <2>1. operations \in [Operation ->
          [state : {"none", "active", "finalized", "rolled_back"}, mutation : Mutation]]
    BY MutationType
  <2>2. entries \subseteq Entry
    BY DEF RowEntries
  <2>3. writer \in [Writer -> Local]
    BY IdleType
  <2>4. uniqueKeys \in [Key -> Owner \cup {NoOwner}]
    BY RowOwnersType
  <2>. QED  BY <2>1, <2>2, <2>3, <2>4 DEF AuthorityTypeOK
<1>2. OwnerTruth
  BY <1>1, RowOwnersTruth DEF OwnerTruth, UniqueRows
<1>3. OperationInv
  BY <1>p DEF OperationInv
<1>4. LeaseInv /\ TransactionInv
  BY <1>i, <1>w DEF LeaseInv, TransactionInv, Holding, InTransaction, Recovering
<1>5. SideInv
  BY <1>i, <1>w DEF SideInv, Knows
<1>6. SnapshotInv
  BY DEF SnapshotInv
<1>. QED
  BY <1>1, <1>2, <1>3, <1>4, <1>5, <1>6 DEF AuthorityInv

\* Every step preserves the invariant.
LEMMA InvStep ==
    ASSUME AuthorityTypeOK, AuthorityInv, [AuthorityNext]_vars
    PROVE  AuthorityTypeOK' /\ AuthorityInv'
<1>1. LeaseInv /\ TransactionInv
  BY DEF AuthorityInv
<1>2. AuthorityTypeOK' /\ LeaseInv' /\ TransactionInv'
  BY <1>1, TypeStep, LeaseStep, TransactionStep
<1>. QED
  BY <1>2, OwnerStep, OperationStep, SideStep, SnapshotStep DEF AuthorityInv

\* The inductive invariant: reservations, locks, leases and probes together keep the
\* owner table and the rows in step, whoever dies when (reserve_unique,
\* finalize_unique_write, recover_global_unique_writes).
THEOREM AuthoritySafe == AuthoritySpec => [](AuthorityTypeOK /\ AuthorityInv)
<1>1. AuthorityInit => AuthorityTypeOK /\ AuthorityInv
  BY InvInit
<1>2. (AuthorityTypeOK /\ AuthorityInv) /\ [AuthorityNext]_vars
        => (AuthorityTypeOK /\ AuthorityInv)'
  BY InvStep
<1>. QED
  BY <1>1, <1>2, PTL DEF AuthoritySpec

\* Tables, lock files and the locals of every writer stay well-typed (reserve_unique,
\* recover_global_unique_writes).
THEOREM AuthorityTyped == AuthoritySpec => []AuthorityTypeOK
<1>1. AuthorityTypeOK /\ AuthorityInv => AuthorityTypeOK
  OBVIOUS
<1>. QED
  BY <1>1, AuthoritySafe, PTL

\* No two committed rows have the same key, in whatever shards (reserve_unique).
THEOREM UniqueSafe == AuthoritySpec => []UniqueRows
<1>1. AuthorityTypeOK /\ AuthorityInv => UniqueRows
  BY InvUnique DEF AuthorityInv
<1>. QED
  BY <1>1, AuthoritySafe, PTL

\* The recorded owner of a key nobody is changing is the row that has it
\* (finalize_stored_unique_mutation, rollback_unique, rebuild_global_index).
THEOREM OwnersSafe == AuthoritySpec => []OwnerTruth
<1>1. AuthorityTypeOK /\ AuthorityInv => OwnerTruth
  BY DEF AuthorityInv
<1>. QED
  BY <1>1, AuthoritySafe, PTL

\* Every operation under way can be settled by the next process to write, with the
\* outcome the rows show (decide_orphaned_unique_write).
THEOREM RecoverableSafe == AuthoritySpec => []ActiveRecoverable
<1>1. ASSUME AuthorityTypeOK, AuthorityInv  PROVE ActiveRecoverable
  <2>1. ASSUME NEW p \in Operation, operations[p].state = "active"
        PROVE  LET m == operations[p].mutation
               IN  /\ p \in markers
                   /\ \A k \in KeysOf(m) : reservations[k] = p
                   /\ CanFinalize(m)
                   /\ Decision(m, Matches(m.previous), Matches(m.new)) # "ambiguous"
    <3>. DEFINE m == operations[p].mutation
    <3>1. /\ m \in Mutation /\ p \in markers /\ m.previous # m.new
          /\ \A k \in KeysOf(m) : reservations[k] = p
          /\ CanFinalize(m) /\ (Before(m) \/ After(m))
      BY <1>1, <2>1, ActiveFacts DEF AuthorityInv
    <3>2. Decision(m, Matches(m.previous), Matches(m.new)) \in {"rollback", "finalize"}
      BY <1>1, <3>1, DecisionSide
    <3>. QED  BY <3>1, <3>2
  <2>. QED  BY <2>1 DEF ActiveRecoverable
<1>. QED
  BY <1>1, AuthoritySafe, PTL

================================================================================
