------------------------- MODULE IdempotentWriteProofs -------------------------
(***************************************************************************)
(* Keyed writes: the inductive invariant of IdempotentWrite and what       *)
(* follows from it, for any number of shards, keys, processes and calls.   *)
(***************************************************************************)
EXTENDS IdempotentWrite, FiniteSetTheorems, TLAPS

Inv == IdempotentTypeOK /\ IdempotentInv

\* What the invariant says of the local state l of one call.
Fits(l) ==
    /\ l.step # "idle" => l.key \in Key /\ l.write \in Write
    /\ l.step # "done" => l.answer = "none"
    /\ l.step \in {"permit", "stripe"} => l.next = 0 /\ l.found = NoReceipt
    /\ l.answer \in {"created", "replayed"} =>
          latest[l.key] # NoReceipt /\ latest[l.key].write = l.write
    /\ l.answer = "conflict" => latest[l.key] # NoReceipt /\ latest[l.key].write # l.write
    /\ l.answer # "corrupt"
    /\ \A s \in Shard :
          /\ l.step = "scan" /\ s < l.next => receipts[s][l.key] \in {NoReceipt, l.found}
          /\ l.step = "scan" /\ l.found # NoReceipt =>
                /\ latest[l.key] = l.found
                /\ s >= l.next => receipts[s][l.key] = NoReceipt
          /\ l.step = "execute" => receipts[s][l.key] = NoReceipt
    /\ \A k \in Key : l.step \in {"scan", "execute"} => l.time <= peak[k]

\* A change whose receipt is gone has expired.
Gone ==
    \A k \in Key : latest[k] # NoReceipt /\ (\A s \in Shard : receipts[s][k] = NoReceipt) =>
        Expired(latest[k], peak[k])

\* What it says of the shards.
Tables == NeverRepeated /\ OneReceipt /\ TableBound /\ LatestInv /\ Gone

\* The invariant, taken apart.
LEMMA Split == IdempotentInv <=> Tables /\ StripeInv /\ \A c \in Call : Fits(call[c])
<1>1. Shard # {}
  <2>1. 0 \in Shard
    BY IdempotentAssumption DEF Shard
  <2>2. QED
    BY <2>1
<1>2. ASSUME IdempotentInv PROVE Tables /\ StripeInv /\ \A c \in Call : Fits(call[c])
  BY <1>2 DEF IdempotentInv, Tables, Fits, Gone, AnswerTruth, ScanInv, ExpiryInv, KeyInv
<1>3. ASSUME Tables, StripeInv, \A c \in Call : Fits(call[c]) PROVE IdempotentInv
  BY <1>1, <1>3 DEF IdempotentInv, Tables, Fits, Gone, AnswerTruth, ScanInv, ExpiryInv, KeyInv
<1>4. QED
  BY <1>2, <1>3

\* The same of the next state.
LEMMA Join ==
    ASSUME Tables', StripeInv', \A c \in Call : Fits(call[c])' PROVE IdempotentInv'
<1>1. 0 \in Shard
  BY IdempotentAssumption DEF Shard
<1>2. QED
  BY <1>1 DEF IdempotentInv, Tables, Fits, Gone, AnswerTruth, ScanInv, ExpiryInv, KeyInv

--------------------------------------------------------------------------------
(* The initial states.                                                     *)

\* An idle call fits anything.
LEMMA IdleFits == Idle \in Local /\ Fits(Idle)
<1>1. Idle \in Local
  BY IdempotentAssumption DEF Idle, Local, Step, Answer, Time
<1>2. Fits(Idle)
  BY DEF Idle, Fits
<1>3. QED
  BY <1>1, <1>2

\* The invariant holds of a root without receipts (IdempotentInit).
LEMMA InvInit == IdempotentInit => Inv
<1> SUFFICES ASSUME IdempotentInit PROVE Inv
  OBVIOUS
<1>1. IdempotentTypeOK
  BY IdleFits, IdempotentAssumption DEF IdempotentInit, IdempotentTypeOK, Time
<1>2. \A c \in Call : call[c] = Idle
  BY DEF IdempotentInit
<1>3. StripeInv
  BY <1>2 DEF StripeInv, Idle, Holding
<1>4. TableBound
  <2> SUFFICES ASSUME NEW s \in Shard
               PROVE  Cardinality({k \in Key : receipts[s][k] # NoReceipt}) <= MaxReceipts
    BY DEF TableBound
  <2>1. {k \in Key : receipts[s][k] # NoReceipt} = {}
    BY DEF IdempotentInit
  <2>2. QED
    BY <2>1, FS_EmptySet, IdempotentAssumption
<1>5. Tables
  BY <1>4 DEF Tables, NeverRepeated, OneReceipt, LatestInv, Gone, IdempotentInit
<1>6. QED
  BY <1>1, <1>2, <1>3, <1>5, IdleFits, Split DEF Inv

--------------------------------------------------------------------------------
(* Steps that change one call and nothing else.                            *)

\* A step to a fitting local state keeps the invariant.
LEMMA Quiet ==
    ASSUME Inv, NEW c \in Call, NEW l \in Local, Become(c, l),
           UNCHANGED <<home, durable, peak>>, Fits(l),
           l.step \in Holding => call[c].step \in Holding /\ call[c].key = l.key
    PROVE  Inv'
<1>1. call' \in [Call -> Local] /\ call'[c] = l /\ \A d \in Call \ {c} : call'[d] = call[d]
  BY DEF Inv, IdempotentTypeOK, Become
<1>2. IdempotentTypeOK'
  BY <1>1 DEF Inv, IdempotentTypeOK, durable
<1>4. \A d \in Call : Fits(call[d])
  BY Split DEF Inv
<1>5. \A d \in Call : Fits(call'[d])
  BY <1>1, <1>4
<1>6. ASSUME NEW d \in Call PROVE Fits(call[d])'
  <2>1. PICK m : m = call'[d]
    OBVIOUS
  <2>2. Fits(m)
    BY <1>5, <2>1
  <2>3. QED
    BY <2>1, <2>2 DEF Fits, durable
<1>7. StripeInv'
  BY <1>1, Split DEF Inv, StripeInv
<1>8. Tables'
  <2>1. Tables
    BY Split DEF Inv
  <2>2. QED
    BY <2>1 DEF Tables, NeverRepeated, OneReceipt, TableBound, LatestInv, Gone, durable,
                Expired
<1>9. IdempotentInv'
  BY <1>6, <1>7, <1>8, Join
<1>10. QED
  BY <1>2, <1>9 DEF Inv

\* Begin
LEMMA BeginStep ==
    ASSUME Inv, NEW c \in Call, NEW k \in Key, NEW w \in Write, Begin(c, k, w) PROVE Inv'
<1> DEFINE l == [Idle EXCEPT !.step = "permit", !.key = k, !.write = w]
<1>1. l \in Local /\ l.step = "permit"
  BY IdleFits DEF Local, Step, Idle
<1>2. Fits(l)
  BY DEF Fits, Idle
<1>3. QED
  BY <1>1, <1>2, Quiet DEF Begin, Holding

\* AcquirePermit, AcquireWorker: the call keeps waiting, with more than it had.
LEMMA WaitStep ==
    ASSUME Inv, NEW c \in Call,
           (\E s \in Shard : AcquirePermit(c, s)) \/ AcquireWorker(c)
    PROVE  Inv'
<1>1. call[c] \in Local /\ Fits(call[c])
  BY Split DEF Inv, IdempotentTypeOK
<1>2. ASSUME NEW l \in Local, l.step \in {"permit", "stripe"}, call[c].step = "permit",
             l.key = call[c].key, l.write = call[c].write, l.answer = call[c].answer,
             l.next = call[c].next, l.found = call[c].found, Become(c, l), UNCHANGED <<home, durable, peak>>
      PROVE  Inv'
  <2>1. Fits(l)
    BY <1>1, <1>2 DEF Fits
  <2>2. l.step \notin Holding
    BY <1>2 DEF Holding
  <2>3. QED
    BY <1>2, <2>1, <2>2, Quiet
<1>3. ASSUME NEW s \in Shard, AcquirePermit(c, s) PROVE Inv'
  <2>1. [call[c] EXCEPT !.held = @ \cup {s}] \in Local
    BY <1>1 DEF Local
  <2>2. QED
    BY <1>1, <1>2, <1>3, <2>1 DEF AcquirePermit, Local
<1>4. ASSUME AcquireWorker(c) PROVE Inv'
  <2>1. [call[c] EXCEPT !.step = "stripe"] \in Local
    BY <1>1 DEF Local, Step
  <2>2. QED
    BY <1>1, <1>2, <1>4, <2>1 DEF AcquireWorker, Local
<1>5. QED
  BY <1>3, <1>4

\* Fail, EndCall: the call lets go of everything.
LEMMA EndStep ==
    ASSUME Inv, NEW c \in Call, Fail(c) \/ EndCall(c) PROVE Inv'
  BY IdleFits, Quiet DEF Fail, EndCall, Idle, Holding

\* Answers from a receipt that is the last change under the key
\* (idempotency_result_from_receipt).
LEMMA AnsweredFits ==
    ASSUME Inv, NEW c \in Call, NEW r \in Receipt, call[c].step \in {"scan", "execute"},
           latest[call[c].key] = r
    PROVE  /\ Answered(c, r) \in Local /\ Fits(Answered(c, r))
           /\ Answered(c, r).key = call[c].key
<1>1. call[c] \in Local /\ Fits(call[c])
  BY Split DEF Inv, IdempotentTypeOK
<1>2. /\ Answered(c, r) \in Local
      /\ Answered(c, r).step = "done"
      /\ Answered(c, r).key = call[c].key
      /\ Answered(c, r).write = call[c].write
      /\ Answered(c, r).answer = IF r.write = call[c].write THEN "replayed" ELSE "conflict"
  BY <1>1 DEF Answered, Local, Step, Answer
<1>3. r # NoReceipt
  BY NoReceiptAssumption
<1>4. call[c].key \in Key /\ call[c].write \in Write
  BY <1>1 DEF Fits
<1>5. QED
  BY <1>2, <1>3, <1>4 DEF Fits

\* Resolve
LEMMA ResolveStep ==
    ASSUME Inv, NEW c \in Call, Resolve(c) PROVE Inv'
<1>1. call[c] \in Local /\ Fits(call[c]) /\ call[c].step = "scan"
  BY Split DEF Inv, IdempotentTypeOK, Resolve
<1>2. CASE call[c].found = NoReceipt
  <2> DEFINE l == [call[c] EXCEPT !.step = "execute"]
  <2>1. l \in Local
    BY <1>1 DEF Local, Step
  <2>2. /\ l.step = "execute" /\ l.key = call[c].key /\ l.write = call[c].write
        /\ l.time = call[c].time /\ l.answer = call[c].answer
    BY <1>1 DEF Local
  <2>3. \A s \in Shard : s < call[c].next
    BY IdempotentAssumption DEF Resolve, Shard
  <2>4. Fits(l)
    BY <1>1, <1>2, <2>2, <2>3 DEF Fits
  <2>5. Become(c, l) /\ UNCHANGED <<home, durable, peak>>
    BY <1>2 DEF Resolve
  <2>6. call[c].step \in Holding
    BY <1>1 DEF Holding
  <2> HIDE DEF l
  <2>7. QED
    BY <2>1, <2>2, <2>4, <2>5, <2>6, Quiet
<1>3. CASE call[c].found # NoReceipt
  <2>1. latest[call[c].key] = call[c].found /\ call[c].found \in Receipt
    <3>1. 0 \in Shard
      BY IdempotentAssumption DEF Shard
    <3>2. QED
      BY <1>1, <1>3, <3>1 DEF Fits, Local
  <2>2. Become(c, Answered(c, call[c].found)) /\ UNCHANGED <<home, durable, peak>>
    BY <1>3 DEF Resolve
  <2>3. call[c].step \in Holding
    BY <1>1 DEF Holding
  <2>4. QED
    BY <1>1, <2>1, <2>2, <2>3, AnsweredFits, Quiet
<1>4. QED
  BY <1>2, <1>3

\* TakeStripe
LEMMA StripeStep ==
    ASSUME Inv, NEW c \in Call, NEW t \in Time, TakeStripe(c, t) PROVE Inv'
<1>1. call[c] \in Local /\ Fits(call[c]) /\ call[c].step = "stripe"
  BY Split DEF Inv, IdempotentTypeOK, TakeStripe
<1>2. CASE ~ StripeFree(c)
  BY <1>2, IdleFits, Quiet DEF TakeStripe, Idle, Holding
<1>3. CASE StripeFree(c)
  <2> DEFINE l == [call[c] EXCEPT !.step = "scan", !.time = t]
  <2>1. l \in Local
    BY <1>1 DEF Local, Step
  <2>2. /\ l.step = "scan" /\ l.key = call[c].key /\ l.write = call[c].write
        /\ l.time = t /\ l.answer = call[c].answer /\ l.next = 0 /\ l.found = NoReceipt
    BY <1>1 DEF Local, Fits
  <2>3. Become(c, l) /\ UNCHANGED <<home, durable>>
    BY <1>3 DEF TakeStripe
  <2> HIDE DEF l
  <2>4. /\ call' \in [Call -> Local] /\ call'[c] = l
        /\ \A d \in Call \ {c} : call'[d] = call[d]
    BY <2>1, <2>3 DEF Inv, IdempotentTypeOK, Become
  <2>5. /\ peak \in [Key -> Time] /\ peak' \in [Key -> Time]
        /\ \A k \in Key : peak[k] <= peak'[k] /\ t <= peak'[k]
    BY <1>3 DEF TakeStripe, Inv, IdempotentTypeOK, Time
  <2>6. IdempotentTypeOK'
    BY <2>3, <2>4, <2>5 DEF Inv, IdempotentTypeOK, durable
  <2>7. ASSUME NEW m, m = l PROVE Fits(m)'
    <3>1. call[c].key \in Key /\ call[c].write \in Write /\ call[c].answer = "none"
      BY <1>1 DEF Fits
    <3>2. \A s \in Shard : ~ (s < 0)
      BY DEF Shard
    <3>3. QED
      BY <2>2, <2>5, <2>7, <3>1, <3>2 DEF Fits
  <2>8. ASSUME NEW d \in Call PROVE Fits(call[d])'
    <3>1. CASE d = c
      <4>1. PICK m : m = l
        OBVIOUS
      <4>2. Fits(m)'
        BY <2>7, <4>1
      <4>3. QED
        BY <2>4, <3>1, <4>1, <4>2 DEF Fits
    <3>2. CASE d # c
      <4>1. PICK m \in Local : m = call[d]
        BY DEF Inv, IdempotentTypeOK
      <4>2. Fits(m)
        BY <4>1, Split DEF Inv
      <4>3. \A k \in Key : m.step \in {"scan", "execute"} => m.time <= peak'[k]
        <5>1. m.time \in Time
          BY <4>1 DEF Local
        <5>2. QED
          BY <2>5, <4>2, <5>1 DEF Fits, Time
      <4>4. Fits(m)'
        BY <2>3, <4>2, <4>3 DEF Fits, durable
      <4>5. call'[d] = m
        BY <2>4, <3>2, <4>1
      <4>6. QED
        BY <4>4, <4>5 DEF Fits
    <3>3. QED
      BY <3>1, <3>2
  <2>9. StripeInv'
    <3>1. \A d \in Call \ {c} : call[d].step \in Holding => call[d].key # call[c].key
      BY <1>3 DEF StripeFree, Holding
    <3>2. StripeInv
      BY Split DEF Inv
    <3>3. QED
      BY <2>2, <2>4, <3>1, <3>2 DEF StripeInv
  <2>10. Tables'
    <3>1. Tables
      BY Split DEF Inv
    <3>2. Gone'
      <4> SUFFICES ASSUME NEW k \in Key, latest[k] # NoReceipt,
                          \A s \in Shard : receipts[s][k] = NoReceipt
                   PROVE  Expired(latest[k], peak'[k])
        BY <2>3 DEF Gone, durable, Expired
      <4>1. Expired(latest[k], peak[k])
        BY <3>1 DEF Tables, Gone
      <4>2. latest[k].created \in Time
        BY DEF Inv, IdempotentTypeOK, Receipt
      <4>3. QED
        BY <2>5, <4>1, <4>2, IdempotentAssumption DEF Expired, Time
    <3>3. QED
      BY <2>3, <3>1, <3>2
         DEF Tables, NeverRepeated, OneReceipt, TableBound, LatestInv, durable
  <2>11. IdempotentInv'
    BY <2>8, <2>9, <2>10, Join
  <2>12. QED
    BY <2>6, <2>11 DEF Inv
<1>4. QED
  BY <1>2, <1>3

--------------------------------------------------------------------------------
(* Looking for a receipt.                                                  *)

Table == [Key -> Receipt \cup {NoReceipt}]
Rows(table) == {k \in Key : table[k] # NoReceipt}

\* The rows of a table are finitely many, and fewer rows are no more.
LEMMA RowsCount ==
    ASSUME NEW a, NEW b, a \subseteq b, b \subseteq Key
    PROVE  /\ IsFiniteSet(a) /\ IsFiniteSet(b)
           /\ Cardinality(a) \in Nat /\ Cardinality(b) \in Nat
           /\ Cardinality(a) <= Cardinality(b)
           /\ Cardinality(a) = Cardinality(b) => a = b
<1>1. IsFiniteSet(b)
  BY IdempotentAssumption, FS_Subset
<1>2. IsFiniteSet(a) /\ Cardinality(a) <= Cardinality(b) /\ (Cardinality(a) = Cardinality(b) => a = b)
  BY <1>1, FS_Subset
<1>3. QED
  BY <1>1, <1>2, FS_CardinalityType

\* Deleting expired receipts disturbs neither the tables nor a call.
LEMMA Shrink ==
    ASSUME Inv, receipts' \in [Shard -> Table], UNCHANGED <<latest, repeated, peak>>,
           \A s \in Shard, k \in Key :
               \/ receipts'[s][k] = receipts[s][k]
               \/ receipts'[s][k] = NoReceipt /\ Expired(receipts[s][k], peak[k])
    PROVE  Tables' /\ \A m : m.key \in Key \cup {NoKey} /\ Fits(m) => Fits(m)'
<1>1. Tables
  BY Split DEF Inv
<1>2. NeverRepeated' /\ OneReceipt' /\ LatestInv'
  BY <1>1 DEF Tables, NeverRepeated, OneReceipt, LatestInv
<1>3. TableBound'
  <2> SUFFICES ASSUME NEW s \in Shard
               PROVE  Cardinality({k \in Key : receipts'[s][k] # NoReceipt}) <= MaxReceipts
    BY DEF TableBound
  <2> DEFINE a == {k \in Key : receipts'[s][k] # NoReceipt}
             b == {k \in Key : receipts[s][k] # NoReceipt}
  <2>1. a \subseteq b /\ b \subseteq Key
    OBVIOUS
  <2>2. Cardinality(b) <= MaxReceipts
    BY <1>1 DEF Tables, TableBound
  <2> HIDE DEF a, b
  <2>3. Cardinality(a) <= MaxReceipts
    BY <2>1, <2>2, RowsCount, IdempotentAssumption
  <2>4. QED
    BY <2>3 DEF a
<1>4. Gone'
  <2> SUFFICES ASSUME NEW k \in Key, latest[k] # NoReceipt,
                      \A s \in Shard : receipts'[s][k] = NoReceipt
               PROVE  Expired(latest[k], peak[k])
    BY DEF Gone, Expired
  <2>1. CASE \A s \in Shard : receipts[s][k] = NoReceipt
    BY <1>1, <2>1 DEF Tables, Gone
  <2>2. CASE \E s \in Shard : receipts[s][k] # NoReceipt
    <3>1. PICK s \in Shard : receipts[s][k] # NoReceipt
      BY <2>2
    <3>2. latest[k] = receipts[s][k]
      BY <1>1, <3>1 DEF Tables, LatestInv
    <3>3. Expired(receipts[s][k], peak[k])
      BY <3>1
    <3>4. QED
      BY <3>2, <3>3
  <2>3. QED
    BY <2>1, <2>2
<1>5. ASSUME NEW m, m.key \in Key \cup {NoKey}, Fits(m) PROVE Fits(m)'
  <2>1. m.step # "idle" => m.key \in Key
    BY <1>5 DEF Fits
  <2>2. \A s \in Shard : m.step # "idle" => receipts'[s][m.key] \in {NoReceipt, receipts[s][m.key]}
    BY <2>1
  <2>3. \A s \in Shard :
          /\ m.step = "scan" /\ s < m.next => receipts'[s][m.key] \in {NoReceipt, m.found}
          /\ m.step = "scan" /\ m.found # NoReceipt =>
                /\ latest[m.key] = m.found
                /\ s >= m.next => receipts'[s][m.key] = NoReceipt
          /\ m.step = "execute" => receipts'[s][m.key] = NoReceipt
    BY <1>5, <2>2 DEF Fits
  <2>4. QED
    BY <1>5, <2>3 DEF Fits
<1>6. QED
  BY <1>1, <1>2, <1>3, <1>4, <1>5 DEF Tables

\* FindReceipt on a shard that has no receipt of the key, or a valid one.
LEMMA FindQuiet ==
    ASSUME Inv, NEW c \in Call, FindReceipt(c), UNCHANGED receipts,
           ~ Expired(receipts[call[c].next][call[c].key], call[c].time)
    PROVE  Inv'
<1> DEFINE s == call[c].next
           k == call[c].key
           r == receipts[s][k]
<1>1. call[c] \in Local /\ Fits(call[c]) /\ call[c].step = "scan"
  BY Split DEF Inv, IdempotentTypeOK, FindReceipt
<1>2. s \in Shard /\ k \in Key /\ s \in Nat
  BY <1>1, IdempotentAssumption DEF FindReceipt, Local, Fits, Shard
<1>3. r \in Receipt \cup {NoReceipt}
  BY <1>2 DEF Inv, IdempotentTypeOK
<1>4. Tables
  BY Split DEF Inv
<1>5. UNCHANGED <<home, durable, peak>> /\ call[c].step \in Holding
  BY <1>1 DEF FindReceipt, durable, Holding
<1>6. call[c].next + 1 \in 0..NumShards /\ \A u \in Shard : u < s + 1 <=> (u < s \/ u = s)
  BY <1>2, IdempotentAssumption DEF Shard
<1>7. \A u \in Shard : u \in Int /\ (u >= s + 1 => u >= s /\ u # s)
  BY <1>2, IdempotentAssumption DEF Shard
<1>8. CASE r = NoReceipt
  <2> DEFINE l == [call[c] EXCEPT !.next = @ + 1]
  <2>1. l \in Local
    BY <1>1, <1>6 DEF Local
  <2>2. /\ l.step = "scan" /\ l.key = k /\ l.write = call[c].write /\ l.time = call[c].time
        /\ l.answer = call[c].answer /\ l.next = s + 1 /\ l.found = call[c].found
    BY <1>1 DEF Local
  <2>3. Become(c, l)
    BY <1>8 DEF FindReceipt, Expired
  <2>4. Fits(l)
    BY <1>1, <1>6, <1>7, <1>8, <2>2 DEF Fits
  <2> HIDE DEF l
  <2>5. QED
    BY <1>5, <2>1, <2>2, <2>3, <2>4, Quiet
<1>9. CASE r # NoReceipt
  <2> DEFINE l == [[call[c] EXCEPT !.next = @ + 1] EXCEPT !.found = r]
  <2>1. l \in Local
    BY <1>1, <1>3, <1>6 DEF Local
  <2>2. /\ l.step = "scan" /\ l.key = k /\ l.write = call[c].write /\ l.time = call[c].time
        /\ l.answer = call[c].answer /\ l.next = s + 1 /\ l.found = r
    BY <1>1 DEF Local
  <2>3. call[c].found = NoReceipt
    <3>1. s >= call[c].next
      BY <1>2
    <3>2. QED
      BY <1>1, <1>2, <1>9, <3>1 DEF Fits
  <2>4. Become(c, l)
    BY <1>9, <2>3 DEF FindReceipt, Expired
  <2>5. latest[k] = r /\ \A u \in Shard : u # s => receipts[u][k] = NoReceipt
    BY <1>2, <1>4, <1>9 DEF Tables, LatestInv, OneReceipt
  <2>6. Fits(l)
    BY <1>1, <1>2, <1>6, <1>7, <2>2, <2>3, <2>5 DEF Fits
  <2> HIDE DEF l
  <2>7. QED
    BY <1>5, <2>1, <2>2, <2>4, <2>6, Quiet
<1>10. QED
  BY <1>8, <1>9

\* A step to the local state l, put together from what it does to the call, the other
\* calls and the tables.
LEMMA Assemble ==
    ASSUME Inv, NEW c \in Call, NEW l \in Local, Become(c, l), UNCHANGED home,
           receipts' \in [Shard -> Table], latest' \in Table, peak' \in [Key -> Time],
           Tables', Fits(l)',
           \A d \in Call \ {c} : \A m \in Local : m = call[d] => Fits(m)',
           l.step \in Holding => call[c].step \in Holding /\ call[c].key = l.key
    PROVE  Inv'
<1>1. call' \in [Call -> Local] /\ call'[c] = l /\ \A d \in Call \ {c} : call'[d] = call[d]
  BY DEF Inv, IdempotentTypeOK, Become
<1>2. IdempotentTypeOK'
  <2>1. repeated' \subseteq Key
    BY DEF Tables, NeverRepeated
  <2>2. QED
    BY <1>1, <2>1 DEF Inv, IdempotentTypeOK, Table
<1>3. ASSUME NEW d \in Call PROVE Fits(call[d])'
  <2>1. CASE d = c
    BY <1>1, <2>1 DEF Fits
  <2>2. CASE d # c
    <3>1. PICK m \in Local : m = call[d]
      BY DEF Inv, IdempotentTypeOK
    <3>2. Fits(m)' /\ call'[d] = m
      BY <1>1, <2>2, <3>1
    <3>3. QED
      BY <3>2 DEF Fits
  <2>3. QED
    BY <2>1, <2>2
<1>4. StripeInv'
  BY <1>1, Split DEF Inv, StripeInv
<1>5. IdempotentInv'
  BY <1>3, <1>4, Join
<1>6. QED
  BY <1>2, <1>5 DEF Inv

\* FindReceipt on a shard with an expired receipt of the key.
LEMMA FindExpired ==
    ASSUME Inv, NEW c \in Call, FindReceipt(c),
           Expired(receipts[call[c].next][call[c].key], call[c].time)
    PROVE  Inv'
<1>1. PICK s, k : s = call[c].next /\ k = call[c].key
  OBVIOUS
<1>2. call[c] \in Local /\ Fits(call[c]) /\ call[c].step = "scan"
  BY Split DEF Inv, IdempotentTypeOK, FindReceipt
<1>3. s \in Shard /\ k \in Key /\ s \in Nat /\ call[c].time \in Time
  BY <1>1, <1>2, IdempotentAssumption DEF FindReceipt, Local, Fits, Shard
<1>4. receipts[s][k] # NoReceipt /\ receipts[s][k] \in Receipt
  BY <1>1, <1>3 DEF Inv, IdempotentTypeOK, Expired
<1>5. /\ receipts' = [receipts EXCEPT ![s][k] = NoReceipt]
      /\ UNCHANGED <<home, latest, repeated, peak>>
  BY <1>1, <1>4 DEF FindReceipt
<1>6. receipts \in [Shard -> Table] /\ peak \in [Key -> Time] /\ latest \in Table
  BY DEF Inv, IdempotentTypeOK, Table
<1>7. receipts' \in [Shard -> Table]
  BY <1>3, <1>5, <1>6 DEF Table
<1>8. Expired(receipts[s][k], peak[k])
  <2>1. call[c].time <= peak[k] /\ peak[k] \in Time
    BY <1>2, <1>3, <1>6 DEF Fits
  <2>2. receipts[s][k].created \in Time
    BY <1>4 DEF Receipt
  <2>3. QED
    BY <1>1, <1>3, <2>1, <2>2, IdempotentAssumption DEF Expired, Time
<1>9. \A u \in Shard, j \in Key : receipts'[u][j] = IF u = s /\ j = k THEN NoReceipt ELSE receipts[u][j]
  BY <1>3, <1>5, <1>6 DEF Table
<1>10. \A u \in Shard, j \in Key :
          \/ receipts'[u][j] = receipts[u][j]
          \/ receipts'[u][j] = NoReceipt /\ Expired(receipts[u][j], peak[j])
  BY <1>8, <1>9
<1>11. Tables' /\ \A m : m.key \in Key \cup {NoKey} /\ Fits(m) => Fits(m)'
  BY <1>5, <1>7, <1>10, Shrink
<1>12. PICK l : l = [call[c] EXCEPT !.next = @ + 1]
  OBVIOUS
<1>13. l \in Local
  <2>1. s + 1 \in 0..NumShards
    BY <1>3, IdempotentAssumption DEF Shard
  <2>2. QED
    BY <1>1, <1>2, <1>12, <2>1 DEF Local
<1>14. /\ l.step = "scan" /\ l.key = k /\ l.write = call[c].write /\ l.time = call[c].time
       /\ l.answer = call[c].answer /\ l.next = s + 1 /\ l.found = call[c].found
  BY <1>1, <1>2, <1>12 DEF Local
<1>15. Become(c, l)
  BY <1>1, <1>4, <1>12 DEF FindReceipt
<1>16. call[c].found = NoReceipt
  <2>1. s >= call[c].next
    BY <1>1, <1>3
  <2>2. QED
    BY <1>1, <1>2, <1>3, <1>4, <2>1 DEF Fits
<1>17. Fits(l)'
  <2>1. \A u \in Shard : u < s + 1 <=> (u < s \/ u = s)
    BY <1>3, IdempotentAssumption DEF Shard
  <2>2. \A u \in Shard : u < s => receipts[u][k] = NoReceipt
    BY <1>1, <1>2, <1>16 DEF Fits
  <2>3. \A u \in Shard : u < s + 1 => receipts'[u][k] = NoReceipt
    BY <1>3, <1>9, <2>1, <2>2
  <2>4. l.key \in Key /\ l.write \in Write /\ l.answer = "none"
    BY <1>2, <1>3, <1>14 DEF Fits
  <2>5. \A j \in Key : l.time <= peak'[j]
    BY <1>2, <1>5, <1>14 DEF Fits
  <2>6. QED
    BY <1>14, <1>16, <2>3, <2>4, <2>5 DEF Fits
<1>18. ASSUME NEW d \in Call \ {c}, NEW m \in Local, m = call[d] PROVE Fits(m)'
  <2>1. Fits(m) /\ m.key \in Key \cup {NoKey}
    BY <1>18, Split DEF Inv, Local
  <2>2. QED
    BY <1>11, <2>1
<1>19. call[c].step \in Holding
  BY <1>2 DEF Holding
<1>20. QED
  BY <1>1, <1>5, <1>6, <1>7, <1>11, <1>13, <1>14, <1>15, <1>17, <1>18, <1>19, Assemble

\* FindReceipt
LEMMA FindStep ==
    ASSUME Inv, NEW c \in Call, FindReceipt(c) PROVE Inv'
<1>1. CASE Expired(receipts[call[c].next][call[c].key], call[c].time)
  BY <1>1, FindExpired
<1>2. CASE ~ Expired(receipts[call[c].next][call[c].key], call[c].time)
  <2>1. UNCHANGED receipts
    BY <1>2 DEF FindReceipt
  <2>2. QED
    BY <1>2, <2>1, FindQuiet
<1>3. QED
  BY <1>1, <1>2

--------------------------------------------------------------------------------
(* The transaction.                                                        *)

\* What the preflight leaves: no receipt that was not there, none that is gone but an
\* expired one, and an expired receipt gone if there was one.
LEMMA PreflightLeaves ==
    ASSUME Inv, NEW c \in Call, call[c].step = "execute", NEW table, Preflight(c, table),
           NEW s \in Shard, s = Target[call[c].write]
    PROVE  /\ table \in Table
           /\ \A k \in Key : \/ table[k] = receipts[s][k]
                             \/ table[k] = NoReceipt /\ Expired(receipts[s][k], call[c].time)
           /\ \/ \A k \in Key : ~ Expired(table[k], call[c].time)
              \/ \E k \in Key : table[k] # receipts[s][k]
<1>1. PICK t, old : t = call[c].time /\ old = receipts[s]
  OBVIOUS
<1>2. old \in Table /\ call[c].key \in Key /\ old[call[c].key] = NoReceipt
  <2>1. Fits(call[c])
    BY Split DEF Inv
  <2>2. QED
    BY <1>1, <2>1 DEF Inv, IdempotentTypeOK, Table, Fits
<1>3. {call[c].key} \cap Stale(old, t) = {}
  BY <1>2 DEF Stale, Expired
<1>4. Without(old, {}) = old
  BY <1>2 DEF Without, Table
<1>5. PICK keys \in SUBSET Key : Cleaned(old, t, keys) /\ table = Without(old, keys)
  <2>1. Without(receipts[s], {call[c].key} \cap Stale(receipts[s], call[c].time)) = old
    BY <1>1, <1>3, <1>4
  <2>2. QED
    BY <1>1, <2>1 DEF Preflight
<1>6. table \in Table
  BY <1>2, <1>5 DEF Without, Table
<1>7. \A k \in Key : table[k] = IF k \in keys THEN NoReceipt ELSE old[k]
  BY <1>5 DEF Without
<1>8. keys \subseteq Stale(old, t)
  BY <1>5 DEF Cleaned
<1>9. \A k \in keys : k \in Key /\ Expired(old[k], t)
  BY <1>8 DEF Stale
<1>10. \A k \in Key : table[k] = old[k] \/ (table[k] = NoReceipt /\ Expired(old[k], t))
  BY <1>7, <1>9
<1>11. CASE keys = {}
  <2>1. Stale(old, t) = {}
    <3>1. Cardinality(keys) = 0
      BY <1>11, FS_EmptySet
    <3>2. IsFiniteSet(Stale(old, t))
      BY IdempotentAssumption, FS_Subset DEF Stale
    <3>3. Cardinality(Stale(old, t)) \in Nat
      BY <3>2, FS_CardinalityType
    <3>4. Cardinality(Stale(old, t)) = 0
      BY <1>5, <3>1, <3>3, IdempotentAssumption DEF Cleaned
    <3>5. QED
      BY <3>2, <3>4, FS_EmptySet
  <2>2. \A k \in Key : ~ Expired(table[k], t)
    BY <1>7, <1>11, <2>1 DEF Stale
  <2>3. QED
    BY <1>1, <1>6, <1>10, <2>2
<1>12. CASE keys # {}
  <2>1. PICK k \in keys : TRUE
    BY <1>12
  <2>2. k \in Key /\ table[k] # old[k]
    BY <1>7, <1>9, <2>1 DEF Expired
  <2>3. QED
    BY <1>1, <1>6, <1>10, <2>2
<1>13. QED
  BY <1>11, <1>12

\* A transaction that stops before its change: the receipts are what they were.
LEMMA RefusedStep ==
    ASSUME Inv, NEW c \in Call, call[c].step = "execute", NEW table, Preflight(c, table),
           ExecuteRefused(c, table)
    PROVE  Inv'
<1>1. call[c] \in Local /\ Fits(call[c]) /\ call[c].key \in Key /\ call[c].write \in Write
  BY Split DEF Inv, IdempotentTypeOK, Fits
<1>2. PICK s \in Shard : s = Target[call[c].write]
  BY <1>1, IdempotentAssumption
<1>3. PICK t : t = call[c].time
  OBVIOUS
<1>4. Cardinality(Active(table, t)) <= MaxReceipts /\ Cardinality(Active(table, t)) \in Nat
  <2> DEFINE a == Active(table, t)
             b == {k \in Key : receipts[s][k] # NoReceipt}
  <2>1. a \subseteq b /\ b \subseteq Key
    BY <1>2, PreflightLeaves DEF Active
  <2>2. Cardinality(b) <= MaxReceipts
    BY Split DEF Inv, Tables, TableBound
  <2> HIDE DEF a, b
  <2>3. Cardinality(a) <= MaxReceipts /\ Cardinality(a) \in Nat
    BY <2>1, <2>2, RowsCount, IdempotentAssumption
  <2>4. QED
    BY <2>3 DEF a
<1>5. ~ (Cardinality(Active(table, t)) > MaxReceipts)
  BY <1>4, IdempotentAssumption
<1>6. PICK l : l = [call[c] EXCEPT !.step = "done", !.answer = "error"]
  OBVIOUS
<1>7. Become(c, l) /\ UNCHANGED <<home, durable, peak>>
  BY <1>3, <1>5, <1>6 DEF ExecuteRefused
<1>8. l \in Local
  BY <1>1, <1>6 DEF Local, Step, Answer
<1>9. l.step = "done" /\ l.key = call[c].key /\ l.write = call[c].write /\ l.answer = "error"
  BY <1>1, <1>6 DEF Local
<1>10. Fits(l)
  BY <1>1, <1>9 DEF Fits
<1>11. call[c].step \in Holding
  BY DEF Holding
<1>12. QED
  BY <1>7, <1>8, <1>9, <1>10, <1>11, Quiet

\* One more receipt fits into the table: either nothing in it has expired and it was
\* counted whole, or a receipt has just left it.
LEMMA CommitBound ==
    ASSUME Inv, NEW c \in Call, call[c].step = "execute", NEW table, Preflight(c, table),
           NEW s \in Shard, s = Target[call[c].write],
           Cardinality(Active(table, call[c].time)) < MaxReceipts, NEW k \in Key, NEW new
    PROVE  Cardinality(Rows([table EXCEPT ![k] = new])) <= MaxReceipts
<1>1. PICK t : t = call[c].time
  OBVIOUS
<1> DEFINE a == Rows(table)
           b == {j \in Key : receipts[s][j] # NoReceipt}
           n == Rows([table EXCEPT ![k] = new])
<1>2. table \in Table /\ a \subseteq b /\ b \subseteq Key /\ a \subseteq Key
  BY PreflightLeaves DEF Rows
<1>3. Cardinality(b) <= MaxReceipts
  BY Split DEF Inv, Tables, TableBound
<1>4. n \subseteq a \cup {k}
  BY <1>2 DEF Rows, Table
<1>5. Cardinality(a) < MaxReceipts
  <2>1. CASE \A j \in Key : ~ Expired(table[j], t)
    <3>1. a = Active(table, t)
      BY <2>1 DEF Rows, Active
    <3>2. QED
      BY <1>1, <3>1
  <2>2. CASE \E j \in Key : table[j] # receipts[s][j]
    <3>1. a # b
      BY <1>1, <2>2, PreflightLeaves DEF Rows, Expired
    <3> HIDE DEF a, b
    <3>2. Cardinality(a) # Cardinality(b) /\ Cardinality(a) <= Cardinality(b)
          /\ Cardinality(a) \in Nat /\ Cardinality(b) \in Nat
      BY <1>2, <3>1, RowsCount
    <3>3. QED
      BY <1>3, <3>2, IdempotentAssumption
  <2>3. QED
    BY <1>1, <2>1, <2>2, PreflightLeaves
<1> HIDE DEF a, b, n
<1>6. IsFiniteSet(a) /\ Cardinality(a) \in Nat
  BY <1>2, RowsCount
<1>7. /\ IsFiniteSet(a \cup {k}) /\ Cardinality(a \cup {k}) \in Nat
      /\ Cardinality(a \cup {k}) <= Cardinality(a) + 1
  <2>1. /\ IsFiniteSet(a \cup {k})
        /\ \/ Cardinality(a \cup {k}) = Cardinality(a)
           \/ Cardinality(a \cup {k}) = Cardinality(a) + 1
    BY <1>6, FS_AddElement
  <2>2. QED
    BY <1>6, <2>1
<1>8. Cardinality(n) <= Cardinality(a \cup {k}) /\ Cardinality(n) \in Nat
  BY <1>2, <1>4, RowsCount
<1>9. Cardinality(n) <= MaxReceipts
  BY <1>5, <1>6, <1>7, <1>8, IdempotentAssumption
<1>10. QED
  BY <1>9 DEF n

\* What a commit does to the tables.
LEMMA CommitTables ==
    ASSUME Inv, NEW c \in Call, call[c].step = "execute", NEW table, Preflight(c, table),
           ExecuteCommit(c, table), NEW k \in Key, k = call[c].key,
           NEW s \in Shard, s = Target[call[c].write],
           NEW new \in Receipt, new = NewReceipt(c),
           peak' \in [Key -> Time], \A j \in Key \ {k} : peak'[j] = peak[j]
    PROVE  /\ receipts' \in [Shard -> Table] /\ latest' \in Table /\ Tables'
           /\ \A u \in Shard, j \in Key :
                 j # k => receipts'[u][j] \in {NoReceipt, receipts[u][j]}
           /\ latest'[k] = new /\ \A j \in Key \ {k} : latest'[j] = latest[j]
<1>1. Fits(call[c]) /\ Tables /\ call[c] \in Local
  BY Split DEF Inv, IdempotentTypeOK
<1>2. receipts \in [Shard -> Table] /\ latest \in Table /\ peak \in [Key -> Time]
  BY DEF Inv, IdempotentTypeOK, Table
<1>3. /\ table \in Table
      /\ \A j \in Key : table[j] = receipts[s][j]
                        \/ (table[j] = NoReceipt /\ Expired(receipts[s][j], call[c].time))
  BY PreflightLeaves
<1>4. /\ receipts' = [receipts EXCEPT ![s] = [table EXCEPT ![k] = new]]
      /\ latest' = [latest EXCEPT ![k] = new]
      /\ repeated' = IF latest[k] # NoReceipt /\ ~ Expired(latest[k], peak[k])
                     THEN repeated \cup {k} ELSE repeated
      /\ Cardinality(Active(table, call[c].time)) < MaxReceipts
  BY DEF ExecuteCommit
<1>5. [table EXCEPT ![k] = new] \in Table
  BY <1>3 DEF Table
<1>6. receipts' \in [Shard -> Table] /\ latest' \in Table
  BY <1>2, <1>4, <1>5 DEF Table
<1>7. latest'[k] = new /\ \A j \in Key \ {k} : latest'[j] = latest[j]
  BY <1>2, <1>4 DEF Table
<1>8. receipts'[s] = [table EXCEPT ![k] = new] /\ \A u \in Shard \ {s} : receipts'[u] = receipts[u]
  BY <1>2, <1>4
<1>9. /\ receipts'[s][k] = new
      /\ \A j \in Key \ {k} : receipts'[s][j] = table[j]
  BY <1>3, <1>8 DEF Table
<1>10. \A u \in Shard : receipts[u][k] = NoReceipt
  BY <1>1 DEF Fits
<1>11. \A u \in Shard, j \in Key :
          j # k => \/ receipts'[u][j] = receipts[u][j]
                   \/ receipts'[u][j] = NoReceipt /\ Expired(receipts[u][j], call[c].time)
  <2> SUFFICES ASSUME NEW u \in Shard, NEW j \in Key, j # k
               PROVE  \/ receipts'[u][j] = receipts[u][j]
                      \/ receipts'[u][j] = NoReceipt /\ Expired(receipts[u][j], call[c].time)
    OBVIOUS
  <2>1. CASE u = s
    BY <1>3, <1>9, <2>1
  <2>2. CASE u # s
    BY <1>8, <2>2
  <2>3. QED
    BY <2>1, <2>2
<1>12. \A u \in Shard : receipts'[u][k] # NoReceipt => u = s
  BY <1>8, <1>10
<1>13. NeverRepeated'
  BY <1>1, <1>4, <1>10 DEF Tables, Gone, NeverRepeated
<1>14. OneReceipt'
  BY <1>1, <1>11, <1>12 DEF Tables, OneReceipt
<1>15. LatestInv'
  BY <1>1, <1>7, <1>9, <1>11, <1>12 DEF Tables, LatestInv
<1>16. TableBound'
  <2> SUFFICES ASSUME NEW u \in Shard
               PROVE  Cardinality({j \in Key : receipts'[u][j] # NoReceipt}) <= MaxReceipts
    BY DEF TableBound
  <2>1. CASE u = s
    <3>1. {j \in Key : receipts'[u][j] # NoReceipt} = Rows([table EXCEPT ![k] = new])
      BY <1>8, <2>1 DEF Rows
    <3>2. QED
      BY <1>4, <3>1, CommitBound
  <2>2. CASE u # s
    BY <1>1, <1>8, <2>2 DEF Tables, TableBound
  <2>3. QED
    BY <2>1, <2>2
<1>17. Gone'
  <2> SUFFICES ASSUME NEW j \in Key, latest'[j] # NoReceipt,
                      \A u \in Shard : receipts'[u][j] = NoReceipt
               PROVE  Expired(latest'[j], peak'[j])
    BY DEF Gone, Expired
  <2>1. j # k
    BY <1>9, NoReceiptAssumption
  <2>2. latest'[j] = latest[j] /\ peak'[j] = peak[j]
    BY <1>7, <2>1
  <2>3. CASE \A u \in Shard : receipts[u][j] = NoReceipt
    BY <1>1, <2>2, <2>3 DEF Tables, Gone
  <2>4. CASE \E u \in Shard : receipts[u][j] # NoReceipt
    <3>1. PICK u \in Shard : receipts[u][j] # NoReceipt
      BY <2>4
    <3>2. Expired(receipts[u][j], call[c].time) /\ latest[j] = receipts[u][j]
      BY <1>1, <1>11, <2>1, <3>1 DEF Tables, LatestInv
    <3>3. call[c].time \in Time /\ call[c].time <= peak[j] /\ peak[j] \in Time
      BY <1>1, <1>2 DEF Fits, Local
    <3>4. latest[j].created \in Time
      BY <1>2, <2>2 DEF Table, Receipt
    <3>5. Expired(latest[j], peak[j])
      BY <3>2, <3>3, <3>4, IdempotentAssumption DEF Expired, Time
    <3>6. QED
      BY <2>2, <3>5
  <2>5. QED
    BY <2>3, <2>4
<1>18. QED
  BY <1>6, <1>7, <1>11, <1>13, <1>14, <1>15, <1>16, <1>17 DEF Tables

\* ExecuteCommit
LEMMA CommitStep ==
    ASSUME Inv, NEW c \in Call, call[c].step = "execute", NEW table, Preflight(c, table),
           ExecuteCommit(c, table)
    PROVE  Inv'
<1>1. /\ call[c] \in Local /\ Fits(call[c]) /\ call[c].key \in Key
      /\ call[c].write \in Write /\ call[c].time \in Time
  BY Split DEF Inv, IdempotentTypeOK, Fits, Local
<1>2. PICK k \in Key : k = call[c].key
  BY <1>1
<1>3. PICK s \in Shard : s = Target[call[c].write]
  BY <1>1, IdempotentAssumption
<1>4. PICK new \in Receipt : new = NewReceipt(c)
  BY <1>1 DEF NewReceipt, Receipt
<1>5. PICK t \in Time : /\ \A d \in Call : call[d].step \in {"scan", "execute"} => call[d].time <= t
                        /\ peak' = [peak EXCEPT ![k] = t]
  BY <1>2 DEF ExecuteCommit
<1>6. /\ peak' \in [Key -> Time] /\ peak'[k] = t /\ \A j \in Key \ {k} : peak'[j] = peak[j]
      /\ peak \in [Key -> Time]
  BY <1>5 DEF Inv, IdempotentTypeOK
<1>7. /\ receipts' \in [Shard -> Table] /\ latest' \in Table /\ Tables'
      /\ \A u \in Shard, j \in Key : j # k => receipts'[u][j] \in {NoReceipt, receipts[u][j]}
      /\ latest'[k] = new /\ \A j \in Key \ {k} : latest'[j] = latest[j]
  BY <1>2, <1>3, <1>4, <1>6, CommitTables
<1>8. PICK answer \in {"created", "error"} :
          Become(c, [call[c] EXCEPT !.step = "done", !.answer = answer])
  BY DEF ExecuteCommit
<1>9. PICK l : l = [call[c] EXCEPT !.step = "done", !.answer = answer]
  OBVIOUS
<1>10. l \in Local
  BY <1>1, <1>9 DEF Local, Step, Answer
<1>11. l.step = "done" /\ l.key = k /\ l.write = call[c].write /\ l.answer = answer
  BY <1>1, <1>2, <1>9 DEF Local
<1>12. Fits(l)'
  <2>1. latest'[k] # NoReceipt /\ latest'[k].write = l.write
    BY <1>4, <1>7, <1>11, NoReceiptAssumption DEF NewReceipt
  <2>2. QED
    BY <1>1, <1>2, <1>11, <2>1 DEF Fits
<1>13. call[c].step \in Holding
  BY DEF Holding
<1>14. ASSUME NEW d \in Call \ {c}, NEW m \in Local, m = call[d] PROVE Fits(m)'
  <2>1. Fits(m) /\ (m.step \in Holding => m.key # k)
    BY <1>2, <1>13, <1>14, Split DEF Inv, StripeInv
  <2>2. m.step \in Holding => /\ m.key \in Key /\ latest'[m.key] = latest[m.key]
                              /\ \A u \in Shard : receipts'[u][m.key] \in {NoReceipt, receipts[u][m.key]}
    BY <1>7, <2>1 DEF Fits, Holding
  <2>3. m.answer # "none" => m.step \in Holding
    BY <2>1 DEF Fits, Holding
  <2>4. \A j \in Key : m.step \in {"scan", "execute"} => m.time <= peak'[j]
    BY <1>5, <1>6, <1>14, <2>1 DEF Fits
  <2>5. \A u \in Shard :
          /\ m.step = "scan" /\ u < m.next => receipts'[u][m.key] \in {NoReceipt, m.found}
          /\ m.step = "scan" /\ m.found # NoReceipt =>
                /\ latest'[m.key] = m.found
                /\ u >= m.next => receipts'[u][m.key] = NoReceipt
          /\ m.step = "execute" => receipts'[u][m.key] = NoReceipt
    BY <2>1, <2>2 DEF Fits, Holding
  <2>6. QED
    BY <2>1, <2>2, <2>3, <2>4, <2>5 DEF Fits
<1>15. UNCHANGED home
  BY DEF ExecuteCommit
<1>16. QED
  BY <1>2, <1>6, <1>7, <1>8, <1>9, <1>10, <1>11, <1>12, <1>13, <1>14, <1>15, Assemble

\* Execute
LEMMA ExecuteStep ==
    ASSUME Inv, NEW c \in Call, Execute(c) PROVE Inv'
<1>1. call[c].step = "execute"
  BY DEF Execute
<1>2. PICK table : /\ Preflight(c, table)
                   /\ ExecuteExisting(c, table) \/ ExecuteRefused(c, table)
                         \/ ExecuteCommit(c, table)
  BY DEF Execute
<1>3. ~ ExecuteExisting(c, table)
  <2>1. Fits(call[c]) /\ call[c].key \in Key /\ call[c].write \in Write
    BY <1>1, Split DEF Inv, Fits
  <2>2. PICK s \in Shard : s = Target[call[c].write]
    BY <2>1, IdempotentAssumption
  <2>3. receipts[s][call[c].key] = NoReceipt
    BY <1>1, <2>1 DEF Fits
  <2>4. table[call[c].key] = NoReceipt
    BY <1>1, <1>2, <2>1, <2>2, <2>3, PreflightLeaves
  <2>5. QED
    BY <2>4 DEF ExecuteExisting
<1>4. QED
  BY <1>1, <1>2, <1>3, RefusedStep, CommitStep

--------------------------------------------------------------------------------
(* The theorems.                                                           *)

LEMMA InvStep == Inv /\ [IdempotentNext]_vars => Inv'
<1>1. ASSUME Inv, IdempotentNext PROVE Inv'
  <2>1. PICK c \in Call : \/ \E k \in Key, w \in Write : Begin(c, k, w)
                          \/ CallStep(c)
                          \/ Fail(c)
    BY <1>1 DEF IdempotentNext
  <2>2. CASE \E k \in Key, w \in Write : Begin(c, k, w)
    BY <1>1, <2>2, BeginStep
  <2>3. CASE CallStep(c)
    BY <1>1, <2>3, WaitStep, StripeStep, FindStep, ResolveStep, ExecuteStep, EndStep
       DEF CallStep
  <2>4. CASE Fail(c)
    BY <1>1, <2>4, EndStep
  <2>5. QED
    BY <2>1, <2>2, <2>3, <2>4
<1>2. ASSUME Inv, UNCHANGED vars PROVE Inv'
  <2>1. UNCHANGED <<home, call, receipts, latest, repeated, peak>>
    BY <1>2 DEF vars, durable
  <2>2. Inv = Inv'
    BY <2>1 DEF Inv, IdempotentTypeOK, IdempotentInv, NeverRepeated, AnswerTruth, OneReceipt,
                TableBound, KeyInv, StripeInv, LatestInv, ScanInv, ExpiryInv, Expired
  <2>3. QED
    BY <1>2, <2>2
<1>3. QED
  BY <1>1, <1>2

\* Every reachable state satisfies the inductive invariant.
LEMMA Invariance == IdempotentSpec => []Inv
  BY InvInit, InvStep, PTL DEF IdempotentSpec

\* The variables of a keyed write (execute_idempotent_write) keep their types.
THEOREM IdempotentTyped == IdempotentSpec => []IdempotentTypeOK
<1>1. Inv => IdempotentTypeOK
  BY DEF Inv
<1>2. QED
  BY <1>1, Invariance, PTL

\* Stripes, the scan of all shards and the deletion of expired receipts keep the
\* inductive invariant (run_idempotent_write, find_receipt, execute_with_receipt).
THEOREM IdempotentSafe == IdempotentSpec => []IdempotentInv
<1>1. Inv => IdempotentInv
  BY DEF Inv
<1>2. QED
  BY <1>1, Invariance, PTL

\* No key is changed twice within the retention, whatever fails and however the clock
\* jumps (execute_with_receipt).
THEOREM NeverRepeatedSafe == IdempotentSpec => []NeverRepeated
<1>1. Inv => NeverRepeated
  BY DEF Inv, IdempotentInv
<1>2. QED
  BY <1>1, Invariance, PTL

\* Every answer is true of the last change under its key, and none reports corruption
\* (idempotency_result_from_receipt).
THEOREM AnswerSafe == IdempotentSpec => []AnswerTruth
<1>1. Inv => AnswerTruth
  BY DEF Inv, IdempotentInv
<1>2. QED
  BY <1>1, Invariance, PTL

\* A key has a receipt on one shard at most (find_receipt deletes what has expired).
THEOREM OneReceiptSafe == IdempotentSpec => []OneReceipt
<1>1. Inv => OneReceipt
  BY DEF Inv, IdempotentInv
<1>2. QED
  BY <1>1, Invariance, PTL

\* The bounded cleanup keeps the whole table within the capacity (cleanup_expired,
\* ensure_capacity).
THEOREM TableBoundSafe == IdempotentSpec => []TableBound
<1>1. Inv => TableBound
  BY DEF Inv, IdempotentInv
<1>2. QED
  BY <1>1, Invariance, PTL
================================================================================
