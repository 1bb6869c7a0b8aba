------------------------------ MODULE MCLifecycle ------------------------------
(***************************************************************************)
(* Two scenes.  At one locator: every operation on a row with two keys,    *)
(* validation and repair included.  At all locators: a row of one key      *)
(* moves between them while a query is planned, a worker replays and       *)
(* rejects batches, and legacy writes take the index out of service; after *)
(* that only queries in flight and further legacy writes matter to         *)
(* ReadComplete, and nothing else goes on.                                 *)
(***************************************************************************)
EXTENDS GlobalIndexRecovery, GlobalIndexRead, TLC
VARIABLES
    spots,   \* the locators of this behaviour
    hot      \* the key of its rows, or NoKey if they have any

mcVars == <<readVars, undrained, spots, hot>>

MCKeyOf == [i \in Index |-> [v \in Value |-> v]]

AtSpots(table) == \A s \in Shard, l \in Locator \ spots : table[s][l] = NoRow
OneKey(table) == \A s \in Shard, l \in Locator : table[s][l] \in {hot, NoRow}

MCInit ==
    /\ ReadInit /\ undrained = {}
    /\ spots \in {Locator} \cup {{l} : l \in Locator}
    /\ hot \in IF spots = Locator THEN Key ELSE {NoKey}
    /\ AtSpots(rows) /\ (spots = Locator => OneKey(rows))

\* One worker is the owner of every lease, so a deadline changes nothing.
Undisturbed ==
    Writers \/ LegacyWriter \/ Operators \/ Workers \/ Rejections \/ Maintenance

LifecycleNext ==
    /\ spots # Locator /\ (Undisturbed \/ Recovery) /\ Remember /\ UNCHANGED read
    /\ AtSpots(rows')

Started == \A i \in Index : lifecycle[i] = "Ready"
Opening == ReadersIdle /\ FirstBuild /\ UNCHANGED read
InService == rebuild = {} /\ (Writers \/ Passes \/ Rejections)

\* What a pass has in mind no longer matters once the index is out of service.
BetweenPasses == rebuild = {} => \A w \in Worker : pc[w] = "idle"

ReadersNext ==
    /\ spots = Locator
    /\ \/ \E r \in Reader : ReadStep(r)
       \/ Opening
       \/ Started /\ ((BetweenPasses /\ LegacyWriter) \/ InService) /\ StillHeld
    /\ OneKey(rows') /\ \A s \in Shard : last'[s] < MaxCursor
    /\ \A r \in Reader : read'[r].step # "idle" => read'[r].key = hot
    /\ UNCHANGED undrained

MCNext == (LifecycleNext \/ ReadersNext) /\ UNCHANGED <<spots, hot>>

MCSpec == MCInit /\ [][MCNext]_mcVars

\* A row is its key here: Value = Key.
Symmetry == Permutations(Locator) \cup Permutations(Key)
================================================================================
