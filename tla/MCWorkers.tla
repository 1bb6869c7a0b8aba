------------------------------- MODULE MCWorkers -------------------------------
(***************************************************************************)
(* Two scenes.  With the whole crew, both workers race over the stream of  *)
(* i1, one row that is there at first, with crashes and rejected batches.  *)
(* With a crew of one, two indexes share the cursors of the shard, i2 is   *)
(* partial and skips the rows b, and a row may move between two locators,  *)
(* which are alike: the first has a row at first if there is any.          *)
(***************************************************************************)
EXTENDS GlobalIndexAsync, TLC
CONSTANTS i1, i2, l1, a, b
VARIABLE crew   \* the workers of this behaviour

MCKeyOf == (i1 :> (a :> a @@ b :> b)) @@ (i2 :> (a :> a @@ b :> NoKey))

Race == crew = Worker
OneRow(r) == \A s \in Shard, l \in Locator : r[s][l] \in IF l = l1 THEN {a, NoRow} ELSE {NoRow}

MCInit ==
    /\ AsyncInit
    /\ crew \in {Worker} \cup {{w} : w \in Worker}
    /\ Race => OneRow(rows)
    /\ \A s \in Shard : \/ rows[s][l1] # NoRow
                        \/ ~ Race /\ \A l \in Locator : rows[s][l] = NoRow

Started == \A i \in Index : lifecycle[i] = "Ready"

InRace == lifecycle[i1] = "Ready" /\ (Writers \/ Workers \/ Rejections \/ Expiry)

RaceNext ==
    /\ Race
    /\ InRace \/ FirstBuild
    /\ OneRow(rows') /\ (maint'.index = i2 => maint'.phase = "none")

StreamsNext ==
    /\ ~ Race
    /\ (Started /\ (Writers \/ Passes)) \/ FirstBuild
    /\ \A w \in Worker \ crew : pc'[w] = "idle"

MCNext == (RaceNext \/ StreamsNext) /\ UNCHANGED crew

MCSpec == MCInit /\ [][MCNext]_<<vars, crew>>

WorkerSymmetry == Permutations(Worker)
================================================================================
