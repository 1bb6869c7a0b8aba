----------------------------- MODULE UniqueLookup ------------------------------
(***************************************************************************)
(* Exact-key queries through a unique global index                         *)
(* (global_index::lookup_authoritative_owners and the routing step of      *)
(* core/planner.rs) while writers reserve, commit, finalise, die and are   *)
(* recovered.                                                              *)
(*                                                                         *)
(* One read transaction of global.sqlite gives the shards the statement    *)
(* runs on; the shards are then read one after the other.                  *)
(***************************************************************************)
EXTENDS UniqueAuthority

CONSTANT Reader   \* concurrent queries

VARIABLE read     \* read[r]: the local state of query r

lookupVars == <<vars, read>>

\* absent is a history variable: at some moment since the owners were looked up
\* no committed row had the key.
Read == [step : {"idle", "scan"}, key : Key \cup {NoKey}, todo : SUBSET Shard,
         found : BOOLEAN, absent : BOOLEAN]

NoRead == [step |-> "idle", key |-> NoKey, todo |-> {},
           found |-> FALSE, absent |-> FALSE]

LookupTypeOK == AuthorityTypeOK /\ read \in [Reader -> Read]

LookupInit == AuthorityInit /\ read = [r \in Reader |-> NoRead]

\* Mutant: only the snapshot is consulted.
LookupOwnersFinalized(k) == {e[2] : e \in {f \in entries : f[1] = k}}

\* lookup_authoritative_owners: the owners in the snapshot, and both owners of an
\* operation under way on the key.
LookupOwners(k) ==
    {e[2] : e \in {f \in entries : f[1] = k}}
       \cup UNION {{e[2] : e \in {m.previous, m.new} \ {NoEntry}} :
                      m \in {operations[p].mutation : p \in {q \in Operation :
                                reservations[k] = q /\ operations[q].state = "active"}}}

LookUp(r, k) ==
    /\ read[r].step = "idle"
    /\ read' = [read EXCEPT ![r] = [step |-> "scan", key |-> k, found |-> FALSE,
                                    todo |-> {o[1] : o \in LookupOwners(k)},
                                    absent |-> Holders(k) = {}]]
    /\ UNCHANGED vars

\* The statement, with its whole predicate, on one of the shards.
ReadShard(r, s) ==
    /\ read[r].step = "scan" /\ s \in read[r].todo
    /\ read' = [read EXCEPT ![r].todo = @ \ {s},
                            ![r].found = @ \/ \E o \in Holders(read[r].key) : o[1] = s]
    /\ UNCHANGED vars

\* The result is returned, or the query is cancelled.
EndRead(r) ==
    /\ read[r].step # "idle"
    /\ read' = [read EXCEPT ![r] = NoRead]
    /\ UNCHANGED vars

LookupStep(r) ==
    \/ \E k \in Key : LookUp(r, k)
    \/ \E s \in Shard : ReadShard(r, s)
    \/ EndRead(r)

Watch ==
    read' = [r \in Reader |-> [read[r] EXCEPT !.absent =
                @ \/ (read[r].step = "scan" /\ \A o \in Owner : rows'[o] # read[r].key)]]

LookupNext ==
    \/ \E r \in Reader : LookupStep(r)
    \/ (\E w \in Writer : WriterStep(w)) /\ Watch
    \/ (\A r \in Reader : read[r].step = "idle") /\ Rebuild /\ UNCHANGED read

LookupSpec == LookupInit /\ [][LookupNext]_lookupVars

--------------------------------------------------------------------------------
(* What a query may rely on.                                               *)

\* "Active unique mutations are included with both their previous and new owners,
\* closing the physical-commit/index-finalize visibility window"
\* (lookup_authoritative_owners): a query that has read all its shards and found
\* nothing is right about some moment of its run, although no lock ties the lookup
\* to the shard reads and rows change owner meanwhile.
LookupComplete ==
    \A r \in Reader :
        read[r].step = "scan" /\ read[r].todo = {} => read[r].found \/ read[r].absent
================================================================================
