------------------------------- MODULE MCUnique --------------------------------
(***************************************************************************)
(* Writers of two keys, or of one key while it is looked up.  The shards   *)
(* are alike: the first one has a row if there is any, and with two keys   *)
(* there is one.                                                           *)
(***************************************************************************)
EXTENDS UniqueLookup, TLC

CONSTANT s1

VARIABLE live   \* the keys written and looked up in this behaviour

MCInit ==
    /\ LookupInit
    /\ live \in {Key} \cup {{k} : k \in Key}
    /\ \A o \in Owner : rows[o] \in live \cup {NoKey}
    /\ \/ \E o \in Owner : o[1] = s1 /\ rows[o] # NoKey
       \/ live # Key /\ \A o \in Owner : rows[o] = NoKey

MCNext ==
    /\ LookupNext
    /\ \A w \in Writer : KeysOf(writer'[w].mutation) \subseteq live
    /\ live = Key => read' = read
    /\ UNCHANGED live

MCSpec == MCInit /\ [][MCNext]_<<lookupVars, live>>

Symmetry == Permutations(Writer) \cup Permutations(Operation) \cup Permutations(Key)
================================================================================
