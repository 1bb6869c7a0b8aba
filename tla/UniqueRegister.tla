----------------------------- MODULE UniqueRegister ----------------------------
(***************************************************************************)
(* What a unique global index promises its callers: one register per key   *)
(* that names the row having it, changed together with the row in one      *)
(* atomic step.  There is no reservation, no second file and no recovery   *)
(* here; UniqueAuthority shows that these implement it.                    *)
(***************************************************************************)
CONSTANTS Owner, Key, NoKey, NoOwner

VARIABLES
    rows,      \* rows[o]: the key of the row at o, or NoKey
    register   \* register[k]: the row that has the key k, or NoOwner

registerVars == <<rows, register>>

RegisterTypeOK ==
    /\ rows \in [Owner -> Key \cup {NoKey}]
    /\ register \in [Key -> Owner \cup {NoOwner}]

\* The registers and the rows say the same.
Agree == \A k \in Key, o \in Owner : register[k] = o <=> rows[o] = k

RegisterInit == RegisterTypeOK /\ Agree

\* The row at o loses its key.
Delete(o) ==
    /\ rows[o] # NoKey
    /\ rows' = [rows EXCEPT ![o] = NoKey]
    /\ register' = [register EXCEPT ![rows[o]] = NoOwner]

\* The row at o gets a key that no row has, and gives up the one it had.
Put(o, k) ==
    /\ rows' = [rows EXCEPT ![o] = k]
    /\ rows[o] # k /\ register[k] = NoOwner
    /\ register' = [l \in Key |-> IF l = k THEN o
                                  ELSE IF l = rows[o] THEN NoOwner ELSE register[l]]

\* The row at o moves to p, where no row has a key, with its own key or another that is
\* free.
Move(o, p, k) ==
    /\ o # p /\ rows[o] # NoKey /\ rows[p] = NoKey
    /\ rows' = [rows EXCEPT ![o] = NoKey, ![p] = k]
    /\ k = rows[o] \/ register[k] = NoOwner
    /\ register' = [l \in Key |-> IF l = k THEN p
                                  ELSE IF l = rows[o] THEN NoOwner ELSE register[l]]

RegisterNext ==
    \E o \in Owner :
        \/ Delete(o)
        \/ \E k \in Key : Put(o, k)
        \/ \E p \in Owner, k \in Key : Move(o, p, k)

RegisterSpec == RegisterInit /\ [][RegisterNext]_registerVars
================================================================================
