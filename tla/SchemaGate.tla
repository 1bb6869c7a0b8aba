------------------------------ MODULE SchemaGate -------------------------------
(***************************************************************************)
(* The application-schema admission gate of a process                      *)
(* (src/storage/schema_gate.rs): ordinary operations are admitted while it *)
(* is ready; the one migration coordinator closes it, waits until the      *)
(* admitted operations have left, and opens it again.                      *)
(*                                                                         *)
(* The count of operations is kept under a mutex; the wakeup of the        *)
(* waiting coordinator is sent after the mutex is released.  The actions   *)
(* constrain the variables of this module only; a composing module says    *)
(* what happens to its own.                                                *)
(***************************************************************************)
EXTENDS FiniteSets

CONSTANTS
    Process,
    Client     \* the operations a process can have under way

VARIABLES
    gate,      \* gate[p]: SchemaGateState
    active,    \* active[p]: the operations admitted and not yet released
    notices,   \* notices[p]: operations that left the gate empty, their wakeup unsent
    restore,   \* restore[p]: the state a dropped migration guard goes back to
    waiter     \* waiter[p]: the coordinator's wait for quiescence

gateVars == <<gate, active, notices, restore, waiter>>

GateState == {"Ready", "Migrating", "Pending", "Degraded"}
Waiter == {"none", "start", "registered", "notified", "asleep", "drained"}

GateTypeOK ==
    /\ gate \in [Process -> GateState]
    /\ active \in [Process -> SUBSET Client]
    /\ notices \in [Process -> SUBSET Client]
    /\ restore \in [Process -> {"Ready", "Pending"}]
    /\ waiter \in [Process -> Waiter]

GateInit ==
    /\ gate = [p \in Process |-> "Ready"]
    /\ active = [p \in Process |-> {}]
    /\ notices = [p \in Process |-> {}]
    /\ restore = [p \in Process |-> "Ready"]
    /\ waiter = [p \in Process |-> "none"]

\* try_acquire_operation
AcquireOperation(p, c) ==
    /\ gate[p] = "Ready" /\ c \notin active[p] \cup notices[p]
    /\ active' = [active EXCEPT ![p] = @ \cup {c}]
    /\ UNCHANGED <<gate, notices, restore, waiter>>

\* release_operation, under the mutex.  What the operation found may have closed the
\* gate for good (mark_degraded).
ReleaseOperation(p, c, degraded) ==
    /\ c \in active[p]
    /\ active' = [active EXCEPT ![p] = @ \ {c}]
    /\ notices' = [notices EXCEPT ![p] = IF active[p] = {c} THEN @ \cup {c} ELSE @]
    /\ gate' = [gate EXCEPT ![p] = IF degraded THEN "Degraded" ELSE @]
    /\ UNCHANGED <<restore, waiter>>

\* release_operation, after the mutex: notify_all and notify_waiters reach whoever is
\* registered at that moment and nobody else.
Notify(p, c) ==
    /\ c \in notices[p]
    /\ notices' = [notices EXCEPT ![p] = @ \ {c}]
    /\ waiter' = [waiter EXCEPT ![p] = CASE @ = "registered" -> "notified"
                                         [] @ = "asleep" -> "start"
                                         [] OTHER -> @]
    /\ UNCHANGED <<gate, active, restore>>

\* begin_migration
CloseGate(p) ==
    /\ gate[p] \in {"Ready", "Pending"}
    /\ gate' = [gate EXCEPT ![p] = "Migrating"]
    /\ restore' = [restore EXCEPT ![p] = gate[p]]
    /\ waiter' = [waiter EXCEPT ![p] = "start"]
    /\ UNCHANGED <<active, notices>>

\* Mutant: the count is looked at first, the wakeup registered for when going to sleep.
WaitUnregistered(p) ==
    /\ waiter[p] \in {"start", "registered", "notified"}
    /\ waiter' = [waiter EXCEPT ![p] = IF @ # "start" THEN "asleep"
                                       ELSE IF active[p] = {} THEN "drained" ELSE "registered"]
    /\ UNCHANGED <<gate, active, notices, restore>>

\* wait_for_quiescence: register for the wakeup; look at the count; sleep, unless the
\* wakeup came in between.
WaitForQuiescence(p) ==
    /\ waiter[p] \in {"start", "registered", "notified"}
    /\ waiter' = [waiter EXCEPT ![p] = IF @ = "start" THEN "registered"
                                       ELSE IF active[p] = {} THEN "drained"
                                       ELSE IF @ = "notified" THEN "start" ELSE "asleep"]
    /\ UNCHANGED <<gate, active, notices, restore>>

\* The guard is dropped unfinished: cancellation, an error, unwinding.
GateAfterDrop(p, state) == IF gate[p] = "Migrating" THEN state ELSE gate[p]

\* Every operation admitted before the gate closed has left.
Quiesced(p) == waiter[p] = "drained"
================================================================================
