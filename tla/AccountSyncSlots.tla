--------------------------- MODULE AccountSyncSlots ---------------------------
(***************************************************************************)
(* What src/src/worker.rs promises of its per-account sync scheduler: an    *)
(* account has at most one job, waiting or active; no more than Capacity    *)
(* jobs are active; and while there is room a waiting job is started.  In   *)
(* which order the waiting jobs start is left open.                         *)
(***************************************************************************)
EXTENDS Naturals, FiniteSets

CONSTANTS Accounts, Capacity

VARIABLE slot   \* the job of each account

TypeOK == slot \in [Accounts -> {"idle", "waiting", "active"}]

Active == {a \in Accounts : slot[a] = "active"}

Init == slot = [a \in Accounts |-> "idle"]

Request(a) == slot[a] = "idle" /\ slot' = [slot EXCEPT ![a] = "waiting"]
Start(a) ==
    /\ slot[a] = "waiting" /\ Cardinality(Active) < Capacity
    /\ slot' = [slot EXCEPT ![a] = "active"]
End(a) == slot[a] = "active" /\ slot' = [slot EXCEPT ![a] = "idle"]

StartSome == \E a \in Accounts : Start(a)
Next == StartSome \/ \E a \in Accounts : Request(a) \/ End(a)

Safety == Init /\ [][Next]_slot
Spec == Safety /\ WF_slot(StartSome)
=============================================================================
