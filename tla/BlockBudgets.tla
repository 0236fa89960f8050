---------------------------- MODULE BlockBudgets ----------------------------
(***************************************************************************)
(* What admission control promises, without queues, requests or blocks: a  *)
(* pool of Capacity units, clients that are granted a budget when the pool *)
(* can honour every budget in full, and that use at most their budget, so  *)
(* that a client's use within its budget is never refused.                 *)
(***************************************************************************)
EXTENDS Integers, FiniteSets

CONSTANTS Capacity, Client

VARIABLES
    granted,    \* granted[c]: c's budget, 0 when it has none
    used        \* used[c]: units c holds

vars == <<granted, used>>

\* One pair per unit the clients are owed, f being granted or used.
Units(f) == UNION {{c} \X (1 .. f[c]) : c \in Client}

Honoured == /\ Cardinality(Units(granted)) <= Capacity
            /\ \A c \in Client : used[c] <= granted[c]

Init == /\ granted = [c \in Client |-> 0]
        /\ used = [c \in Client |-> 0]

\* A budget of n, u of it used at once.
Grant(c, n, u) ==
    /\ granted[c] = 0
    /\ u <= n
    /\ granted' = [granted EXCEPT ![c] = n]
    /\ Cardinality(Units(granted')) <= Capacity
    /\ used' = [used EXCEPT ![c] = u]

\* Up or down, within the budget.
Use(c, u) ==
    /\ u <= granted[c]
    /\ used' = [used EXCEPT ![c] = u]
    /\ UNCHANGED granted

Release(c) ==
    /\ granted' = [granted EXCEPT ![c] = 0]
    /\ used' = [used EXCEPT ![c] = 0]

Next == \E c \in Client : \/ \E n, u \in 0 .. Capacity : Grant(c, n, u)
                          \/ \E u \in 0 .. Capacity : Use(c, u)
                          \/ Release(c)

Spec == Init /\ [][Next]_vars
=============================================================================
