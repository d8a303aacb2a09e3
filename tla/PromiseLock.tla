---------------------------- MODULE PromiseLock ----------------------------
(***************************************************************************)
(* What the promise locks promise, without records, clocks or a critical   *)
(* section: an agent gets the lock of a promise only when no other agent   *)
(* has it.  The promise is kept until it is broken, once and for all;      *)
(* after that locks are still taken and given back by one agent at a time. *)
(***************************************************************************)
CONSTANTS Agents, Promises

VARIABLES
    holders,    \* the agents that have the lock of each promise
    broken      \* exclusion is no longer promised

vars == <<holders, broken>>

Init ==
    /\ holders = [p \in Promises |-> {}]
    /\ broken = FALSE

Take(a, p) ==
    /\ broken \/ holders[p] = {}
    /\ holders' = [holders EXCEPT ![p] = @ \cup {a}]
    /\ UNCHANGED broken

\* An agent gives locks back: one of them, or all of them when it ends.
Release(a, P) ==
    /\ holders' = [p \in Promises |-> IF p \in P THEN holders[p] \ {a} ELSE holders[p]]
    /\ UNCHANGED broken

Break ==
    /\ broken' = TRUE
    /\ UNCHANGED holders

\* An interrupted agent believes again that it has a lock it gave back.
Regain(a, p) ==
    /\ broken' = TRUE
    /\ holders' = [holders EXCEPT ![p] = @ \cup {a}]

Next ==
    \/ Break
    \/ \E a \in Agents :
          \/ \E p \in Promises : Take(a, p) \/ Regain(a, p)
          \/ \E P \in SUBSET Promises : Release(a, P)

Spec == Init /\ [][Next]_vars
=============================================================================
