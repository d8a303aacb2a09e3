------------------------------ MODULE MCLocks ------------------------------
(* Locks on small instances.                                                *)
EXTENDS Locks, TLC

\* Agents are interchangeable.
Symmetry == Permutations(Pids)

\* An edit_line promise is only followed in the first second and until the first
\* use of a gap.
NestedUntilGap ==
    \/ breach = {} /\ clock = Epoch
    \/ \A p \in Ignoring : last[p] = None /\ \A a \in Pids : p \notin cache[a]
=============================================================================
