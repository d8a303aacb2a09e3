----------------------------- MODULE MCLastSeen -----------------------------
(* LastSeen on small instances: nothing tells two processes, two keys or    *)
(* two addresses apart.                                                     *)
EXTENDS LastSeen, TLC

Symmetry == Permutations(Procs) \cup Permutations(Keys) \cup Permutations(Addresses)

\* No invariant claims anything after the other histories.
Claimed ==
    /\ "overlap" \notin gaps
    /\ "unseen" \in gaps => gaps \cap {"aliased", "keyless"} = {}
=============================================================================
