---------------------------- MODULE MCConnCache ----------------------------
(* ConnCache on a small instance: users and servers are interchangeable.    *)
EXTENDS ConnCache, TLC

Symmetry == Permutations(Users) \cup Permutations(Servers)
=============================================================================
