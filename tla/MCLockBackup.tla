---------------------------- MODULE MCLockBackup ----------------------------
(* LockBackup on small instances.                                           *)
EXTENDS LockBackup, TLC

MCInodes == 1 .. 9
MCChunks == 1 .. 2
Symmetry == Permutations(Pids)
=============================================================================
