---------------------------- MODULE MCRemoteCopy ----------------------------
(* RemoteCopy on a small instance: a file is less than a block and than a  *)
(* refusal, grows and shrinks again.                                       *)
EXTENDS RemoteCopy, TLC

MCSize == <<1, 4, 3, 2>>

Symmetry == Permutations(Files)

\* Once the connection has lost its place nothing is claimed any more about
\* what comes through it: how lost it gets is seen in one more promise.
UntilLost == gaps \cap {"late", "resized", "refused"} # {} => copies <= 2

\* The sources change three times, together.
FewChanges == \A f, h \in Files : f # h => version[f] + version[h] <= 5
=============================================================================
