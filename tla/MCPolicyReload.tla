--------------------------- MODULE MCPolicyReload ---------------------------
(* PolicyReload on small instances.                                         *)
EXTENDS PolicyReload

\* A change that no mark shows is followed no further.
UntilUnseen == "unseen" \notin gaps
=============================================================================
