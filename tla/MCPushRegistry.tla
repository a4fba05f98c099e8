--------------------------- MODULE MCPushRegistry ---------------------------
(* Small instance of PushRegistry for TLC.                                 *)
EXTENDS PushRegistry, TLC

Symmetry == Permutations(Pushes) \cup Permutations(Ops) \cup Permutations(Accounts)
=============================================================================
