--------------------------- MODULE MCAbuseGuard ----------------------------
(* Small instances of AbuseGuard for TLC. *)
EXTENDS AbuseGuard, TLC

Symmetry == Permutations(Workers) \cup Permutations(Kits) \cup Permutations(Active)
=============================================================================
