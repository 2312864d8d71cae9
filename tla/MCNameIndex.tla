----------------------------- MODULE MCNameIndex -----------------------------
(* NameIndex with up to three names and two locations.                     *)
EXTENDS NameIndex, TLC

CONSTANTS k1, k2, k3, l1, l2

MCSymmetry == Permutations({k1, k2, k3}) \cup Permutations({l1, l2})
=============================================================================
