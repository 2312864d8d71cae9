----------------------------- MODULE MCNameServer -----------------------------
(* NameServer with two clients, two names and two locations.               *)
EXTENDS NameServer, TLC

CONSTANTS c1, c2, n1, n2, l1, l2

MCSymmetry == Permutations({c1, c2}) \cup Permutations({n1, n2}) \cup Permutations({l1, l2})
=============================================================================
