----------------------------- MODULE MCDataServer -----------------------------
(* DataServer with two connections and a bounded number of uploads.        *)
EXTENDS DataServer, TLC

CONSTANTS c1, c2, b1, b2, MaxGrants

MCWriter == Client \X Name

MCBlockSymmetry == Permutations({b1, b2})

MCSymmetry == Permutations({c1, c2}) \cup MCBlockSymmetry

\* Bound: number of uploads.
MCNext == Next /\ Cardinality(grants') <= MaxGrants

MCSpec == Init /\ [][MCNext]_vars

MCFairSpec == MCSpec /\ Fairness
=============================================================================
