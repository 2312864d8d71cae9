----------------------------- MODULE MCBlockStore -----------------------------
(* BlockStore with two block files of fewer than four recorded bytes, and  *)
(* four uploads.                                                           *)
EXTENDS BlockStore, FiniteSets, TLC

CONSTANTS b1, b2, w1, w2, MaxGrants

MCSymmetry == Permutations({b1, b2}) \cup Permutations({w1, w2})

\* Bound: number of uploads.
MCNext == StoreNext /\ Cardinality(grants') <= MaxGrants

MCSpec == StoreInit /\ [][MCNext]_storeVars
=============================================================================
