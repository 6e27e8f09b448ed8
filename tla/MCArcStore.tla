----------------------------- MODULE MCArcStore ------------------------------
(* TLC instances of ArcStore.                                                *)
EXTENDS ArcStore, TLC

Symmetry == Permutations(Holders)
=============================================================================
