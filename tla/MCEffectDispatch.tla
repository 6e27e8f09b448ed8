-------------------------- MODULE MCEffectDispatch --------------------------
(* TLC instance of EffectDispatch.                                           *)
EXTENDS EffectDispatch, TLC

ProcessSymmetry == Permutations(Executors) \cup Permutations(Reconcilers)
=============================================================================
