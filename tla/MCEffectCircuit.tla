--------------------------- MODULE MCEffectCircuit ---------------------------
(* TLC instances of EffectCircuit.                                           *)
EXTENDS EffectCircuit
=============================================================================
