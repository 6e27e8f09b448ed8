---------------------------- MODULE MCThreadTurn -----------------------------
(* TLC instances of ThreadTurn.                                              *)
EXTENDS ThreadTurn, TLC
=============================================================================
