----------------------------- MODULE MCArcPaper ------------------------------
(* TLC instances of ArcPaper.                                                *)
EXTENDS ArcPaper, TLC
=============================================================================
