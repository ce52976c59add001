----------------------------- MODULE MCOcrPool -----------------------------
(* OcrPool on small instances. *)
EXTENDS OcrPool, TLC

Symmetry == Permutations(Request)
=============================================================================
