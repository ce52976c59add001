---------------------------- MODULE MCHeldInput ----------------------------
(* HeldInput on small instances. *)
EXTENDS HeldInput, TLC
\* The scripts share one record and type nothing here.
Symmetry == Permutations(Scripts)
=============================================================================
