----------------------------- MODULE MCPveAuth -----------------------------
(* PveAuth on small instances. *)
EXTENDS PveAuth, TLC

Symmetry == Permutations(Caller)
=============================================================================
