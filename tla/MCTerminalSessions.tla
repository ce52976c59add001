------------------------- MODULE MCTerminalSessions -------------------------
(* TerminalSessions on small instances. *)
EXTENDS TerminalSessions, TLC

Symmetry == Permutations(VM) \cup Permutations(Session) \cup Permutations(Caller)
=============================================================================
