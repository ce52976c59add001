--------------------------- MODULE MCVncSessions ---------------------------
(* VncSessions on small instances. *)
EXTENDS VncSessions, TLC
=============================================================================
