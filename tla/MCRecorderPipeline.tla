------------------------ MODULE MCRecorderPipeline ------------------------
(* RecorderPipeline on small instances. *)
EXTENDS RecorderPipeline
=============================================================================
