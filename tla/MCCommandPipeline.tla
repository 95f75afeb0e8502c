------------------------- MODULE MCCommandPipeline -------------------------
(* One stage, or two that are connected; pipes of one line.                *)
EXTENDS CommandPipeline
=============================================================================
