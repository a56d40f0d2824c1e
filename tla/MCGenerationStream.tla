------------------------- MODULE MCGenerationStream -------------------------
(* Small instances of GenerationStream for TLC. *)
EXTENDS GenerationStream
=============================================================================
