--------------------------- MODULE MCFramePipeline ---------------------------
(* Instances of FramePipeline for TLC; the constants are in the cfg files. *)
EXTENDS FramePipeline

=============================================================================
