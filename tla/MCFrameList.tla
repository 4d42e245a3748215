----------------------------- MODULE MCFrameList -----------------------------
(* Instances of FrameList for TLC; the constants are in the cfg files.     *)
EXTENDS FrameList

=============================================================================
