--------------------------- MODULE MCFramePipeline ---------------------------
(* Instances of FramePipeline for TLC. *)
EXTENDS FramePipeline, TLC

CONSTANTS p1, p2
==============================================================================
