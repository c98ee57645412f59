----------------------------- MODULE MCAudioRing -----------------------------
(* An instance of AudioRing for TLC. *)
EXTENDS AudioRing, TLC

CONSTANTS r1, r2
==============================================================================
