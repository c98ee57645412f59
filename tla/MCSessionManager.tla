--------------------------- MODULE MCSessionManager ---------------------------
(* Instances of SessionManager for TLC; the .cfg files choose the gateway.  *)
EXTENDS SessionManager, TLC

CONSTANTS s1, s2, c1, c2

\* DELETE requests are interchangeable.
MCSymmetry == Permutations(Clients)
==============================================================================
