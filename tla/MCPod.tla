-------------------------------- MODULE MCPod --------------------------------
(* An instance of the pod for TLC: the bank is new, or has served requests  *)
(* for two keys before the sessions of the instance come.                   *)
EXTENDS OpenAIEvents, TLC

CONSTANTS s1, s2, c1, c2, k1, k2, k3, p1

MCKeyOf == (s1 :> k1) @@ (s2 :> k3)

\* k1 came with an image, and then k2 without one.
MCEarlier ==
    LET a == [key |-> k1, portrait |-> p1]
        b == [key |-> k2, portrait |-> Grey]
    IN  {EmptyBank, [store |-> <<a, b>>, shown |-> <<a, b>>]}
==============================================================================
