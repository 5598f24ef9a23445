------------------------------- MODULE MCSseHub -------------------------------
(* Two users with a stream each: a message is for both, one or none.      *)
EXTENDS SseHub, TLC

CONSTANTS s1, s2, alice, bob

MCUserOf == s1 :> alice @@ s2 :> bob
=============================================================================
