---------------------------- MODULE MCSingleFlight ----------------------------
(* A small instance of SingleFlight. *)
EXTENDS SingleFlight

CONSTANTS c1, c2, c3, c4, k1, k2

TwoKeys == [c \in Callers |-> IF c = c4 THEN k2 ELSE k1]
=============================================================================
