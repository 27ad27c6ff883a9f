------------------------------ MODULE MCAccess ------------------------------
(* A small instance of Access. *)
EXTENDS Access, TLC

CONSTANTS p1, p2, p3, k1, k2, k3, u1, u2

Alike == Permutations(Keys \ Known)

Asked == {<<u1, "demote", "none">>, <<u1, "keep", "yes">>, <<u1, "keep", "no">>,
          <<u2, "demote", "none">>, <<u2, "promote", "none">>}
=============================================================================
