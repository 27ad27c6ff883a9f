---------------------------- MODULE MCRateLimiter ----------------------------
(* Small instances of RateLimiter. *)
EXTENDS RateLimiter, TLC

CONSTANTS k1, k2, global, q1, q2, q3, unlimited

TwoKeys == (q1 :> k1) @@ (q2 :> k1) @@ (q3 :> k2)
Estimates == (q1 :> 1) @@ (q2 :> 3) @@ (q3 :> 1)

(* k1 is capped in requests and tokens, k2 in tokens; both share a global cap. *)
KeyRpm  == (global :> 0) @@ (k1 :> 2) @@ (k2 :> unlimited)
KeyTpm  == (global :> 4) @@ (k1 :> 3) @@ (k2 :> 2)
=============================================================================
