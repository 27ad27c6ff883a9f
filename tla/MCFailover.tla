------------------------------ MODULE MCFailover ------------------------------
(* A small instance of Failover: two providers with a key each, a group on    *)
(* both, a fallback group on one, and an empty one.                           *)
EXTENDS Failover

CONSTANTS r1, r2, d1, d2, d3, k1, k2, p1, p2, g1, g2, g3

MCProviderOf == d1 :> p1 @@ d2 :> p2 @@ d3 :> p2
MCAccountOf  == k1 :> p1 @@ k2 :> p2
MCGroupOf    == d1 :> g1 @@ d2 :> g1 @@ d3 :> g2
MCFallbacks  == g1 :> <<g3>> @@ g2 :> <<g1>> @@ g3 :> <<>>
MCBig        == g1 :> <<g2>> @@ g2 :> <<>> @@ g3 :> <<>>
MCRpm        == d1 :> 1 @@ d2 :> 0 @@ d3 :> 0
MCCeiling    == r1 :> 1 @@ r2 :> 1
=============================================================================
