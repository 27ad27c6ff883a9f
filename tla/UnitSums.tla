------------------------------- MODULE UnitSums -------------------------------
(***************************************************************************)
(* The sum of a function of natural numbers, counted unit by unit: one     *)
(* unit <<x, n>> for each n up to f[x].  Counting, rather than adding up   *)
(* in some order, leaves nothing to an induction, so that what the models  *)
(* keep in running totals can be proved to be the sum it stands for.       *)
(***************************************************************************)
EXTENDS Integers, FiniteSets

(* The units above lo. *)
Units(lo, f) == UNION {{x} \X (lo + 1 .. f[x]) : x \in DOMAIN f}
SumAbove(lo, f) == Cardinality(Units(lo, f))
Sum(f) == SumAbove(0, f)

(* How far n is above lo. *)
Over(n, lo) == IF n > lo THEN n - lo ELSE 0
=============================================================================
