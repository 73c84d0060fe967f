------------------------------- MODULE Tally -------------------------------
(***************************************************************************)
(* The sum of a natural-valued function over its domain, as the number of  *)
(* its units: what MapThenSumSet computes, in a form that can be reasoned  *)
(* about with the cardinality theorems of FiniteSetTheorems.               *)
(***************************************************************************)
EXTENDS Integers, FiniteSets

Units(f) == UNION {{x} \X (1 .. f[x]) : x \in DOMAIN f}
Total(f) == Cardinality(Units(f))
=============================================================================
