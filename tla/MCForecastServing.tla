-------------------------- MODULE MCForecastServing --------------------------
(* Instances of ForecastServing for TLC: the workers are interchangeable. *)
EXTENDS ForecastServing, TLC

Symmetry == Permutations(Workers)
===============================================================================
