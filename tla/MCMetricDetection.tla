-------------------------- MODULE MCMetricDetection --------------------------
(***************************************************************************)
(* MetricDetection with one rule about the first detector.                 *)
(***************************************************************************)
EXTENDS MetricDetection, TLC

MCRuleFor == [r \in Rules |-> 1]

Symmetry == Permutations(Callers)
=============================================================================
