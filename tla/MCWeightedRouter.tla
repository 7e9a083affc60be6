-------------------------- MODULE MCWeightedRouter --------------------------
(* Instances of WeightedRouter for TLC. *)
EXTENDS WeightedRouter

CONSTANTS b1, b2, b3, t1, t2

ThreeBackends == <<b1, b2, b3>>
HeavyFirst == [b \in Backends |-> IF b = b1 THEN 2 ELSE 1]
=============================================================================
