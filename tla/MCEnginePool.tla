---------------------------- MODULE MCEnginePool ----------------------------
(* Instances of EnginePool for TLC. *)
EXTENDS EnginePool

CONSTANTS ma, mb, mc, t1, t2, t3, o1

UnitSizes == [m \in Models |-> 1]
=============================================================================
