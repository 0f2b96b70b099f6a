------------------------------ MODULE MCFusion ------------------------------
EXTENDS FusionCases

(* Spans both signs and, relative to one another, ratios on both sides of the *)
(* z-threshold.                                                               *)
FusionReadings == {-40, -12, -3, -1, 0, 1, 2, 5, 14, 15, 16, 90}
=============================================================================
