---------------------------- MODULE MCSensorNode ----------------------------
EXTENDS SensorNode

(* No noise, or enough of it to bring a reading below zero.                  *)
NodeNoises == {0, -27}
=============================================================================
