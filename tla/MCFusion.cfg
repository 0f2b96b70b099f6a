SPECIFICATION Spec
CONSTANT Readings <- FusionReadings
INVARIANTS
  AtMostOneRejected
  
  OneFaultBounded
  LoneSpikeDropped
