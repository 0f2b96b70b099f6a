SPECIFICATION Spec
CONSTANTS
  WINDOW_SIZE = 6
  Temps = {20, 60}
  Noises <- NodeNoises
  NaNAsInt16 = {0}
INVARIANTS
  TypeOK
  ReportWithinKept
PROPERTIES
  SpikeAbsorbed
  CleaningRemovesFew
  ZeroWindowIsForever
  BootEnds
