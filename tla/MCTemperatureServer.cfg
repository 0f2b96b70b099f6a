SPECIFICATION Spec
CONSTANTS
  WINDOW_SIZE = 2
  Posts <- ServerPosts
INVARIANTS
  TypeOK
  HeldReadingAge
PROPERTIES
  NoPhantomReading
  OneFaultySensorMasked
  ImplementsFusionCell
