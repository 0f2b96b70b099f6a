SPECIFICATION Spec
CONSTANTS
  Nodes <- SiteNodes
  Values <- SiteValues
  WINDOW_SIZE = 2
  REQ_WAITING_MAX = 1
  MaxInFlight = 2
INVARIANTS
  TypeOK
  NoPostRefused
PROPERTIES
  SettledStays
  CalmSettles
  PointFollowsSensors
  ImplementsSiteReport
