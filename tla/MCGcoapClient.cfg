SPECIFICATION Spec
CONSTANTS
  Paths <- AllPaths
  Blocks <- AllBlocks
  TooLong <- LongTexts
  LoopRequests <- MainLoop
  ShellCommands <- Typed
  REQ_WAITING_MAX = 2
  MaxRequests = 4
INVARIANTS
  TypeOK
  UndisturbedKeepsRequest
  CountNeverAhead
PROPERTIES
  LessToAskFor
  FallsSilent
