SPECIFICATION Spec
CONSTANTS
  Paths <- AllPaths
  Blocks <- AllBlocks
  TooLong <- LongTexts
  LoopRequests <- MainLoop
  ShellCommands = {}
  REQ_WAITING_MAX = 2
  MaxRequests = 3
INVARIANT ContinuationsKeepRequest
