SPECIFICATION FairSpec
CONSTANTS
  a = a
  b = b
  c = c
  None = None
  Relays = {a, b, c}
  Faulty <- JustB
  Paths <- MCPaths
  Extras <- MCExtras
  MaxHops = 3
  MaxAttempts = 4
  MaxCells = 2
  MaxReplies = 3
INVARIANTS CellsRecognised KeyStreamsInStep HopsAreThePath
PROPERTIES ExtendReturns
CHECK_DEADLOCK FALSE
