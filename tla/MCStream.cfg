SPECIFICATION FairSpec
CONSTANTS
  StartValue = 4
  AddValue = 2
  SendMeVersion = 0
  OutboundCap = 1
  ControlCap = 1
  WireCap = 1
  BufferCap = 6
  TriggerCells = 2
  Scenarios <- Lives
INVARIANTS TypeOK StreamCredit ReadloopNeverBlocks
PROPERTIES StreamFlows EndLosesNothing LoopsReturn EndForgets
CHECK_DEADLOCK FALSE
