SPECIFICATION FairSpec
CONSTANTS
  StartValue = 4
  AddValue = 2
  SendMeVersion = 0
  OutboundCap = 1
  ControlCap = 2
  WireCap = 1
  BufferCap = 6
  TriggerCells = 2
  Scenarios <- Cuts
PROPERTY WriteReturns
CHECK_DEADLOCK FALSE
