SPECIFICATION Spec
CONSTANTS
  StartValue = 4
  AddValue = 2
  SendMeVersion = 1
  OutboundCap = 1
  ControlCap = 2
  WireCap = 1
  BufferCap = 6
  TriggerCells = 2
  Scenarios <- OnlyUp
INVARIANT StreamSendMeAccepted
CHECK_DEADLOCK FALSE
