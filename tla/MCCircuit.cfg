SPECIFICATION FairSpec
CONSTANTS
  StartValue = 3
  AddValue = 1
  NumHops = 1
  QueueCap = 1
  InboundCap = 1
  SendMeVersion = 1
  Streams <- OneStream
  MaxData = 4
  MaxDown = 4
INVARIANT SendMeAccepted
PROPERTIES ImplementsSend BothWaysFlow
CHECK_DEADLOCK FALSE
