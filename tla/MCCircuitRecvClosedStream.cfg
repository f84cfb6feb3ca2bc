SPECIFICATION HistorySpec
CONSTANTS
  StartValue = 4
  AddValue = 2
  NumHops = 1
  QueueCap = 1
  InboundCap = 2
  SendMeVersion = 1
  Streams <- TwoStreams
  StreamsClose = TRUE
  MaxDown = 6
INVARIANT RelayAcceptsSendMe
CHECK_DEADLOCK FALSE
