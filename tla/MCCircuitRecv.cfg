SPECIFICATION FairHistorySpec
CONSTANTS
  StartValue = 4
  AddValue = 2
  NumHops = 2
  QueueCap = 1
  InboundCap = 1
  SendMeVersion = 0
  Streams <- TwoStreams
  StreamsClose = TRUE
  MaxDown = 5
INVARIANTS RelayAcceptsSendMe AcksAddUp
PROPERTY DownstreamFlows
CHECK_DEADLOCK FALSE
