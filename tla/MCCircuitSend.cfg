SPECIFICATION FairSpec
CONSTANTS
  StartValue = 4
  AddValue = 2
  NumHops = 2
  BadDst <- OneBadDst
  QueueCap = 1
  SendMeVersion = 1
  Digests <- JustNoDigest
  Honest <- GuardOnly
  MaxData = 7
INVARIANTS IInv CreditSafety
PROPERTIES HonestSendMeAccepted ImplementsCredit EveryDataCellLeaves LoopsEnd
CHECK_DEADLOCK FALSE
