SPECIFICATION FairSpec
CONSTANTS
  c1 = c1
  c2 = c2
  None = None
  r1 = r1
  r2 = r2
  Relays = {r1, r2}
  Peer = r1
  CELL_BODY_LEN = 41
  Lengths = {0, 4, 6, 65530, 65531, 65535}
  MaxCerts = 3
  MaxAddrs = 3
  Circuits <- TwoCircuits
  IdOf <- OwnIds
  InboundCap = 1
  WriteCap = 1
  LinkCap = 1
  MaxSent <- OneSends
  MaxRelay <- OneReads
  WritesFail = TRUE
INVARIANTS TypeOK LinkInFrame LinkVouched LinkOutlivesHandshake NoCellLost
PROPERTIES LinkNeverStuck OpenReturns CloseEndsAll
CHECK_DEADLOCK FALSE
