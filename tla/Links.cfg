CONSTANTS
  long = long
  short = short
  MsgIds = {long, short}
  NumFrags <- MCNumFrags
  MaxSendQueueSize = 1
  DeliveryTimeout = 5
  ReplayWindow = 12
  ACKResendInterval = 2
  TXFlushInterval = 4
  TickInterval = 1
  MaxLatency = 1
  MaxTime = 20
  LastSubmit = 0
  Idents = {i, j}
  Addrs = {a, b}
  NoIdent = NoIdent
  MaxAttempts = 2
  MaxInbound = 2
  MaxRestarts = 1
SPECIFICATION LinksSpec
INVARIANTS AtMostOnceDelivery TimelyCompletion  ReadyIsReachable
PROPERTIES ImplementsDelivery HalfOpenEnds
