CONSTANTS
  InitialSeqNum = 3
  EpochLimit = 2
  WindowSize = 1
  MaxBackOffInterval = 0
  MaxUnackedMessages = 1
  MaxWrites <- OneAndNone
  MaxConn = 1
  Repeats = FALSE
  MaxLosses = 1
  Garbled = Garbled
  None = None
SPECIFICATION Spec
PROPERTY CloseReturns
CHECK_DEADLOCK FALSE
