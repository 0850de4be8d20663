CONSTANTS
  InitialSeqNum = 3
  EpochLimit = 2
  WindowSize = 2
  MaxBackOffInterval = 0
  MaxUnackedMessages = 2
  MaxWrites <- UpToThree
  MaxConn = 1
  Repeats = TRUE
  MaxLosses = 0
  Garbled = Garbled
  None = None
SPECIFICATION SafetySpec
INVARIANT ClientReadsInOrder CloseDelivers
PROPERTY IsReliable
CHECK_DEADLOCK FALSE
