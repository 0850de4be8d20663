\* checkOneLeader of the tests
SPECIFICATION Spec
CONSTANTS
  N = 3
  Command <- NoCommand
  MaxTerm = 3
  Timeouts <- AllOnce
  MaxElections = 1
  MaxRounds = 0
  MaxLog = 0
INVARIANT ElectionSafety
CHECK_DEADLOCK FALSE
