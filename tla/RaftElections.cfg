\* two peers, one with two elections that may overlap, and enough rounds to
\* fill receivedHb
SPECIFICATION Spec
CONSTANTS
  N = 2
  Command <- NoCommand
  MaxTerm = 2
  Timeouts <- FirstTwice
  MaxElections = 2
  MaxRounds = 3
  MaxLog = 0
INVARIANT TypeOK MutexHolder CandidateHasElection GenuineMajority ElectionSafetyUnlessStale
CHECK_DEADLOCK FALSE
