\* one term, three peers, logs of two entries: which majority commits
SPECIFICATION Spec
CONSTANTS
  N = 3
  Command <- TwoCommands
  MaxTerm = 1
  Timeouts <- FirstOnce
  MaxElections = 1
  MaxRounds = 2
  MaxLog = 2
INVARIANT FollowerPrefix AppliedAgree AppliedInOrder CommitBehindLeader CommitMajority
CONSTRAINT CommandsInOrder HeartbeatsUnread
CHECK_DEADLOCK FALSE
