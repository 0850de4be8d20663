CONSTANTS
  c1 = c1
  c2 = c2
  Client = {c1, c2}
  Miner = {m1, m2}
  Upper <- LongAndLargest
  Hash <- FallingTwice
  Chunk = 2
  Modulus = 8
  None = None
SPECIFICATION Spec
INVARIANT SchedulerConsistent WorkConserved AnswerIsMinimum MinerLossSurvived
PROPERTY RequestsAnswered
CHECK_DEADLOCK FALSE
