CONSTANTS
  Client = {c1, c2}
  p1 = p1
  p2 = p2
  Caller = {p1, p2}
  Channels <- OneCallsBoth
  Key = {k}
  Value = {v}
  QueueSize = 1
  MaxValues = 2
  None = None
SPECIFICATION Spec
INVARIANT ClientsAccounted OneAnswerAwaited
PROPERTY CountIsCurrent MainComesBack CloseIsReceived
CHECK_DEADLOCK FALSE
