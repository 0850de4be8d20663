CONSTANTS
  s1 = s1
  p1 = p1
  System = {s1, s2}
  Caller = {p1, p2}
  Home <- AllAtFirst
  MaxActors = 1
  MaxRefs = 2
  MaxTells <- TwoAndOne
  None = None
SPECIFICATION Spec
INVARIANT InOrder OneAnswer CloseClosesAll
PROPERTY QueriesAnswered
CHECK_DEADLOCK FALSE
