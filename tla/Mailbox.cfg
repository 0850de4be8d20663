CONSTANTS
  Producers = {p1, p2}
  Consumers = {c1, c2, c3}
  MaxPush = 2
  Nil = Nil
SPECIFICATION Spec
INVARIANT NoLostWakeup
PROPERTY IsAtomicQueue
CHECK_DEADLOCK FALSE
