CONSTANTS
  NumServers = 2
  QueryActorCount <- TwoAndOne
  Keys = {k1}
  MaxPuts = 2
  NoContent = NoContent
SPECIFICATION Spec
INVARIANT Converged
PROPERTY TimestampsGrow
CHECK_DEADLOCK FALSE
