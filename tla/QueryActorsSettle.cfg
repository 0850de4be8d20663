CONSTANTS
  NumServers = 2
  QueryActorCount <- OneEach
  Keys = {k1, k2}
  MaxPuts = 2
  NoContent = NoContent
SPECIFICATION Spec
PROPERTY Settles
CHECK_DEADLOCK FALSE
