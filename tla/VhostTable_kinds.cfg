SPECIFICATION Spec
CONSTANTS
  c1 = c1
  c2 = c2
  Clients = {c1, c2}
  Proxies <- MCKinds
  Queries <- MCQueries
  MaxPanel = 0
PROPERTY RefusedForAmbiguity
CHECK_DEADLOCK FALSE
