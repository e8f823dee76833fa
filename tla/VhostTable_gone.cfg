SPECIFICATION Spec
CONSTANTS
  c1 = c1
  c2 = c2
  Clients = {c1, c2}
  Proxies <- MCProxies
  Queries <- MCQueries
  MaxPanel = 1
INVARIANT GoneHasNoRoute
CHECK_DEADLOCK FALSE
