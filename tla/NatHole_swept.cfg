\* An old session thrown out before its timer runs.
CONSTANTS
  r1 = r1  r2 = r2  r3 = r3  r4 = r4  r5 = r5  r6 = r6
  v1 = v1  v2 = v2  p1 = p1  p2 = p2
  Request = {r1, r2, r3}
  Client = {v1, v2, p1, p2}
  VisitorOf <- VisitorOfRequest
  ProviderOf <- ProviderOfRequest
  Seen <- SeenByVisitor
  Offers <- MCOffers
  Configs <- MCConfigs
  None = None
SPECIFICATION Spec
SYMMETRY Alike
\* Every request of the instance may have come and been answered.
CHECK_DEADLOCK FALSE
INVARIANT NobodyLeftSilent
