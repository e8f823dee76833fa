\* Six pairings of a public provider.
CONSTANTS
  r1 = r1  r2 = r2  r3 = r3  r4 = r4  r5 = r5  r6 = r6
  v1 = v1  v2 = v2  p1 = p1  p2 = p2
  Request = {r1, r2, r3, r4, r5, r6}
  Client = {v1, v2, p1, p2}
  VisitorOf <- OneVisitor
  ProviderOf <- ProviderOfRequest
  Seen <- AllVisible
  Offers <- PublicOffer
  Configs <- OneByOne
  None = None
SPECIFICATION Spec
SYMMETRY AllAlike
\* Every request of the instance may have come and been answered.
CHECK_DEADLOCK FALSE
INVARIANT PublicReceives
