\* Parked sessions and kicked tasks come to an end; kicks included.
CONSTANTS
  Conn = {c1, c2, c3}
  Session = {s1}
  Ident = {alice}
  Proxy = {ssh}
  Ported = {ssh}
  MaxClients = 2
  Panel = TRUE
  SetupFaults = TRUE
  None = None
SPECIFICATION FairSpec
\* Every connection of the instance may have come and gone.
CHECK_DEADLOCK FALSE
PROPERTIES EverythingReturns
