\* What a kicked client registered before its loop noticed is never given back.
CONSTANTS
  Conn = {c1, c2}
  Session = {s1}
  Ident = {alice}
  Proxy = {ssh}
  Ported = {ssh}
  MaxClients = 2
  Panel = TRUE
  SetupFaults = FALSE
  None = None
SPECIFICATION FairSpec
CHECK_DEADLOCK FALSE
PROPERTY ClaimsReturn
