\* A resumed login whose setup write fails stays online without a task.
CONSTANTS
  Conn = {c1, c2}
  Session = {s1}
  Ident = {alice}
  Proxy = {ssh}
  Ported = {ssh}
  MaxClients = 2
  Panel = FALSE
  SetupFaults = TRUE
  None = None
SPECIFICATION Spec
CHECK_DEADLOCK FALSE
INVARIANT ExitTakesOffline
