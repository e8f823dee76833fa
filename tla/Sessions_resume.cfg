\* Logins, resumes, disconnections and registrations; no panel, no failing setup.
\* Every step of the server is a step of the abstract leases.
CONSTANTS
  Conn = {c1, c2, c3, c4}
  Session = {s1}
  Ident = {alice, bob}
  Proxy = {web, ssh}
  Ported = {ssh}
  MaxClients = 2
  Panel = FALSE
  SetupFaults = FALSE
  None = None
SPECIFICATION Spec
SYMMETRY Symmetry
\* Every connection of the instance may have come and gone.
CHECK_DEADLOCK FALSE
INVARIANTS TypeOK SingleHolder NothingLeaks
PROPERTIES ParkedKept ImplementsLease
