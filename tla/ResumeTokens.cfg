\* Two clients dial three times between them while their tokens and sessions expire.
CONSTANTS
  c1 = c1  c2 = c2  c3 = c3  c4 = c4
  s1 = s1  s2 = s2
  None = None
  Conn = {c1, c2, c3}
  Session = {s1, s2}
  TokenTtl = 2
  ParkTtl = 2
  MaxTime = 3
SPECIFICATION Spec
SYMMETRY Symmetry
\* Dials and time run out.
CHECK_DEADLOCK FALSE
INVARIANTS TypeOK HeldIsPending
PROPERTIES OneUse GoodUntilUsed
