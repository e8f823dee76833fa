\* One client whose session lasts longer than a token.
CONSTANTS
  c1 = c1  c2 = c2  c3 = c3  c4 = c4
  s1 = s1  s2 = s2
  None = None
  Conn = {c1, c2}
  Session = {s1}
  TokenTtl = 2
  ParkTtl = 2
  MaxTime = 4
SPECIFICATION Spec
CHECK_DEADLOCK FALSE
PROPERTIES ReturnInTimeResumes
