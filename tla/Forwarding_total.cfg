\* Connections that are forwarded without a permit of max_total_conns.
CONSTANTS
  t1 = t1  t2 = t2  t3 = t3   v1 = v1  u1 = u1  h1 = h1
  k1 = k1  k2 = k2  pa = pa  pb = pb  pc = pc
  Conn = {t1, t2, t3, v1, u1, h1}
  Client = {k1, k2}
  Proxy = {pa, pb, pc}
  MaxLives = 2
  None = None
  KindOf <- KindOfConn
  TargetOf <- TargetOfConn
  ClientOf <- MCClientOf
  Configs <- MCConfigs
SPECIFICATION Spec
\* Every connection of the instance may have come and gone.
CHECK_DEADLOCK FALSE
SYMMETRY Alike
INVARIANT TotalBounded
