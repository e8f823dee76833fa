\* Two users and up to two waiters; limits, batches and every fault.
CONSTANTS
  u1 = u1  u2 = u2  u3 = u3  w1 = w1  w2 = w2
  User = {u1, u2}
  Waiter = {w1, w2}
  Configs <- MCConfigs
SPECIFICATION FairSpec
\* Users are served once: the instance comes to an end.
CHECK_DEADLOCK FALSE
INVARIANTS TypeOK PoolSound
PROPERTIES FirstComeFirstServed LeftOnlyByMeeting
