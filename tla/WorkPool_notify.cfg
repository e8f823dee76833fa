\* Two waiters and work connections that arrive before they listen.
CONSTANTS
  u1 = u1  u2 = u2  u3 = u3  w1 = w1  w2 = w2
  User = {u1}
  Waiter = {w1, w2}
  Configs <- MCSteady
SPECIFICATION FairSpec
\* Users are served once: the instance comes to an end.
CHECK_DEADLOCK FALSE
PROPERTY WaitersServed
