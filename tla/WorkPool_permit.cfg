\* A queue with one place.
CONSTANTS
  u1 = u1  u2 = u2  u3 = u3  w1 = w1  w2 = w2
  User = {u1, u2}
  Waiter = {w1}
  Configs <- MCOnePlace
SPECIFICATION Spec
\* Users are served once: the instance comes to an end.
CHECK_DEADLOCK FALSE
PROPERTY QueueRoom
