\* The same threads without symmetry and a slot short of their activations: the
\* refinement, the progress property, and a scan that does come back with nothing.
CONSTANTS
  t1 = t1
  t2 = t2
  t3 = t3
  Threads = {t1, t2}
  NSlots = 3
  BrkCalls = 1
SPECIFICATION FairSpec
INVARIANT FullWhenRunOff
PROPERTIES
  PoolSpec
  LockServed
CHECK_DEADLOCK FALSE
