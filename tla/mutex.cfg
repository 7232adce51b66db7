\* Three threads, each coming for the mutex once, with or without a deadline.
CONSTANTS
  Threads = {t1, t2, t3}
  Addrs = {m}
  Mutex = m
  MaxObjects = 3
  NULL = NULL
  Rounds = 1
  Timed = {t1, t2, t3}
  Values = {0, 16, 1016}
SPECIFICATION Spec
SYMMETRY ThreadSymmetry
INVARIANTS
  TypeOK
  Exclusive
  LostOnlyByRace
PROPERTY LockSpec
CHECK_DEADLOCK FALSE
