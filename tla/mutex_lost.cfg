\* Three threads; the kernel schedules every one that can run.
CONSTANTS
  Threads = {t1, t2, t3}
  Addrs = {m}
  Mutex = m
  MaxObjects = 3
  NULL = NULL
  Rounds = 1
  Timed = {}
  Values = {0, 16, 1016}
SPECIFICATION FairSpec
PROPERTY AllFinish
CHECK_DEADLOCK FALSE
