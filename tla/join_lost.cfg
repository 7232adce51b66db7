\* The main thread joins one child, under fair scheduling.
CONSTANTS
  main = main
  c1 = c1
  c2 = c2
  Threads = {main, c1}
  Addrs = {c1}
  Joiner = main
  MaxObjects = 2
  NULL = NULL
  TidPtr = 64
  Reuses = 0
  Values = {0, 1, 2, 3, 4, 64}
SPECIFICATION FairSpec
PROPERTY JoinsReturn
CHECK_DEADLOCK FALSE
