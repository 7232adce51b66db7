\* The main thread creates, joins and detaches two children, and one of them may
\* live in the memory of one that was joined.
CONSTANTS
  main = main
  c1 = c1
  c2 = c2
  Threads = {main, c1, c2}
  Addrs = {c1, c2}
  Joiner = main
  MaxObjects = 2
  NULL = NULL
  TidPtr = 64
  Reuses = 1
  Values = {0, 1, 2, 3, 4, 64}
SPECIFICATION Spec
SYMMETRY ChildSymmetry
INVARIANTS
  TypeOK
  FreedAfterLastUse
  NeverTraps
  StrandedOnlyByRace
CHECK_DEADLOCK FALSE
