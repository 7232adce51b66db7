\* Three threads, three TCSs, a table with room to spare.
CONSTANTS
  Main = main
  Threads = {main, t1, t2}
  MaxThreads = 4
  NTcs = 3
  NULL = NULL
SPECIFICATION Spec
SYMMETRY OtherSymmetry
INVARIANT SelfFound
CHECK_DEADLOCK FALSE
