\* Four threads, three TCSs, and a table that is shorter still, as with
\* TCSNum 100 of config.01.xml and MAX_THREADS.
CONSTANTS
  Main = main
  Threads = {main, t1, t2, t3}
  MaxThreads = 2
  NTcs = 3
  NULL = NULL
SPECIFICATION Spec
SYMMETRY OtherSymmetry
INVARIANTS
  TypeOK
  LastIsAlone
  FullNeedsThreads
  CountExact
  IdentityUnlessOverlap
CHECK_DEADLOCK FALSE
