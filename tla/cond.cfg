\* Two waiters, each waiting once, and a thread that signals or broadcasts once.
CONSTANTS
  w1 = w1
  w2 = w2
  s1 = s1
  Threads = {w1, w2, s1}
  Waiters = {w1, w2}
  Signallers = {s1}
  Addrs = {w1, w2, s1}
  MaxObjects = 6
  NULL = NULL
  Rounds = 1
  Signals = 1
  Values = {0, 1, 2}
SPECIFICATION Spec
SYMMETRY WaiterSymmetry
INVARIANTS
  TypeOK
  NoDangling
  InTurn
  CountBalanced
  AsleepByRaceOrRequeue
CHECK_DEADLOCK FALSE
