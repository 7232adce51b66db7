\* Two threads, each with a nested activation, and a slot for every activation.
CONSTANTS
  t1 = t1
  t2 = t2
  t3 = t3
  Threads = {t1, t2}
  NSlots = 4
  BrkCalls = 2
SPECIFICATION Spec
SYMMETRY ThreadSymmetry
INVARIANTS
  TypeOK
  SlotExclusive
  BufferIntact
  InRange
