\* As many threads as slots, as in the code: 16 TCSs and 16 slots.
CONSTANTS
  t1 = t1
  t2 = t2
  t3 = t3
  Threads = {t1, t2, t3}
  NSlots = 3
  BrkCalls = 2
SPECIFICATION Spec
SYMMETRY ThreadSymmetry
INVARIANT InRange
