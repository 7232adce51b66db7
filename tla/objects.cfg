\* Three threads, two addresses, a table that can just fill up.
CONSTANTS
  Threads = {t1, t2, t3}
  Addrs = {a, b}
  MaxObjects = 5
  NULL = NULL
SPECIFICATION TableSpec
SYMMETRY Symmetry
INVARIANTS
  TableTypeOK
  Packed
  FewDuplicates
  WordIsOwn
PROPERTY StableLookup
CHECK_DEADLOCK FALSE
