SPECIFICATION Spec
CONSTANTS
  Calls <- AllCalls
  Counts <- NoneOrSome
  Errnos <- PermOrOther
INVARIANTS
  TypeOK
  
  ResultsReturn
  NothingStale
  CopiesBounded
  FaultsAreKnown
  BlocksFreed
  ResultIsOwn
  OnceEach
CHECK_DEADLOCK FALSE
