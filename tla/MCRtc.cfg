SPECIFICATION FairSpec
CONSTANTS
  Terms = {t1, t2}
  Rates <- MCRates
  StackBytes <- MCStackBytes
  Overlap = FALSE
CHECK_DEADLOCK FALSE
INVARIANTS
  TypeOK
  Inv
  WaitsForNextTick
  InterruptsStayOn
PROPERTIES
  ReadReturns
