CONSTANTS
  Files = {f1, f2}
  NoFile = NoFile
  MaxVersion = 0
  Faults <- FaultsCrash
SPECIFICATION FairSpec
INVARIANTS
  AtMostOneUnlogged
  FinishedImpliesSealed
  RunFinishedIsDurable
  EarlierPhasesDurable
PROPERTIES
  WritesUnderLock
  LockReleased
CHECK_DEADLOCK FALSE
