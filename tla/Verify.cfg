SPECIFICATION MCSpec
CONSTANTS
  f1 = f1
  f2 = f2
  Files <- TwoFiles
  Runs <- TwoRuns
  Contents <- SomeContents
  SizeOf <- Sizes
  Faults = {"io", "cancel", "kill"}
INVARIANTS
  VerifyInv
  OkIsIntact
  ExitCodeIsExact
  BatchReachesAll
SYMMETRY FileSymmetry
CHECK_DEADLOCK FALSE
