CONSTANTS
  Files = {f1, f2}
  NoFile = NoFile
  MaxVersion = 0
  Faults <- FaultsCancel
SPECIFICATION Spec
SYMMETRY FileSymmetry
INVARIANT ExitZeroMeansFinished
CHECK_DEADLOCK FALSE
