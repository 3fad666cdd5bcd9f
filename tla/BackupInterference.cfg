CONSTANTS
  Files = {f1, f2}
  NoFile = NoFile
  MaxVersion = 1
  Faults <- FaultsInterference
SPECIFICATION Spec
SYMMETRY FileSymmetry
INVARIANTS
  RunInv
  AtomicGate
  NoUnexcusedLoss
  ExitZeroMeansVerified
PROPERTIES ImplementsAtomicMove
CHECK_DEADLOCK FALSE
