CONSTANTS
  Procs = {p1, p2, p3}
  Nobody = Nobody
  Leftovers = {"torn", "foreign", "dead", "recycled"}
  Lags <- LagsBoundary
  Faults = {"io", "ps", "cancel", "crash"}
SPECIFICATION Spec
SYMMETRY ProcSymmetry
INVARIANTS
  LockInv
  OrderlyExclusion
  AloneAcquires
  LockFileHasOwner
CHECK_DEADLOCK FALSE
