CONSTANTS
  Procs = {p1, p2, p3}
  Nobody = Nobody
  Leftovers = {"torn", "foreign", "dead", "recycled"}
  Lags <- LagsLate
  Faults = {}
SPECIFICATION Spec
SYMMETRY ProcSymmetry
INVARIANT CapturedStartSuffices
CHECK_DEADLOCK FALSE
