CONSTANTS
  Procs = {p1, p2, p3}
  Nobody = Nobody
  Leftovers = {"torn", "foreign", "dead", "recycled"}
  Lags <- LagsPrompt
  Faults = {}
SPECIFICATION Spec
SYMMETRY ProcSymmetry
INVARIANT MutualExclusion
CHECK_DEADLOCK FALSE
