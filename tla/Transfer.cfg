SPECIFICATION FairSpec
CONSTANTS
  a = a
  a2 = a2
  a3 = a3
  b = b
  d = d
  s = s
  x = x
  Paths = {a, a2, a3, b, d, s, x}
  NoPath = NoPath
  Root = Root
  Parent <- MCParent
  Order <- MCOrder
  NFC <- MCNFC
  Excluded = {x}
  Included <- MCIncluded
  KindsOf <- MCKindsOf
  MaxChanges = 2
  WalkFaults = {"io"}
  NoFile = NoFile
  Garbled = Garbled
  Plain = {a, d}
  ProgressLike = {b}
  UpdateLike = {a3}
  SummaryLike = {s}
  PipeSize = 2
  Faults = {"cancel", "rsync", "log"}
CHECK_DEADLOCK FALSE
VIEW View
INVARIANTS
  TransferInv
  SelectionIsExact
  ProgressIsExact
PROPERTIES
  TransferReturns
