SPECIFICATION Spec
CONSTANTS
  Invocations = {p1, p2, p3}
  Names = {home, work}
  Initial = Initial
  Absent = Absent
  Inodes = {i1, i2, i3, i4, i5}
  NoInode = NoInode
  Empty = Empty
  Torn = Torn
  Faults = {"io", "kill", "power"}
SYMMETRY Symmetry
VIEW View
CHECK_DEADLOCK FALSE
INVARIANTS
  StoreInv
  DocumentWhole
  NoLostUpdate
  AcknowledgedStays
