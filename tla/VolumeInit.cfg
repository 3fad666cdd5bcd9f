SPECIFICATION MCSpec
CONSTANTS
  Processes = {p1, p2, p3}
  OldKey = OldKey
  Inodes = {i1, i2, i3, i4, i5}
  NoInode = NoInode
  Empty = Empty
  Torn = Torn
  BinInodes = {b1, b2, b3, b4}
  NoBin = NoBin
  Faults = {"io", "kill", "power"}
SYMMETRY Symmetry
VIEW View
CONSTRAINT AtStake
CHECK_DEADLOCK FALSE
INVARIANTS
  VolumeInv
  ManifestsVerify
  InitIsUsable
  RunsEmbeddedBinary
