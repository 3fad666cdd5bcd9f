SPECIFICATION FairSpec
CONSTANTS
  Runs <- MCRuns
  NoRun = NoRun
  Limit = 1
  MaxTears = 1
  MaxVerifies = 2
  Faults = {"io", "kill", "power", "clock"}
CHECK_DEADLOCK FALSE
INVARIANTS
  HistoryInv
  TornLineCostsOneRecord
  LastRunFinishedLast
  RetentionSparesYoungest
  ManifestsAreOwn
  LastVerifyIsNewest
PROPERTIES
  DurableLinesStay
  HolderKeepsDirectory
  LockGivenBack
