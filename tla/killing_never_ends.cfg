SPECIFICATION FairSpec
CONSTANTS
  NoProc = NoProc
  Proc = {p1, p2}
  Workload = {"compile"}
  ForceRestart = TRUE
  Killable = {}
  MaxCrashes = 0
PROPERTIES
  KillingEnds
