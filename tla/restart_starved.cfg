SPECIFICATION FairSpec
CONSTANTS
  NoProc = NoProc
  Proc = {p1, p2}
  Workload = {"compile", "reset"}
  ForceRestart = TRUE
  Killable = {p1, p2}
  MaxCrashes = 0
PROPERTIES
  PendingRestartHappens
