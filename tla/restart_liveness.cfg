SPECIFICATION FairSpec
CONSTANTS
  NoProc = NoProc
  Proc = {p1, p2}
  Workload = {"compile"}
  ForceRestart = TRUE
  Killable = {p1, p2}
  MaxCrashes = 0
INVARIANTS
  NeverStuckDisabled
PROPERTIES
  PendingRestartHappens
  ExclusiveLockReturned
