SPECIFICATION Spec
CONSTANTS
  NoProc = NoProc
  Proc = {p1, p2}
  Workload = {"compile", "read"}
  ForceRestart = TRUE
  Killable = {p1, p2}
  MaxCrashes = 0
INVARIANTS
  ReadLockIsReturned
