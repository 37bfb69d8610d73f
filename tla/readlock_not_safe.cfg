SPECIFICATION Spec
CONSTANTS
  NoProc = NoProc
  Proc = {p1, p2}
  Workload = {"compile", "reset", "read"}
  ForceRestart = TRUE
  Killable = {p1, p2}
  MaxCrashes = 0
INVARIANTS
  ReadLockIsSafe
  CountedIsSafe
