SPECIFICATION Spec
CONSTANTS
  NoProc = NoProc
  Proc = {p1, p2}
  Workload = {"compile", "resolve", "reset", "read"}
  ForceRestart = TRUE
  Killable = {}
  MaxCrashes = 1
INVARIANTS
  DeadFlagMeansDeath
  IdleHoldsNothing
  OnlyLateReadersDisturbed
SYMMETRY Symmetric
