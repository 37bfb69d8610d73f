SPECIFICATION Spec
CONSTANTS
  Proc = {p1, p2}
  NoProc = NoProc
  Path = {a, b}
  Key = {k}
  Script = {s1, s2, s3}
  NoScript = NoScript
  NoPath = NoPath
  Size = 3
  Slot <- OneChain
  Moving = {a}
INVARIANTS
  ChainsAreSound
SYMMETRY Symmetric
