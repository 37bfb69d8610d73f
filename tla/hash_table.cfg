SPECIFICATION Spec
CONSTANTS
  Proc = {p1, p2}
  NoProc = NoProc
  Path = {a, b}
  Key = {k, l}
  Script = {s1, s2}
  NoScript = NoScript
  NoPath = NoPath
  Size = 3
  Slot <- OneChain
  Moving = {k}
INVARIANTS
  TypeOK
  FindsItsFile
PROPERTIES
  ImplementsMap
SYMMETRY Symmetric
