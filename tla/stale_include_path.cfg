SPECIFICATION Spec
CONSTANTS
  Proc = {p1, p2}
  IncludePath = {d, x, y}
  Default = d
  NoPath = none
  Size = 2
  Room = 3
  Byte = {0}
INVARIANTS
  KeyMeansPath
