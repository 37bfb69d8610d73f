SPECIFICATION Spec
CONSTANTS
  Proc = {p1, p2}
  IncludePath = {d, x, 2}
  Default = d
  NoPath = none
  Size = 2
  Room = 3
  Byte = {1}
INVARIANTS
  LettersStay
  FreshKeysMeanPaths
PROPERTIES
  CountedStaysFresh
SYMMETRY Symmetric
