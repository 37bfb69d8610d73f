SPECIFICATION Spec
CONSTANTS
  Handlers = {"mmap"}
  Requested = 40
  SegMax = 32
  SegMin = 8
  Alignment = 2
  MinFree = 6
  Limit = 16
  MaxWasted = 20
  GlobalsSize = 3
  SegmentSize = 2
  PositionSize = 1
  Structures <- HugeStructure
  ScriptSizes = {5}
  KeySizes = {1}
INVARIANTS
  BlocksDisjoint
CHECK_DEADLOCK FALSE
