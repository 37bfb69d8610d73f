SPECIFICATION Spec
CONSTANTS
  Handlers = {"mmap", "shm"}
  Requested = 40
  SegMax = 32
  SegMin = 8
  Alignment = 2
  MinFree = 6
  Limit = 1000
  MaxWasted = 20
  GlobalsSize = 3
  SegmentSize = 2
  PositionSize = 1
  Structures <- OneStructure
  ScriptSizes = {5, 9}
  KeySizes = {1}
INVARIANTS
  WasteSchedulesRestart
CHECK_DEADLOCK FALSE
