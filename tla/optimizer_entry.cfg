\* Scripts that begin with a loop.
SPECIFICATION Spec
CONSTANTS
  Fuel = 50
  Cap = 5
  UChar = 256
  Programs <- LoopsFirst
  Inputs <- Given
  Levels <- AllPasses
INVARIANT EntryStays
