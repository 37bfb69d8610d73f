\* Branches, loops, switches and strings under three sets of passes.
SPECIFICATION Spec
CONSTANTS
  Fuel = 50
  Cap = 5
  UChar = 256
  Programs <- Scripts
  Inputs <- Given
  Levels <- SomeLevels
INVARIANTS
  TypeOK
  Sound
  SameBehaviour
  LinksAreLive
  UsageIsKnown
