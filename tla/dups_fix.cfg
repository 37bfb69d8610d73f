SPECIFICATION Spec
CONSTANTS
    Programs <- Scripts
    Comments <- EachSetting
    InternedRooms = {0, 2, 50}
    Startup <- SomeStrings
    FreeMemory = {10, 2000}
    Names = {"a", "b", "f"}
    ignore_dups = TRUE
INVARIANT OwnsNothingShared
