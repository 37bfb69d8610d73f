SPECIFICATION Spec
CONSTANTS
    w = w
    x = x
    y = y
    z = z
    String = {w, x, y, z}
    nTableSize = 2
    Hash <- Hashes
    Size <- Sizes
    Startup <- AtStartup
    Scripts <- ScriptStrings
    End = 6
    MaxCount = 9
    MaxKills = 2
INVARIANTS
    SameString
    KeepsItsContent
    ChainsHold
    StartupIsFound
    LinksAgree
CHECK_DEADLOCK FALSE
