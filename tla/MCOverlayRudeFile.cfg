SPECIFICATION Spec
CONSTANTS
    WoDir = ".whiteout"
    RootWo = "_wo"
    Wo <- mcWo
    Paths <- mcPaths
    Bytes = {}
    InitialLayers <- mcInitialLayers
    Calls <- mcFileCalls
    Polite = TRUE
    MaxLen = 0
PROPERTY
    OnlyTheRemovedVanishes
