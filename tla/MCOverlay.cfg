SPECIFICATION Spec
CONSTANTS
    WoDir = ".whiteout"
    RootWo = "_wo"
    Wo <- mcWo
    Paths <- mcPaths
    Bytes <- mcBytes
    InitialLayers <- mcInitialLayers
    Calls <- mcCalls
    Polite = TRUE
    MaxLen = 2
INVARIANTS
    LayersInv
    MarksHideOnlyLower
PROPERTY
    AtomicSpec
