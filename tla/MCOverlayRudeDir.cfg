SPECIFICATION Spec
CONSTANTS
    WoDir = ".whiteout"
    RootWo = "_wo"
    Wo <- mcWo
    Paths <- mcPaths
    Bytes = {}
    InitialLayers <- mcInitialLayers
    Calls <- mcDirCalls
    Polite = FALSE
    MaxLen = 0
PROPERTY
    OverlayRemovesOnlyEmptyDirectories
