SPECIFICATION Spec
CONSTANTS
    one = one
    two = two
    Tasks <- mcTasks
    WoDir = ".whiteout"
    RootWo = "_wo"
    Wo <- mcWo
    Paths <- mcPaths
    Bytes <- mcBytes
    InitialLayers <- mcInitialLayers
    Scripts <- mcScripts
    Impatient <- mcTasks
PROPERTIES
    OnlyItsOwnPath
    SoleCallsTakeEffect
    DroppedCallsLeaveNoMixture
    NothingComesBack
    ReadsAreReal
    ListingsAreRight
    EveryCallEnds
CHECK_DEADLOCK FALSE
