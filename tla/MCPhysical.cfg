SPECIFICATION Spec
CONSTANTS
    thread = thread
    task = task
    leftover = leftover
    Tasks <- mcTasks
    Async <- mcAsync
    Straggler <- mcStraggler
    PhysRoot <- mcPhysRoot
    AltRoot <- mcAltRoot
    Paths <- mcPaths
    Device <- mcDevice
    Bytes <- mcBytes
    Trees <- mcTrees
    Scripts <- mcScripts
INVARIANTS
    DiskInv
    AppendedStays
    PanicsOnlyWhenRaced
PROPERTIES
    OnlyWhatIsNamed
    CallsAreAllOrNothing
    EveryCallEnds
CHECK_DEADLOCK FALSE
