SPECIFICATION Spec
CONSTANTS
    one = one
    two = two
    Tasks <- mcTasks
    Paths <- mcPaths
    Bytes <- mcBytes
    Scripts <- mcScripts
    Trees <- mcTrees
    Impatient <- mcTasks
INVARIANTS
    AsyncInv
    RemovalsLeaveNoOrphans
PROPERTIES
    NoHalfCopies
    AsyncCopiesAreFaithful
    WalksAreComplete
    UndisturbedAnswers
    EveryCallEnds
CHECK_DEADLOCK FALSE
