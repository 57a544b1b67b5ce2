SPECIFICATION VfsSpec
CONSTANTS
    one = one
    two = two
    three = three
    Threads <- mcThreads
    Paths <- mcPaths
    FilePaths = {}
    Bytes <- mcBytes
    Calls <- mcCalls
    Scoped = {}
    MaxLen = 0
    Scripts <- mcScripts
    Trees <- mcTrees
INVARIANTS
    VfsInv
PROPERTIES
    CreateDirAllSucceeds
    CopiesAreFaithful
    RemoveDirAllLeavesNothing
    EveryCallReturns
CHECK_DEADLOCK FALSE
