SPECIFICATION VfsSpec
CONSTANTS
    one = one
    two = two
    three = three
    Threads <- mcThreads
    Paths <- mcPaths
    FilePaths = {}
    Bytes <- mcBytes
    Calls <- mcCalls
    Scoped = {}
    MaxLen = 0
    Scripts <- mcRaceScripts
    Trees <- mcTrees
PROPERTY
    RemoveDirAllAcceptsAbsence
CHECK_DEADLOCK FALSE
