SPECIFICATION Spec
CONSTANTS
    builder = builder
    cleaner = cleaner
    d = d
    s = s
    Threads <- mcThreads
    Paths <- mcPaths
    FilePaths = {}
    Bytes = {}
    Calls <- mcCalls
    Scoped <- mcThreads
    MaxLen = 0
PROPERTY
    RemovesOnlyEmptyDirectories
