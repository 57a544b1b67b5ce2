SPECIFICATION AnySpec
CONSTANTS
    wild = wild
    rival = rival
    a = a
    b = b
    Threads <- mcThreads
    Paths <- mcPaths
    FilePaths <- mcFilePaths
    Bytes <- mcBytes
    Calls <- mcCalls
    Scoped = {}
    MaxLen = 2
INVARIANTS
    DirectoriesHaveNoContent
PROPERTIES
    FilesNeverBecomeDirectories
    FlushShowsAllWrites
