SPECIFICATION Spec
CONSTANTS
    owner = owner
    guest = guest
    a = a
    f = f
    g = g
    Threads <- mcThreads
    Paths <- mcPaths
    FilePaths <- mcFilePaths
    Bytes <- mcBytes
    Calls <- mcCalls
    Scoped = {owner}
    MaxLen = 1
INVARIANTS
    TypeOK
    TreeInv
PROPERTY
    AtomicSpec
