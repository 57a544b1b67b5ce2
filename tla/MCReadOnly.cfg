SPECIFICATION Spec
CONSTANTS
    Absent = noFile
    noFile = noFile
    Bytes <- mcBytes
    MaxLen <- mcMaxLen
    Half <- mcHalf
    Sizes <- mcSizes
    Texts <- mcTexts
    Places <- mcPlaces
    Packed <- mcPacked
    Editions <- mcEditions
    Rewrites <- mcRewrites
INVARIANTS
    ClientTypeOK
    JoinsResolve
    EmbeddedIsTree
    ReadsInOrder
PROPERTIES
    ReadsPanicOnlyPastTheEnd
    DeliveredWhole
