CONSTANTS
    PoolSize = 4
    Buffers = {b1, b2, b3}
    NoBuf = NoBuf
    Holder = {h1, h2}
    bForceDisplay = FALSE
    AllOutput = TRUE
SPECIFICATION PoolSpec
SYMMETRY Symmetry
INVARIANTS
    TypeOK
    SemaphoreCounts
    BoundOnce
    DestroyReleasesAll
PROPERTIES
    PinnedWhileReferenced
