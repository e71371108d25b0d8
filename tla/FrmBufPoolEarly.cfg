CONSTANTS
    PoolSize = 4
    Buffers = {b1, b2, b3}
    NoBuf = NoBuf
    Holder = {h1, h2}
    bForceDisplay = TRUE
    AllOutput = TRUE
SPECIFICATION PoolSpec
SYMMETRY Symmetry
INVARIANTS
    CountMatchesHolders
    AvailableIsFree
    NoBufferLost
    PoolInv
PROPERTIES
    PutAddsBuffer
