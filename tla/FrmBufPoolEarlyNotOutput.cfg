CONSTANTS
    PoolSize = 2
    Buffers = {b1, b2}
    NoBuf = NoBuf
    Holder = {h1, h2}
    bForceDisplay = TRUE
    AllOutput = FALSE
SPECIFICATION PoolSpec
PROPERTIES
    PutAddsBuffer
