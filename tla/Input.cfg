CONSTANTS
    Programs <- InputPrograms
    Size = 9
    iStackSize = 2
    NumBufs = 2
    ChunkSizes = {3, 5}
    MAX_NAL_UNIT = 5
    ScdMax = 2
SPECIFICATION InputSpec
INVARIANTS
    TypeOK
    BytesAreKept
    UnitsAreWhole
PROPERTIES
    InputIsAnswered
    DestroyEnds
