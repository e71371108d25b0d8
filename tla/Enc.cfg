CONSTANTS
    AL_MAX_NUM_B_PICT = 3
    AL_MAX_LOOK_AHEAD = 0
    AL_MAX_STREAM_BUFFER = 3
    iMaxSpsIds = 5
    uNumB = 3
    Pyramidal = TRUE
    NumStream = 2
    Programs <- EncPrograms
    Refusing <- FaultPrograms
    Failing <- FaultPrograms
SPECIFICATION EncSpec
INVARIANTS
    TypeOK
    RefsAreExact
    StreamsInOrder
    InfoIsPrivate
    TokensComeBack
    PoolsSuffice
    StreamDecodable
PROPERTY
    EncoderFinishes
