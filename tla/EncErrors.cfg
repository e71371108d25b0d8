CONSTANTS
    AL_MAX_NUM_B_PICT = 1
    AL_MAX_LOOK_AHEAD = 0
    AL_MAX_STREAM_BUFFER = 3
    iMaxSpsIds = 3
    uNumB = 1
    Pyramidal = FALSE
    NumStream = 2
    Programs <- ErrorPrograms
    Refusing = {}
    Failing <- ErrorPrograms
SPECIFICATION EncSpec
INVARIANT
    HeadersFree
