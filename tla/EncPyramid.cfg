CONSTANTS
    AL_MAX_NUM_B_PICT = 30
    AL_MAX_LOOK_AHEAD = 0
    AL_MAX_STREAM_BUFFER = 2
    iMaxSpsIds = 32
    uNumB = 7
    Pyramidal = TRUE
    NumStream = 1
    Programs <- PyramidPrograms
    Refusing = {}
    Failing = {}
SPECIFICATION PyramidSpec
INVARIANT
    HeadersFree
