CONSTANTS
    iStackSize = 2
    MaxStack = 2
    NumFrm = 4
    NumAnnex = 6
    uNumRef = 2
    max_num_ref_frames = 2
    Streams <- DisplayStreams
    LowDelay <- LowDelayStreams
SPECIFICATION FlowSpec
INVARIANTS
    OutputInOrder
    FlushIsComplete
PROPERTIES
    InputIsProcessed
    DestroyEnds
