CONSTANTS
    iStackSize = 1
    MaxStack = 1
    NumFrm = 5
    NumAnnex = 1
    uNumRef = 2
    max_num_ref_frames = 2
    Streams <- IntraStreams
    LowDelay = {}
SPECIFICATION FlowSpec
CHECK_DEADLOCK FALSE
PROPERTIES
    InputIsProcessed
