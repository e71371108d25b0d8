CONSTANTS
    iStackSize = 2
    MaxStack = 2
    NumFrm = 3
    NumAnnex = 6
    uNumRef = 2
    max_num_ref_frames = 1
    Streams <- AnyStreams
    LowDelay = {}
SPECIFICATION FlowSpec
INVARIANTS
    TypeOK
    CountsAreExact
    NoOverwrite
    OneThreadDisplays
