\* The decoded picture buffer against what it promises.
SPECIFICATION Spec
CONSTANTS
    AL_MAX_REF = 3
    AL_REF_MNGR_MAX_BUF_SIZE = 6
    Restricted = TRUE
    Streams <- MCStreams
INVARIANTS
    TypeOK
    NoNodeIsLost
    PicIdsAreExact
    PocOrderIsDisplayOrder
    PListIsIdeal
    BListsAreIdeal
    ModifiedListIsIdeal
    RpsListIsIdeal
PROPERTIES
    FollowsDpbSpecification
CHECK_DEADLOCK FALSE
