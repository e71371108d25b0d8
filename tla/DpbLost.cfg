\* Any memory management command: a reference leaves the decoding order list.
SPECIFICATION Spec
CONSTANTS
    AL_MAX_REF = 4
    AL_REF_MNGR_MAX_BUF_SIZE = 7
    Restricted = FALSE
    Streams <- UnrestrictedStreams
INVARIANTS
    EveryReferenceIsListed
CHECK_DEADLOCK FALSE
