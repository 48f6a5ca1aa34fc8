CONSTANTS
    NoBuf = 0
    Buffers = {1, 2, 3, 4}
    Tracks = {t1}
    Users = {}
    Stranger = stranger
    Nobody = nobody
    PipeCap = 1
    FrgLimit = 1
    FrgCap = 3
    HasXDetect = TRUE
SPECIFICATION FairSpec
INVARIANTS TypeOK EveryImageOwned
PROPERTIES KnownStaysKnown SeenFaceStaysLabelled
