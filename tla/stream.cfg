SPECIFICATION FairSpec
CONSTANTS
    Kinds <- AllKinds
    Scripts <- MCScripts
    ChunkSizes = {3, 10}
    Chunk = 4
    MaxLost = 1
    MaxFails = 1
INVARIANTS
    TypeOK
    AcksInOrder
    LossIsBounded
PROPERTIES
    LinkSpec
    AllArrive
CHECK_DEADLOCK FALSE
