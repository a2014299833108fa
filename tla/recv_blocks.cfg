SPECIFICATION FairSpec
CONSTANTS
    Kinds <- JustClassic
    Scripts <- OneFrame
    ChunkSizes = {1, 8}
    Chunk = 512
    MaxLost = 0
    MaxFails = 0
PROPERTIES
    RecvReturns
CHECK_DEADLOCK FALSE
