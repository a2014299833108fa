SPECIFICATION FairSpec
CONSTANTS
    m1 = m1
    m2 = m2
    None = None
    Macs = {m1}
    MaxClicks = 1
    MaxMoves = 2
    MaxDrops = 1
    MaxStarts = 0
PROPERTY LinkComesBack
PROPERTY OnlyHangsBlock
PROPERTY TrayCatchesUp
