SPECIFICATION FairSpec
CONSTANTS
    volume = volume
    gs1 = gs1
    gs2 = gs2
    None = None
    KeyOff = KeyOff
    Plain = {volume}
    PlainOrder <- OnePlain
    General = {}
    GeneralOrder <- NoSettings
    Values = {0, 1}
    Default = 0
    Keys = {"Play"}
    MaxRetries = 3
    BatchLimit = 2
    Advertised <- Nothing
    Echo = TRUE
    MaxEdits = 1
    MaxKeys = 0
    MaxChanges = 1
    MaxLost = 1
    MaxMissed = 0
    MaxLate = 0
    MaxBreaks = 1
PROPERTY TaskEnds
PROPERTY Converges
