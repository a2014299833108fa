SPECIFICATION Spec
CONSTANTS
    volume = volume
    gs1 = gs1
    gs2 = gs2
    None = None
    KeyOff = KeyOff
    Plain = {}
    PlainOrder <- NoSettings
    General = {}
    GeneralOrder <- NoSettings
    Values = {0, 1}
    Default = 0
    Keys = {"Play"}
    MaxRetries = 3
    BatchLimit = 2
    Advertised <- JustTableTwo
    Echo = TRUE
    MaxEdits = 0
    MaxKeys = 0
    MaxChanges = 0
    MaxLost = 0
    MaxMissed = 0
    MaxLate = 1
    MaxBreaks = 0
INVARIANT SupportComplete
