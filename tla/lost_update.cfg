SPECIFICATION Spec
CONSTANTS
    volume = volume
    gs1 = gs1
    gs2 = gs2
    None = None
    KeyOff = KeyOff
    Plain = {volume}
    PlainOrder <- OnePlain
    General = {}
    GeneralOrder <- NoSettings
    Values = {0, 1}
    Default = 0
    Keys = {"Play"}
    MaxRetries = 3
    BatchLimit = 2
    Advertised <- Nothing
    Echo = FALSE
    MaxEdits = 2
    MaxKeys = 0
    MaxChanges = 0
    MaxLost = 0
    MaxMissed = 0
    MaxLate = 0
    MaxBreaks = 0
INVARIANT QuietAgreement
