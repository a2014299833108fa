SPECIFICATION Spec
CONSTANTS
    volume = volume
    gs1 = gs1
    gs2 = gs2
    None = None
    KeyOff = KeyOff
    Plain = {volume}
    PlainOrder <- OnePlain
    General = {}
    GeneralOrder <- NoSettings
    Values = {0, 1}
    Default = 0
    Keys = {"Play"}
    MaxRetries = 3
    BatchLimit = 2
    Advertised <- JustTableTwo
    Echo = TRUE
    MaxEdits = 1
    MaxKeys = 1
    MaxChanges = 0
    MaxLost = 2
    MaxMissed = 1
    MaxLate = 1
    MaxBreaks = 0
INVARIANT KeyExactlyOnce
INVARIANT KeyNotSkipped
INVARIANT OneLossIsSurvived
INVARIANT TypeOK
INVARIANT TaskCanProceed
INVARIANT DropsNeedLosses
INVARIANT StopAndWait
