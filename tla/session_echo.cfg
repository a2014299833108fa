SPECIFICATION Spec
CONSTANTS
    volume = volume
    gs1 = gs1
    gs2 = gs2
    None = None
    KeyOff = KeyOff
    Plain = {}
    PlainOrder <- NoSettings
    General = {gs1, gs2}
    GeneralOrder <- TwoGeneral
    Values = {0, 1}
    Default = 0
    Keys = {"Play"}
    MaxRetries = 3
    BatchLimit = 2
    Advertised <- FullAndGaps
    Echo = TRUE
    MaxEdits = 2
    MaxKeys = 0
    MaxChanges = 1
    MaxLost = 1
    MaxMissed = 1
    MaxLate = 0
    MaxBreaks = 0
INVARIANT SupportComplete
INVARIANT CapabilityPerSetting
INVARIANT QuietAgreement
