SPECIFICATION FairSpec
CONSTANTS
    a1 = a1
    a2 = a2
    None = None
    Advertised <- MCAdvertised
    Addresses <- MCAddresses
    Focuses <- MCFocuses
    MaxEdits = 2
    MaxChanges = 1
INVARIANTS
    TypeOK
    CommitSettles
    ShownIsReal
    NoCollateral
    WireInRange
    PlaybackIsReal
PROPERTIES
    BatteryRefreshed
