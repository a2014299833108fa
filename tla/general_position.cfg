SPECIFICATION FairSpec
CONSTANTS
    a1 = a1
    a2 = a2
    None = None
    Advertised <- SecondOnly
    Addresses <- MCAddresses
    Focuses <- GeneralFocus
    MaxEdits = 1
    MaxChanges = 0
PROPERTIES
    BatteryRefreshed
