SPECIFICATION Spec
CONSTANTS
    Subjects <- AllMessages
    MaxChanges = 2
    MaxEdits = 1
INVARIANTS
    ShownAsMeant
    ShotsAreMeant
PROPERTIES
    SiblingsKept
    UnknownStaysUnknown
    ShortIsIgnored
