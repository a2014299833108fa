SPECIFICATION Spec
CONSTANTS
    m1 = m1
    m2 = m2
    None = None
    Macs = {m1, m2}
    MaxClicks = 2
    MaxMoves = 0
    MaxDrops = 2
    MaxStarts = 1
SYMMETRY Pairs
INVARIANT TypeOK
INVARIANT EngineIffConnected
INVARIANT TargetIsRemembered
INVARIANT ArmedMeansWaiting
INVARIANT ShownIsCurrent
PROPERTY StaysDisconnected
PROPERTY LifecycleKept
