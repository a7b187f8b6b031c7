SPECIFICATION Spec
CONSTANTS
    Viewers = {a, b, c}
    Oom = {c}
    Fast = {}
    NoViewer = NoViewer
    Capacity = 2
    MaxViewers = 2
    MaxFrames = 3
SYMMETRY ViewerSymmetry
INVARIANTS
    TypeOK
    RingsOK
    HeapOwned
    NoLostWakeup
    NoMissedWake
    SessionsOK
    Accounting
    StopLeavesNothing
