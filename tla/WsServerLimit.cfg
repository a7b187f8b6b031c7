SPECIFICATION Spec
CONSTANTS
    Viewers = {a, b}
    Oom = {}
    Fast = {}
    NoViewer = NoViewer
    Capacity = 2
    MaxViewers = 1
    MaxFrames = 2
INVARIANT AllViewersServed
