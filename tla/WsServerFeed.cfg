SPECIFICATION FairSpec
CONSTANTS
    Viewers = {a, b}
    Oom = {b}
    Fast = {a}
    NoViewer = NoViewer
    Capacity = 2
    MaxViewers = 2
    MaxFrames = 3
PROPERTIES
    ImplementsFeed
    FramesLeave
    StopReturns
