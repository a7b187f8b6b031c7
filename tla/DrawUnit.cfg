SPECIFICATION DrawSpec
CONSTANTS
    Cap = 80
    CountMod = 65536
    MaxPayload = 40
    Sources = {1, 2, 3}
    Pixels = {1, 2, 3}
    Size <- MCSize
    Shows <- MCShows
    Slots = {1, 2}
    Period = 2
    MaxImageBytes = 12
    IdMod = 8
    Ops = {"BOX_SHADOW"}
    LineOps = {"LINE"}
    MaxSegments = 2
    MaxOps = 2
    MaxFrames = 4
    None = None
INVARIANTS DrawTypeOK NoBlank NoLeak EvictsOldest FramesWhole
CHECK_DEADLOCK FALSE
