SPECIFICATION PageFairSpec
CONSTANTS
    Sockets = {s1, s2, s3, s4, s5}
    NoSocket = NoSocket
    MaxClicks = 2
    MaxDowns = 2
    Ids = {i1, i2}
    Objects = {o1, o2}
    None = None
    MaxCmds = 2
INVARIANTS ConnTypeOK OneLive OneTimer NeverStranded PageTypeOK BitmapCurrent
PROPERTIES Reconnects NoToggle
CHECK_DEADLOCK FALSE
