SPECIFICATION ConnFairSpec
CONSTANTS
    Sockets = {s1, s2, s3, s4, s5}
    NoSocket = NoSocket
    MaxClicks = 1
    MaxDowns = 0
PROPERTIES StaysConnected
CHECK_DEADLOCK FALSE
