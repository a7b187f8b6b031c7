SPECIFICATION MainFairSpec
CONSTANTS
    Viewers = {v1, v2}
    Capacity = 2
    MaxMembers = 2
    Unlucky = {v2}
    MaxFrames = 4
    ClockMod = 5
    RefreshPeriod = 2
    MaxRound = 2
INVARIANTS FeedTypeOK InOrder HoldsNewest MainTypeOK ServerOutlivesUse RefreshOnTime
PROPERTIES RefreshPaced ExitsWhenAsked
CHECK_DEADLOCK FALSE
