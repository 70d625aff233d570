\* Taps, sessions and draws overlap: up to three calls before a new one begins.
SPECIFICATION PageSpec
CONSTANTS
    Frames = {0}
    MaxDraws = 2
    MaxCalls = 3
    MaxPosts = 1
    MaxLosses = 1
INVARIANTS
    PageTypeOK
    RingIsHonest
    OnlyThisDraw
CHECK_DEADLOCK FALSE
