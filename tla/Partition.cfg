SPECIFICATION FairSpec
CONSTANTS
    LastFrame = 4
    Audio = {1, 2}
    Senders = 2
    MaxBuffered = 2
    Threshold = 2
    MaxFailures = 3
    MaxSessions = 2
INVARIANTS TypeOK UplinkKept
PROPERTIES CommandsOutliveAudio BufferDrains
CHECK_DEADLOCK FALSE
