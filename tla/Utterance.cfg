\* Lengths in the order of the code's 6, 9, 10, 250 and 1500 frames.
SPECIFICATION FairSpec
CONSTANTS
    MinSpeech = 2
    PreRoll = 2
    Trail = 1
    Silence = 3
    Cap = 6
    Kinds = {"speech", "murmur", "silence", "concealed", "garbled"}
    MaxReplies = 2
INVARIANTS
    TypeOK
    CaptureInv
    ReplyInv
PROPERTIES
    UtteranceEnds
CHECK_DEADLOCK FALSE
