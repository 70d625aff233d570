\* Two failed probes declare a partition, three frames: held, overtaken and flushed.
SPECIFICATION FairSpec
CONSTANTS
    P = 2
    MaxFailures = 2
    MaxFrames = 3
    MaxInTransit = 2
INVARIANTS
    TypeOK
    SessionAgreed
    FrameHasOnePlace
PROPERTIES
    PartitionHeals
CHECK_DEADLOCK FALSE
