\* One utterance of each kind: enough for a turn in flight, a follow-up absorbed
\* into it and a third utterance that takes the lock before the flush does.
SPECIFICATION FairSpec
CONSTANTS
    Commands = {c1}
    Taps = {p1}
    Clips = {a1}
    NoCommand = NoCommand
    Failures = TRUE
    MaxInterrupts = 1
INVARIANTS
    TypeOK
    LockInv
    NothingLost
    DeliveredOnce
    AnsweredOnce
PROPERTIES
    NeverDeaf
CHECK_DEADLOCK FALSE
