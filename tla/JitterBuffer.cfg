\* 4 * Max is 8: jumps, overflows, a filling pre-buffer, gaps longer than the hold.
SPECIFICATION Spec
CONSTANTS
    LastSeq = 11
    Baseline = 1
    Max = 2
    Hold = 2
INVARIANTS
    TypeOK
    BufferNearPlayout
    EmittedInOrder
CHECK_DEADLOCK FALSE
