\* A window of 4 slots and counters up to 12: jumps below, at and past a whole
\* window, and three laps of each slot.
SPECIFICATION Spec
CONSTANTS
    Size = 4
    MaxCounter = 12
INVARIANTS
    TypeOK
    WindowTracksAccepted
PROPERTIES
    ImplementsFilter
CHECK_DEADLOCK FALSE
