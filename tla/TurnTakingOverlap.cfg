SPECIFICATION Spec
CONSTANTS
    Commands = {c1}
    Taps = {p1}
    Clips = {a1}
    NoCommand = NoCommand
    Failures = FALSE
    MaxInterrupts = 0
INVARIANTS
    OneTurnInFlight
CHECK_DEADLOCK FALSE
