SPECIFICATION FairSpec
CONSTANTS
    MaxSockets = 3
    MaxFaults = 1
    MaxActs = 2
INVARIANTS PhoneTypeOK
PROPERTIES SessionRestored PromisesSettle
CHECK_DEADLOCK FALSE
