SPECIFICATION EditSpec
CONSTANTS
    Sessions = {s1}
    Refreshes = {x1}
    StableTicks = 2
    ErrorRetryTicks = 2
    MaxStamps = 4
    MaxFaults = 1
INVARIANTS
    OnlySavesAreSynced
CHECK_DEADLOCK FALSE
