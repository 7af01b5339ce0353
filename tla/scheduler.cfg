SPECIFICATION FairSpec
CONSTANTS
    Schedules = {s1}
    Pairs = {p1}
    Bisync = {p1}
    Workers = {w1}
    Loop = loop
    MaxRun = 2
    MaxClock = 2
    MaxConcurrent = 2
INVARIANTS
    TypeOK
    SingleFlight
    OncePerSlot
    RecordsAreTrue
PROPERTIES
    RunsEnd
CHECK_DEADLOCK FALSE
