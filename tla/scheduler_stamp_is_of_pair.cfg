SPECIFICATION Spec
CONSTANTS
    Schedules = {s1}
    Pairs = {p1, p2}
    Bisync = {p1, p2}
    Workers = {w1}
    Loop = loop
    MaxRun = 2
    MaxClock = 2
    MaxConcurrent = 2
INVARIANTS
    StampIsOfPair
CHECK_DEADLOCK FALSE
