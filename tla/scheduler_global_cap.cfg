SPECIFICATION Spec
CONSTANTS
    Schedules = {s1, s2}
    Pairs = {p1}
    Bisync = {p1}
    Workers = {w1}
    Loop = loop
    MaxRun = 2
    MaxClock = 2
    MaxConcurrent = 1
INVARIANTS
    GlobalCap
CHECK_DEADLOCK FALSE
