SPECIFICATION CallSpec
CONSTANTS
    a = a
    p = p
    Callers = {w1, w2}
    Files = {a, p}
    Payload = p
    Nothing = nothing
    Planned <- MCPlanned
    CallFaults = 0
    MaxCalls = 2
INVARIANTS
    WrittenIsOwn
CHECK_DEADLOCK FALSE
