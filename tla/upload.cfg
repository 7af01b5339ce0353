SPECIFICATION WorkbenchSpec
CONSTANTS
    t1 = t1
    t2 = t2
    Tasks = {t1, t2}
    Workers = {w1, w2}
    NoTask = NoTask
    Size <- MCSize
    Requests = {q1, q2}
    Connections = {c1}
    MaxGlobal = 2
    MaxPerConnection = 1
    Sizes = {0, 2}
    BatchMax = 2
    HoldCap = 3
    Capacity = 1
    Threshold = 2
    Sessions = {s1}
    Refreshes = {x1}
    StableTicks = 2
    ErrorRetryTicks = 2
    MaxStamps = 3
    EditFaults = 1
INVARIANTS
    WorkbenchTypeOK
    OneOwner
    OneRow
    OutcomeIsTrue
    ListingsAreTrue
    SyncedIsTrue
PROPERTIES
    CallsReturn
    PaneSettles
    SavesAreSynced
CHECK_DEADLOCK FALSE
