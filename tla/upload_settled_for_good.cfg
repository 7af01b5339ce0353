SPECIFICATION Spec
CONSTANTS
    t1 = t1
    t2 = t2
    Tasks = {t1, t2}
    Workers = {w1, w2}
    NoTask = NoTask
    Size <- MCSize
PROPERTY SettledForGood
CHECK_DEADLOCK FALSE
