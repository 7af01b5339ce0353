SPECIFICATION FairSpec
CONSTANTS
    Tasks = {t1}
    Workers = {w1, w2, w3}
    NoTask = NoTask
    Sizes = {0, 1}
    MaxGrowth = 1
INVARIANTS
    TypeOK
    CompletedIsOnDisk
    NoResidue
PROPERTIES
    JobSettles
    KeepsLifecycle
CHECK_DEADLOCK FALSE
