SPECIFICATION MCJobsSpec
CONSTANTS
    Tasks = {t1}
    Workers = {w1, w2}
    NoTask = none
    RunIds = {r1}
    NoRun = none
    MaxFaults = 1
    MaxErrors = 2
    Kinds = {"move", "bisync"}
    Connections = {c1, c2}
    Bindings <- MCBindings
    Trees <- MCTrees
    Spellings <- MCSpellings
    Methods = {"mkdir", "rmdir", "delete", "purge", "copy", "move", "rename", "hashsum", "copyurl", "cleanup", "rmdirs"}
    RequestFaults = 1
    Strangers = 1
    Directories <- MCDirectories
    Bodies <- MCBodies
    None = none
    Widths = {0, 1, 2, 3, 4, 9}
    MaxPaged = 4
    MaxListed = 3
    Budget = 4
    MaxPreview = 3
    MaxScan = 3
    Attempts = 3
    ReadFaults = 2
    Sources <- MCSources
    Contents <- MCContents
    Others <- MCOthers
    BlockSize = 2
    NameField = 1
    Window = 3
    MaxEntries = 3
    MaxBytes = 4
    MaxCells = 12
    Missing = missing
    MaxEdits = 1
    Literals = 2
    Distances = 2
    MatchLength = 2
    MaxCode = 2
    Repeat = 3
    Chunk = 2
    Guard = 4
    Wrapped <- MCWrapped
    Foreign = foreign
    MaxRead = 6
    MaxBefore = 0
    Registries <- MCRegistries
    Forests <- MCForests
    Forms <- MCForms
    Stems <- MCStems
    SumTexts <- MCSumTexts
    Lookalikes <- MCLookalikes
    Unlimited = 9
    MaxRebinds = 1
    Threads = {k1, k2}
    Offers <- MCOffers
    Worlds <- MCWorlds
    Providers <- MCProviders
    MaxTroubles = 1
INVARIANTS
    MCJobsTypeOK
    OutcomesAreTrue
    NoGhostRun
    ChangesAreAllowed
    WindowsAreWhole
    UnpacksTrue
    PlansAreKept
    RemotesAreMeant
PROPERTIES
    KeepsLifecycle
    JobsEnd
CHECK_DEADLOCK FALSE
