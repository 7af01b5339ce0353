SPECIFICATION EngineSpec
CONSTANTS
    Conns = {c1}
    Groups = {direct, proxied}
    Direct = direct
    Tunneled = {c1}
    Workers = {w1, w2}
    Keeper = keeper
    None = none
    MaxFaults = 1
    MaxRequests = 2
    Connections = {k1}
    Requests = {r1, r2}
    Stops = {u1}
    Surfaces = {"root"}
    MountFaults = 1
    Callers = {v1, v2}
    Files = {f, p}
    Payload = p
    Nothing = nothing
    Planned <- MCPlanned
    CallFaults = 1
    MaxCalls = 2
    LastDay = 5
    Calendar <- MCCalendar
    HoursPerDay = 2
    MinutesPerHour = 2
    LastDom = 3
    LastMonth = 2
    DaysPerWeek = 2
    Texts <- MCTexts
    LastInstant = 17
    Zones <- MCZones
    MaxDaySteps = 9
    Clients = {d1, d2}
    Arguments = {x, y}
    MaxConfirms = 1
    DefaultTtl = 1
    LeastTtl = 1
    MostTtl = 2
    AskedTtls = {2, 3}
    NoTtl = nottl
    MaxTokens = 2
    MaxAsks = 3
    MaxRestarts = 1
    MaxTicks = 1
    Tools = {t1, t2}
    Listings <- MCListings
    ScanBudget = 2
    PageSizes = {1}
    Offsets = {0}
    Limits <- MCLimits
    IntentCap = 2
    IntentTtl = 1
    MaxWork = 3
    MaxReports = 1
    MaxHours = 1
    Lines = {l1, l2}
    Permits = 2
    MaxApps = 1
INVARIANTS
    EngineTypeOK
    WorkCounts
    ForwarderOwned
    ReplayComplete
    MountsOwned
    WritesAreGuarded
    NextIsLeast
    WritesAreConfirmed
    SessionsAreTrue
    CallsAreOnce
PROPERTIES
    Returns
CHECK_DEADLOCK FALSE
