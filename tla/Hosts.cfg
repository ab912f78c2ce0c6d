CONSTANTS
    Procs = {p, q}
    Keys = {k}
    Values = {x, y}
    None = None
    Torn = Torn
    Adapters = {"fs", "r2", "http"}
    TimeoutMs = 1
    SamePid = FALSE
    TornFiles = FALSE
    MaxCalls <- CallBounds
    MaxFaults = 1
    MaxCrashes = 1
    MaxRecords = 3
    MaxCount = 1
    Capacities = {1, 2}
    Nothing = Nothing
    MaxRows = 3
    QueueSizes = {1, 2}
    Absent = Absent
SPECIFICATION MCSpec
INVARIANTS StreamIsAnswer ChunksAreTheRecords CancellationWins
PROPERTIES Linearizable EverythingEnds
CHECK_DEADLOCK FALSE
