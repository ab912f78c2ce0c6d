SPECIFICATION LocksSpec
CONSTANTS
    StateFile = state_file
    Targets = {state_file, users, posts}
    Procs = {p1, p2}
    Contents = {0, 1}
    MaxId = 2
    Windows = {p2}
    Serials = {s1}
    Readers = {r1}
    Directs = {d1, d2}
    Failed = Failed
    NoVote = NoVote
    m1 = m1
    m2 = m2
INVARIANTS JournalRecoverable AcknowledgedSurvive StableStorage
PROPERTIES Refines StableWhileRead NobodyWaitsForEver CommittedLogIsKept
