SPECIFICATION MCSpec
CONSTANTS
    None = None
    Authority = authority
    Followers = {f}
    Serving = {f}
    Crashing = {"server", "command"}
    Ops = {insert, update}
    Inserts = {insert}
    Huge = {}
    Term = 1
    Terms = {1, 2}
    Lossy = TRUE
    Limit = 2
    MaxAttempts = 2
    MaxTransactions = 2
INVARIANTS FollowerIsPrefix RegisteredFollowersKeepTheirEntries
PROPERTIES RegisteredCatchesUp
