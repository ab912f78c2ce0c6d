CONSTANTS
    w = w
    v = v
    reader = reader
    x = x
    y = y
    None = None
    Missing = Missing
    Invalid = Invalid
SPECIFICATION Spec
INVARIANTS HistoryReadable AcknowledgedIsVisible 
PROPERTIES StoredIsKept EveryoneEnds
CHECK_DEADLOCK FALSE
