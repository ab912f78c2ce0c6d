SPECIFICATION MCSpec
CONSTANTS
    n1 = n1
    n2 = n2
    c1 = c1
    c2 = c2
    a = a
    b = b
    f1 = f1
    f2 = f2
    body = body
    none = none
    Nodes = {n1, n2}
    Clients = {c1, c2}
    Fields = {a, b}
    Fingerprints <- Requests
    Bodies <- Records
    Commands = {}
    MaxLog = 2
    Readers = {c2}
    Plan <- OnePatch
SYMMETRY Symmetry
INVARIANTS ReplicasAgree ExactlyOnce AnswersHold LinearizableReads SessionMonotonic
