SPECIFICATION Spec
CONSTANTS
    Batches = {b1, b2}
    Lone = {b3}
    Serials = {s1, s2}
    Readers = {r1}
    Directs = {d1}
    Null = Null
    Failed = Failed
SYMMETRY Alike
INVARIANTS ReadIsOneCommit CommitsAreKept ConstraintsHold
PROPERTIES PreconditionHolds ActionsFollowParents
