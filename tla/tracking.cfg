CONSTANTS
    r1 = r1  r2 = r2  c1 = c1  w1 = w1  w2 = w2
    Row = {r1, r2}
    Track = {1, 2}
    Other = {c1}
    Web = {w1, w2}
    MaxRequests = 4
    MaxCrashes = 1
    None = None
SYMMETRY Symmetry
SPECIFICATION Spec
CHECK_DEADLOCK FALSE
INVARIANTS TypeOK NeverOvercounted CountsExact StructureSound
PROPERTY DeletedStaysDeleted
