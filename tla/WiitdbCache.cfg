CONSTANTS
    Procs = {p1, p2}
    Ttl = 1
    MaxTime = 2
    MaxLookups = 3
    None = None
SPECIFICATION FairSpec
INVARIANTS
    TypeOK
    NeverCut
    NoneOnlyWithoutData
PROPERTIES
    StaysValid
    LookupReturns
CHECK_DEADLOCK FALSE
