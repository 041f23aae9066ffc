CONSTANTS
    Procs = {p1, p2}
    Ttl = 1
    MaxTime = 2
    MaxLookups = 2
    None = None
SPECIFICATION FairSpec
PROPERTIES
    ServedWithinTtl
CHECK_DEADLOCK FALSE
