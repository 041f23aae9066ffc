SPECIFICATION Spec
CONSTANTS
    MaxRuns = 2
    Confs <- MCConfs
    None = None
INVARIANTS
    ScratchIsFreed
PROPERTIES
    PackageIsThisRuns
    OutputsLast
CHECK_DEADLOCK FALSE
