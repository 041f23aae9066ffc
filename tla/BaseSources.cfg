CONSTANTS
    None = None
    User = User
    Jobs <- MCJobs
SPECIFICATION Spec
INVARIANTS
    StagedTitleIsWhole
    ExtrasComeFromTheBaseDisc
PROPERTIES
    StagingEnds
CHECK_DEADLOCK FALSE
