SPECIFICATION FairSpec
CONSTANTS
    Contents <- MCContents
    Block = 2
    Arity = 2
    Gone = Gone
PROPERTY
    ChangedFileIsError
CHECK_DEADLOCK FALSE
