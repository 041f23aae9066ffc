CONSTANTS
    MaxContents = 2
    MaxBuilds = 2
    NoFile = NoFile
SPECIFICATION Spec
INVARIANTS
    NoInstallablePartialAfterFailure
CHECK_DEADLOCK FALSE
