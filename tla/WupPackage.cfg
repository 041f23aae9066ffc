CONSTANTS
    MaxContents = 3
    MaxBuilds = 2
    NoFile = NoFile
SPECIFICATION Spec
INVARIANTS
    TypeOK
    TmdSealsPackage
    NeverMixed
    SuccessIsExact
    FailureLeavesNothing
PROPERTIES
    PublishesAtomically
    PublishesOnlyWhole
CHECK_DEADLOCK FALSE
