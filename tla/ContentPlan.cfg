SPECIFICATION Spec
CONSTANTS
    Trees <- MCTrees
    NameOrder <- MCNameOrder
    HifNames <- MCHifNames
    ExecNames <- MCExecNames
    Factor = 2
    Cap = 8
    Sector = 7
    Word = 9
INVARIANTS
    RoundTrip
    WritesOnlyWhatWasPacked
    FewestGameContents
    LayoutIsUsable
CHECK_DEADLOCK FALSE
