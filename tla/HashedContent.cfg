SPECIFICATION FairSpec
CONSTANTS
    Contents <- MCContents
    Block = 2
    Arity = 2
    Gone = Gone
INVARIANTS
    EncodesWhole
    DecodesBack
    BufferProportional
PROPERTIES
    Ends
CHECK_DEADLOCK FALSE
