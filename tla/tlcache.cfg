\* The unit test's three-bit addresses, a heap too small for all, any root node.
SPECIFICATION FairSpec
CONSTANTS
    Bits = 3
    MaxNodes = 5
    NBlocks = 2
    RootSlots <- Uncleared
    Null = Null
    Garbage = Garbage
INVARIANTS
    TypeOK
    TreeShape
PROPERTIES
    ImplementsMap
    CallsEnd
