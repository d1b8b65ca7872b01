\* The root node as malloc() returns it.
SPECIFICATION FairSpec
CONSTANTS
    Bits = 3
    MaxNodes = 6
    NBlocks = 2
    RootSlots <- Uncleared
    Null = Null
    Garbage = Garbage
PROPERTY AbsentGivesNull
