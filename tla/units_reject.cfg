\* Code of three instructions, memory enough: a unit can only be rejected.
SPECIFICATION FairSpec
CONSTANTS
    NAddr = 3
    Programs <- Rejectable
    NBlocks = 4
    BlockCells = 8
    CodeStart = 4
    StackDepth = 1
    MallocFails = FALSE
    NoBlock = NoBlock
PROPERTY InProgramOrder
