\* Well-formed programs of four instructions, memory enough for all units.
SPECIFICATION FairSpec
CONSTANTS
    NAddr = 4
    Programs <- WellFormed
    NBlocks = 5
    BlockCells = 9
    CodeStart = 4
    StackDepth = 1
    MallocFails = FALSE
    NoBlock = NoBlock
PROPERTY ProgramRuns
