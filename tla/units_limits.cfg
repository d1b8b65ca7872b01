\* Any code of three instructions, small blocks, a small pool, malloc failing.
SPECIFICATION FairSpec
CONSTANTS
    NAddr = 3
    Programs <- Arbitrary
    NBlocks = 3
    BlockCells = 5
    CodeStart = 3
    StackDepth = 2
    MallocFails = TRUE
    NoBlock = NoBlock
INVARIANTS
    TypeOK
    TranslatorOK
    CacheSound
    FinishedUnitsComplete
    CrashHasCause
    CodeOK
    GuestOK
PROPERTIES
    CacheStable
    FinishedUnitsStay
    InOrderUntilFault
    TranslationReturns
