\* Every opcode of lines 0 to 8.
SPECIFICATION Spec
CONSTANTS
    Opcodes <- AllOpcodes
    Word    <- Words
    Junk    = Junk
INVARIANTS TypeOK OneHandler InStep TranslatedRight FailureReported
