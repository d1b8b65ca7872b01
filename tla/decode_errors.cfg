\* A failed extraction must make the handler fail.
SPECIFICATION Spec
CONSTANTS
    Opcodes <- AllOpcodes
    Word    <- Words
    Junk    = Junk
INVARIANT ErrorsReturned
