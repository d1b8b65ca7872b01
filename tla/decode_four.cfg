\* No code for address 4.
SPECIFICATION Spec
CONSTANTS
    Opcodes <- AllOpcodes
    Word    <- Words
    Junk    = Junk
INVARIANT NothingAtFour
