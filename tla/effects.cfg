\* Two data registers, and memory for two long words that overlap.
SPECIFICATION Spec
CONSTANTS
    ByteSize = 3
    NBytes = 3
    DataReg = {0, 1}
    Immediate = {0, 2}
    Quick = {0, 1}
    ExecBase = 5
INVARIANTS TypeOK DataAgrees BranchRight
