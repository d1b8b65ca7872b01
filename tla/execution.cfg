\* Three more libraries than Exec at most, of which two fit below AbsExecBase.
SPECIFICATION Spec
CONSTANTS
    Libraries <- LibraryNames
    Table <- Tables
    Exec = "exec"
    NotImplemented <- NoFunction
    AbsExecSlot = 3
    MaxSlot = 4
    MaxOffset = 1002
    Null = Null
INVARIANTS TypeOK CallsArrive ExecBaseRight VerdictRight
PROPERTIES TablesStay SupervisorEnds
