\* The three functions and the stub.
SPECIFICATION Spec
CONSTANT Functions <- Implemented
INVARIANTS TypeOK CalledAligned ArgumentsArrive StubTransparent CallKeepsRegisters
INVARIANT ReturnsToCaller
