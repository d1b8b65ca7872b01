---------------------------- MODULE MCTransUnits ----------------------------
(* Instances of TransUnits for TLC. *)
EXTENDS TransUnits

\* Targets inside the code; the last instruction is the only RTS that must be
\* there, so that no path leaves the code.
Proper == {Plain, Rts} \cup {Bcc(eq, to) : eq \in BOOLEAN, to \in 0 .. NAddr - 1}

WellFormed ==
    {pr \in [Addr -> Proper \cup {Bad}] :
        /\ pr[NAddr] = Bad
        /\ pr[NAddr - 1] = Rts
        /\ \A a \in 0 .. NAddr - 2 : pr[a] # Bad}

\* Any code, and branches to anywhere in memory up to its end.
Arbitrary == {pr \in [Addr -> Instr] : pr[NAddr] = Bad}
\* Code that may run into an opcode without a handler.
Rejectable == {pr \in [Addr -> Instr \ {Half}] : pr[NAddr] = Bad}
=============================================================================
