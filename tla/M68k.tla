-------------------------------- MODULE M68k --------------------------------
(***************************************************************************)
(* What the Amiga program is promised: the 680x0 executing it one          *)
(* instruction after the other.  Nothing of the translator is visible.     *)
(***************************************************************************)
EXTENDS GuestProgram

VARIABLES prog,      \* the program in memory
          pc,        \* address of the next instruction
          z,         \* the zero flag
          retired,   \* address of the last instruction executed, or NoAddr
          running    \* FALSE after the program's RTS

vars == <<prog, pc, z, retired, running>>

Init ==
    /\ prog \in Programs
    /\ pc = 0
    /\ z \in BOOLEAN
    /\ retired = NoAddr
    /\ running = TRUE

Executes(op) ==
    /\ running
    /\ prog[pc].op = op
    /\ retired' = pc
    /\ prog' = prog

\* Data is abstracted: an instruction may leave the flag set or clear.
ExecPlain ==
    /\ Executes("plain")
    /\ pc' = pc + 1
    /\ z' \in BOOLEAN
    /\ UNCHANGED running

ExecBcc ==
    /\ Executes("bcc")
    /\ \/ Taken(prog[pc], z) /\ pc' = prog[pc].to
       \/ ~Taken(prog[pc], z) /\ pc' = pc + 1
    /\ UNCHANGED <<z, running>>

ExecRts ==
    /\ Executes("rts")
    /\ running' = FALSE
    /\ UNCHANGED <<pc, z>>

Next == ExecPlain \/ ExecBcc \/ ExecRts

Spec == Init /\ [][Next]_vars /\ WF_vars(Next)
=============================================================================
