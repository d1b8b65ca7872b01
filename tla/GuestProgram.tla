---------------------------- MODULE GuestProgram ----------------------------
(***************************************************************************)
(* The guest's machine code as the translator distinguishes it.            *)
(*                                                                         *)
(* An address stands for the start of one 680x0 instruction; address 0 is  *)
(* the program's entry and NAddr is the zeroed memory after the code hunk, *)
(* which decodes to no known instruction.                                  *)
(***************************************************************************)
EXTENDS Naturals

CONSTANTS NAddr,     \* number of instructions in the program
          Programs   \* the programs considered

Addr   == 0 .. NAddr
NoAddr == NAddr + 1

(***************************************************************************)
(* The classes of instruction in opcode_info_tbl:                          *)
(*   plain  translated and followed by the next instruction                *)
(*   bcc    BEQ (eq) or BNE (~eq), ends a translation unit                 *)
(*   rts    ends a translation unit and the program                        *)
(*   half   a Bcc of another condition: the handler fails after its first  *)
(*          output byte                                                    *)
(*   bad    an opcode without a handler, or an operand that the handler    *)
(*          rejects before it has written anything                         *)
(***************************************************************************)
Plain == [op |-> "plain"]
Rts   == [op |-> "rts"]
Half  == [op |-> "half"]
Bad   == [op |-> "bad"]
Bcc(eq, to) == [op |-> "bcc", eq |-> eq, to |-> to]

Instr == {Plain, Rts, Half, Bad} \cup {Bcc(eq, to) : eq \in BOOLEAN, to \in Addr}

\* BNE is taken when the zero flag is clear, BEQ when it is set.
Taken(i, zero) == zero = i.eq

ASSUME NAddrAssumption == NAddr \in Nat

ASSUME ProgramsAssumption ==
    \A pr \in Programs : pr \in [Addr -> Instr] /\ pr[NAddr] = Bad
=============================================================================
