------------------------------- MODULE Effects -------------------------------
(***************************************************************************)
(* What the translated instructions do to registers, flags and memory, in   *)
(* step with what the 680x0 does.  A long word is a number of two bytes of   *)
(* ByteSize values; the 680x0 has its high byte at the lower address, the    *)
(* x86 its low byte.                                                        *)
(*                                                                         *)
(* The instructions are those the handlers accept, in any order; both       *)
(* machines take each branch the same way as long as they agree.  Two kinds  *)
(* of instruction are known to make them differ (Gap); what comes after the  *)
(* first of them is not followed.                                           *)
(***************************************************************************)
EXTENDS Integers

CONSTANTS ByteSize,    \* values of a byte, 256 in the code
          NBytes,      \* bytes of the guest's data
          DataReg,     \* the data registers
          Immediate,   \* operands that are part of an instruction
          Quick,       \* three-bit operands of SUBQ
          ExecBase     \* the base address that exec_program() stores

LongSize == ByteSize * ByteSize
Byte     == 0 .. ByteSize - 1
Long     == 0 .. LongSize - 1
LongAt   == 0 .. NBytes - 2        \* addresses of long words, which may overlap
Memory   == [0 .. NBytes - 1 -> Byte]

ASSUME SizeAssumption == ByteSize \in Nat \ {0, 1} /\ NBytes \in Nat \ {0, 1}
ASSUME OperandAssumption ==
    /\ Immediate \subseteq Byte
    /\ Quick \subseteq 0 .. 7
    /\ ExecBase \in Long

VARIABLES m68k,     \* data registers, A6 and the flag Z of the 680x0
          x86,      \* the registers they are mapped to, and ZF
          m68kMem,  \* the data in memory, as the 680x0 would have it
          x86Mem,   \* the same as the translated program has it
          whole,    \* history: addresses where both read the same long word
          setter,   \* history: last instruction to set the flags of the 680x0
          gap       \* history: whether a Gap has been met

memory == <<m68kMem, x86Mem, whole>>
vars   == <<m68k, x86, memory, setter, gap>>

\* The loader copies data as it is in the file.
Init ==
    /\ m68k = [d |-> [r \in DataReg |-> 0], a6 |-> 0, z |-> FALSE]
    /\ x86 = m68k
    /\ m68kMem \in Memory /\ x86Mem = m68kMem
    /\ whole = {a \in LongAt : m68kMem[a] = m68kMem[a + 1]}
    /\ setter = "none"
    /\ gap = FALSE

-----------------------------------------------------------------------------
(* Operands                                                                *)

Big(mem, a)    == mem[a] * ByteSize + mem[a + 1]
Little(mem, a) == mem[a + 1] * ByteSize + mem[a]

StoreBig(mem, a, v) ==
    [mem EXCEPT ![a] = v \div ByteSize, ![a + 1] = v % ByteSize]

\* Mutant: the bytes are swapped on the way to memory only.
StoreSwapped(mem, a, v) == StoreBig(mem, a, v)
StoreLittle(mem, a, v) ==
    [mem EXCEPT ![a] = v % ByteSize, ![a + 1] = v \div ByteSize]

SignedByte(b) == IF 2 * b < ByteSize THEN b ELSE b - ByteSize

SignExtended(b) == SignedByte(b) % LongSize

\* exec_program() stores the base of Exec as the x86 does; an AmigaOS would
\* have it in the 680x0's order.
StoredExecBase ==
    [i \in 0 .. 1 |-> IF i = 0 THEN ExecBase % ByteSize ELSE ExecBase \div ByteSize]

\* Follow both machines unless they are known to differ.
Step(name) ==
    /\ ~gap
    /\ setter' = name

SetData(machine, r, v)  == [machine EXCEPT !.d[r] = v]
SetFlagBy(machine, v)   == [machine EXCEPT !.z = (v = 0)]

-----------------------------------------------------------------------------
(* Instructions                                                            *)

\* x86_encode_move_imm_to_dreg(): x86 moves leave the flags alone.
Moveq ==
    /\ Step("move")
    /\ \E b \in Immediate, r \in DataReg :
          /\ m68k' = SetFlagBy(SetData(m68k, r, SignedByte(b) % LongSize), b)
          /\ x86'  = SetData(x86, r, SignExtended(b))
    /\ UNCHANGED <<memory, gap>>

MoveImmToDreg ==
    /\ Step("move")
    /\ \E v \in Immediate, r \in DataReg :
          /\ m68k' = SetFlagBy(SetData(m68k, r, v), v)
          /\ x86'  = SetData(x86, r, v)
    /\ UNCHANGED <<memory, gap>>

MoveDregToDreg ==
    /\ Step("move")
    /\ \E from, to \in DataReg :
          /\ m68k' = SetFlagBy(SetData(m68k, to, m68k.d[from]), m68k.d[from])
          /\ x86'  = SetData(x86, to, x86.d[from])
    /\ UNCHANGED <<memory, gap>>

\* Gap: a long word that is not one the program itself has written.
MoveMemToDreg ==
    /\ Step("move")
    /\ \E a \in LongAt, r \in DataReg :
          /\ LET v == Big(m68kMem, a)
             IN  m68k' = SetFlagBy(SetData(m68k, r, v), v)
          /\ x86' = SetData(x86, r, Little(x86Mem, a))
          /\ gap' = (a \notin whole)
    /\ UNCHANGED memory

\* A long word behind or before one that is written loses a byte to it.
MoveDregToMem ==
    /\ Step("move")
    /\ \E a \in LongAt, r \in DataReg :
          /\ m68k'    = SetFlagBy(m68k, m68k.d[r])
          /\ m68kMem' = StoreBig(m68kMem, a, m68k.d[r])
          /\ x86Mem'  = StoreLittle(x86Mem, a, x86.d[r])
          /\ whole'   = (whole \ {a - 1, a + 1}) \cup {a}
    /\ UNCHANGED <<x86, gap>>

\* MOVEA leaves the flags alone on both machines.
MoveaImm ==
    /\ Step(setter)
    /\ \E v \in Immediate :
          /\ m68k' = [m68k EXCEPT !.a6 = v]
          /\ x86'  = [x86 EXCEPT !.a6 = v]
    /\ UNCHANGED <<memory, gap>>

MoveaMem ==
    /\ Step(setter)
    /\ \E a \in LongAt :
          /\ m68k' = [m68k EXCEPT !.a6 = Big(m68kMem, a)]
          /\ x86'  = [x86 EXCEPT !.a6 = Little(x86Mem, a)]
          /\ gap'  = (a \notin whole)
    /\ UNCHANGED memory

\* From address 4, which becomes ABS_EXEC_BASE.
MoveaExecBase ==
    /\ Step(setter)
    /\ m68k' = [m68k EXCEPT !.a6 = ExecBase]
    /\ x86'  = [x86 EXCEPT !.a6 = Little(StoredExecBase, 0)]
    /\ UNCHANGED <<memory, gap>>

\* Mutant: the result may leave the register's width.
DifferenceUnbounded(v, q) == v - q
Difference(v, q)          == (v - q) % LongSize

\* Gap: 0 stands for 8 on the 680x0, for 0 here.
Subq ==
    /\ Step("subq")
    /\ \E q \in Quick, r \in DataReg :
          /\ LET v == (m68k.d[r] - (IF q = 0 THEN 8 ELSE q)) % LongSize
             IN  m68k' = SetFlagBy(SetData(m68k, r, v), v)
          /\ LET v == Difference(x86.d[r], q)
             IN  x86' = SetFlagBy(SetData(x86, r, v), v)
          /\ gap' = (q = 0)
    /\ UNCHANGED memory

\* Mutant: the register number is left out.
TestedFirst(r) == x86.d[CHOOSE first \in DataReg : TRUE]
Tested(r)      == x86.d[r]

Tst ==
    /\ Step("tst")
    /\ \E r \in DataReg : /\ m68k' = SetFlagBy(m68k, m68k.d[r])
                          /\ x86'  = SetFlagBy(x86, Tested(r))
    /\ UNCHANGED <<memory, gap>>

\* JSR d(A6) adds the displacement to ESI, calls, and restores RSI.  What the
\* library returns is the same for both; the flags afterwards are anybody's.
Jsr ==
    /\ Step("call")
    /\ \E v \in Immediate, r \in DataReg, z1, z2 \in BOOLEAN :
          /\ m68k' = [m68k EXCEPT !.d[r] = v, !.z = z1]
          /\ x86'  = [x86 EXCEPT !.d[r] = v, !.z = z2]
    /\ UNCHANGED <<memory, gap>>

Gap == gap /\ UNCHANGED vars

Next == Moveq \/ MoveImmToDreg \/ MoveDregToDreg \/ MoveMemToDreg
        \/ MoveDregToMem \/ MoveaImm \/ MoveaMem \/ MoveaExecBase
        \/ Subq \/ Tst \/ Jsr \/ Gap

Spec == Init /\ [][Next]_vars

-----------------------------------------------------------------------------
(* Properties                                                              *)

Machine == [d : [DataReg -> Long], a6 : Long, z : BOOLEAN]

TypeOK ==
    /\ m68k \in Machine /\ x86 \in Machine
    /\ m68kMem \in Memory /\ x86Mem \in Memory
    /\ whole \subseteq LongAt
    /\ setter \in {"none", "move", "subq", "tst", "call"}
    /\ gap \in BOOLEAN

\* Registers hold the same values on both machines, and so do the long words
\* that the program has written, though their bytes are the other way round:
\* until a long word is read that the program has not written as one, which the
\* x86 takes in its own byte order, or SUBQ takes 0 for 0.
DataAgrees ==
    ~gap =>
        /\ x86.d = m68k.d /\ x86.a6 = m68k.a6
        /\ \A a \in whole : Little(x86Mem, a) = Big(m68kMem, a)

\* A branch goes the same way on both machines when the instruction that set
\* the flags last is SUBQ or TST, whatever moves of addresses are in between;
\* MOVE and MOVEQ, which set them on the 680x0, do not in the translation.
BranchRight ==
    ~gap /\ setter \in {"subq", "tst"} => x86.z = m68k.z
=============================================================================
