---------------------------- MODULE OpcodeDecode ----------------------------
(***************************************************************************)
(* One instruction in translate_tu(): looking up its handler, extracting   *)
(* its operands, writing the x86 code.                                     *)
(*                                                                         *)
(* An opcode is the tuple of its five bit fields.  A long word is the pair *)
(* of its two words.  An x86 register has its number in the enumerations   *)
(* of codegen.h: R8D .. R15D are 0 .. 7, EAX .. EDI are 8 .. 15.           *)
(***************************************************************************)
EXTENDS Integers, Sequences

CONSTANTS Opcodes,   \* the opcodes considered
          Word,      \* the values an extension word may have
          Junk       \* what was on the stack

Field  == 0 .. 7
Opcode == [line : 0 .. 15, reg : Field, opm : Field, mode : Field, ea : Field]

ASSUME OpcodesAssumption == Opcodes \subseteq Opcode
ASSUME WordAssumption    == \A w \in Word : w \in Nat /\ w < 65536
ASSUME JunkAssumption    == Junk \notin Int

Quick(o)   == o.reg                                     \* bits 11-9
LowByte(o) == 64 * (o.opm % 4) + 8 * o.mode + o.ea      \* bits 7-0

SignedByte(b) == IF b < 128 THEN b ELSE b - 256
SignedWord(w) == IF w < 32768 THEN w ELSE w - 65536
SignedLong(l) == SignedWord(l[1]) * 65536 + l[2]
\* The pair of words of a signed number of eight or sixteen bits.
Extend(n) == IF n >= 0 THEN <<0, n>> ELSE <<65535, 65536 + n>>

-----------------------------------------------------------------------------
(* opcode_info_tbl and the lookup table built from it                      *)

\* Effective addresses, as the bits of an address mode mask tell them apart.
EaNone == "none"
Ea == {"Dn", "An", "(An)", "(An)+", "-(An)", "d(An)", "d(An,Xn)",
       "abs.w", "abs.l", "d(PC)", "d(PC,Xn)", "imm"}
EaOf(mode, r) ==
    IF mode < 7
    THEN <<"Dn", "An", "(An)", "(An)+", "-(An)", "d(An)", "d(An,Xn)">>[mode + 1]
    ELSE <<"abs.w", "abs.l", "d(PC)", "d(PC,Xn)", "imm",
           EaNone, EaNone, EaNone>>[r + 1]

Unmasked      == Ea \cup {EaNone}                                    \* 0x000
DataAlterable == Ea \ {"An", "imm", "d(PC)", "d(PC,Xn)"}              \* 0xbf8
Alterable     == Ea \ {"imm", "d(PC)", "d(PC,Xn)"}                    \* 0xff8
Control       == {"(An)", "d(An)", "d(An,Xn)", "abs.w", "abs.l",
                  "d(PC)", "d(PC,Xn)"}                                \* 0x27b

Entry(h, eas) == [handler |-> h, eas |-> eas]
OpcodeInfoTbl == <<
    Entry("rts",    Unmasked),     Entry("tst",    DataAlterable),
    Entry("jsr",    Control),      Entry("subq",   Alterable),
    Entry("movea",  Ea),           Entry("moveq",  Unmasked),
    Entry("bcc",    Unmasked),     Entry("move.b", Ea \ {"An"}),
    Entry("move.w", Ea),           Entry("move.l", Ea) >>
Rows == 1 .. 10

\* (opcode & opc_mask) == opc_match
Matches(o, h) ==
    CASE h = "rts"    -> /\ o.line = 4 /\ o.reg = 7 /\ o.opm = 1
                         /\ o.mode = 6 /\ o.ea = 5
      [] h = "tst"    -> o.line = 4 /\ o.reg = 5 /\ o.opm = 2
      [] h = "jsr"    -> o.line = 4 /\ o.reg = 7 /\ o.opm = 2
      [] h = "subq"   -> o.line = 5 /\ o.opm = 6
      [] h = "movea"  -> o.line = 2 /\ o.opm = 1
      [] h = "moveq"  -> o.line = 7 /\ o.opm < 4
      [] h = "bcc"    -> o.line = 6
      [] h = "move.b" -> o.line = 1
      [] h = "move.w" -> o.line = 3
      [] h = "move.l" -> o.line = 2

Move == {"move.b", "move.w", "move.l"}

\* Mutant: the destination of a MOVE is not looked at.
AppliesToAnyMove(o, e) ==
    /\ Matches(o, e.handler)
    /\ EaOf(o.mode, o.ea) \in e.eas

\* A row applies if the operands' address modes are valid for it as well; the
\* destination of a MOVE has mode and register swapped.
Applies(o, e) ==
    /\ Matches(o, e.handler)
    /\ e.handler \in Move => EaOf(o.opm, o.reg) \in DataAlterable
    /\ EaOf(o.mode, o.ea) \in e.eas

\* The handler of the first row that applies, or NULL.
Lookup(o) ==
    IF \E i \in Rows : Applies(o, OpcodeInfoTbl[i])
    THEN OpcodeInfoTbl[CHOOSE i \in Rows :
            /\ Applies(o, OpcodeInfoTbl[i])
            /\ \A j \in 1 .. i - 1 : ~Applies(o, OpcodeInfoTbl[j])].handler
    ELSE "NULL"

-----------------------------------------------------------------------------
(* extract_operand()                                                       *)

OpType == {"dreg", "areg", "mem", "imm", "areg_offset"}
\* The value is a long word, a register number too.
Operand(type, value) == [type |-> type, value |-> value]

\* A structure on the stack that nothing has been written to.
Uninitialized ==
    {Operand(t, v) : t \in OpType \cup {"other"}, v \in {<<Junk, Junk>>, <<0, 6>>}}

\* The number of bytes used, the operand, and the words read.
Extraction(n, operand, words) ==
    [nbytes |-> n, op |-> operand, words |-> words]
ExtractOperand(mode, r) ==
    CASE mode = 0 -> {Extraction(0, Operand("dreg", <<0, r>>), <<>>)}
      [] mode = 1 -> {Extraction(0, Operand("areg", <<0, r>>), <<>>)}
      [] mode = 5 -> {Extraction(0, Operand("areg_offset", <<0, r>>), <<>>)}
      [] mode = 7 /\ r = 0 ->
           {Extraction(2, Operand("mem", <<0, w>>), <<w>>) : w \in Word}
      [] mode = 7 /\ r = 1 ->
           {Extraction(4, Operand("mem", l), l) : l \in Word \X Word}
      [] mode = 7 /\ r = 4 ->
           {Extraction(4, Operand("imm", l), l) : l \in Word \X Word}
      [] OTHER -> {Extraction(-1, op, <<>>) : op \in Uninitialized}

NotExtracted == Extraction(0, Operand("other", <<Junk, Junk>>), <<>>)

-----------------------------------------------------------------------------
(* x86 code                                                                *)

Reg(n) == [reg |-> n]
Mem(l) == [mem |-> l]
Imm(l) == [imm |-> l]

\* Mutant: A4 and A7 are not swapped.
AregUnswapped(r) == Reg(8 + r)

\* Data registers are R8D .. R15D; of the address registers, A4 and A7 are
\* swapped so that A7 is ESP.
Dreg(r) == Reg(r)
Areg(r) == Reg(8 + (CASE r = 4 -> 7 [] r = 7 -> 4 [] OTHER -> r))

Code(op, from, to) == [op |-> op, from |-> from, to |-> to]
NoCode   == Code("none", Imm(<<0, 0>>), Imm(<<0, 0>>))
HalfCode == Code("half", Imm(<<0, 0>>), Imm(<<0, 0>>))
Ret      == Code("ret",  Imm(<<0, 0>>), Imm(<<0, 0>>))

AbsExecBase == <<48, 0>>      \* 0x00300000

VARIABLES opcode,    \* the opcode read
          handler,   \* its handler
          phase,     \* what comes next
          src,       \* extraction of the operand, of a MOVE the source
          dst,       \* extraction of a MOVE's destination
          ext,       \* other extension words the handler has read
          nbytes,    \* result of the handler
          out        \* x86 code written

vars == <<opcode, handler, phase, src, dst, ext, nbytes, out>>

Phase == {"lookup", "size", "source", "destination", "write", "done", "rejected"}

Init ==
    /\ opcode \in Opcodes
    /\ handler = "NULL"
    /\ phase = "lookup"
    /\ src = NotExtracted /\ dst = NotExtracted /\ ext = <<>>
    /\ nbytes = 0
    /\ out = NoCode

HasOperand == {"tst", "jsr", "subq", "movea"} \cup Move

LookUpHandler ==
    /\ phase = "lookup"
    /\ handler' = Lookup(opcode)
    /\ phase' = CASE handler' = "NULL"        -> "rejected"
                  [] handler' \in HasOperand  -> "size"
                  [] OTHER                    -> "write"
    /\ UNCHANGED <<opcode, src, dst, ext, nbytes, out>>

\* The handler returns n, and translate_tu() goes on or gives up.
Return(n) ==
    /\ nbytes' = n
    /\ phase' = IF n = -1 THEN "rejected" ELSE "done"

\* Bits 13-12 of MOVE and MOVEA give the size, bits 7-6 of SUBQ and TST.
IsLong ==
    CASE handler \in Move \cup {"movea"}  -> opcode.line % 4 = 2
      [] handler \in {"subq", "tst"}      -> opcode.opm % 4 = 2
      [] OTHER                            -> TRUE

CheckSize ==
    /\ phase = "size"
    /\ \/ IsLong  /\ phase' = "source" /\ nbytes' = nbytes
       \/ ~IsLong /\ Return(-1)
    /\ UNCHANGED <<opcode, handler, src, dst, ext, out>>

ExtractSource ==
    /\ phase = "source"
    /\ src' \in ExtractOperand(opcode.mode, opcode.ea)
    /\ phase' = IF handler \in Move THEN "destination" ELSE "write"
    /\ UNCHANGED <<opcode, handler, dst, ext, nbytes, out>>

ExtractDestination ==
    /\ phase = "destination"
    /\ dst' \in ExtractOperand(opcode.opm, opcode.reg)
    /\ phase' = "write"
    /\ UNCHANGED <<opcode, handler, src, ext, nbytes, out>>

Writing(h) == phase = "write" /\ handler \in h
Rejects    == Return(-1) /\ UNCHANGED <<ext, out>>
Extracted  == UNCHANGED <<opcode, handler, src, dst>>

WriteRts ==
    /\ Writing({"rts"})
    /\ out' = Ret
    /\ Return(0)
    /\ Extracted /\ UNCHANGED ext

WriteMoveq ==
    /\ Writing({"moveq"})
    /\ out' = Code("mov", Imm(Extend(SignedByte(LowByte(opcode)))), Dreg(opcode.reg))
    /\ Return(0)
    /\ Extracted /\ UNCHANGED ext

\* The number of bytes used by the operand is overwritten.
WriteJsr ==
    /\ Writing({"jsr"})
    /\ \/ src.op.type # "areg_offset" /\ Rejects
       \/ /\ src.op.type = "areg_offset"
          /\ \E w \in Word :
                /\ ext' = <<w>>
                /\ IF src.op.value = <<0, 6>>
                   THEN /\ out' = Code("call", Imm(Extend(SignedWord(w))), Areg(6))
                        /\ Return(2)
                   ELSE out' = out /\ Return(-1)
    /\ Extracted

\* Mutant: the result of extract_operand() is not returned.
OperandBytesUnchecked == 0

OperandBytes == src.nbytes

\* AbsExecBase is at another address here than in AmigaOS.
WriteMovea ==
    /\ Writing({"movea"})
    /\ LET op == src.op
       IN  \/ /\ op.type = "mem"
              /\ out' = Code("mov",
                             Mem(IF op.value = <<0, 4>> THEN AbsExecBase ELSE op.value),
                             Areg(opcode.reg))
              /\ Return(OperandBytes) /\ ext' = ext
           \/ /\ op.type = "imm"
              /\ out' = Code("mov", Imm(op.value), Areg(opcode.reg))
              /\ Return(OperandBytes) /\ ext' = ext
           \/ op.type \notin {"mem", "imm"} /\ Rejects
    /\ Extracted

Loc(op) == CASE op.type = "mem" -> Mem(op.value)
             [] op.type = "imm" -> Imm(op.value)
             [] OTHER           -> Dreg(op.value[2])

MoveCombinations == {"mem", "imm", "dreg"} \X {"dreg"} \cup {<<"dreg", "mem">>}

\* Mutant: the two bytes of the opcode are counted too.
MoveBytesWithOpcode == src.nbytes + dst.nbytes + 2

MoveBytes == src.nbytes + dst.nbytes

WriteMove ==
    /\ Writing(Move)
    /\ \/ /\ <<src.op.type, dst.op.type>> \in MoveCombinations
          /\ out' = Code("mov", Loc(src.op), Loc(dst.op))
          /\ Return(MoveBytes)
          /\ ext' = ext
       \/ <<src.op.type, dst.op.type>> \notin MoveCombinations /\ Rejects
    /\ Extracted

WriteDreg ==
    /\ Writing({"subq", "tst"})
    /\ \/ /\ src.op.type = "dreg"
          /\ out' = IF handler = "subq"
                    THEN Code("sub", Imm(<<0, Quick(opcode)>>), Dreg(src.op.value[2]))
                    ELSE Code("test", Dreg(src.op.value[2]), Dreg(src.op.value[2]))
          /\ Return(OperandBytes)
          /\ ext' = ext
       \/ src.op.type # "dreg" /\ Rejects
    /\ Extracted

\* Bits 11-8 of a Bcc: 6 is BNE, 7 is BEQ.
Condition(o) == 2 * o.reg + o.opm \div 4

\* Mutant: there are no long branches.
BranchBytesShort(o) == IF LowByte(o) = 0 THEN 2 ELSE 0

\* The bytes of displacement behind the opcode.
BranchBytes(o) == CASE LowByte(o) = 0   -> 2
                    [] LowByte(o) = 255 -> 4
                    [] OTHER            -> 0

\* The target, counted from the opcode: the position after the displacement,
\* plus the displacement, less the bytes it takes.
\* (TransUnits has the two calls of setup_tu(), which succeed here.)
WriteBcc ==
    /\ Writing({"bcc"})
    /\ LET n == BranchBytes(opcode)
       IN  /\ ext' \in [1 .. n \div 2 -> Word]
           /\ LET offset == CASE n = 2 -> SignedWord(ext'[1])
                              [] n = 4 -> SignedLong(ext')
                              [] n = 0 -> SignedByte(LowByte(opcode))
              IN  IF Condition(opcode) \in {6, 7}
                  THEN /\ out' = [op |-> "jcc", eq |-> Condition(opcode) = 7,
                                  taken |-> ((2 + n) + offset) - n,
                                  notTaken |-> 2 + n]
                       /\ Return(n)
                  ELSE out' = HalfCode /\ Return(-1)
    /\ Extracted

Write == WriteRts \/ WriteMoveq \/ WriteJsr \/ WriteMovea \/ WriteMove
         \/ WriteDreg \/ WriteBcc

\* translate_tu() takes the next opcode, or has given up.
Ended == phase \in {"done", "rejected"} /\ UNCHANGED vars

Next == LookUpHandler \/ CheckSize \/ ExtractSource \/ ExtractDestination
        \/ Write \/ Ended

Spec == Init /\ [][Next]_vars

-----------------------------------------------------------------------------
(* What the 680x0 makes of the same words                                  *)

\* Extension words of an operand, the operation being long.
EaWords(e) ==
    CASE e \in {"d(An)", "d(An,Xn)", "abs.w", "d(PC)", "d(PC,Xn)"} -> 1
      [] e \in {"abs.l", "imm"} -> 2
      [] OTHER -> 0
SourceEa      == EaOf(opcode.mode, opcode.ea)
DestinationEa == EaOf(opcode.opm, opcode.reg)
InstrWords ==
    CASE handler \in Move -> EaWords(SourceEa) + EaWords(DestinationEa)
      [] handler \in {"tst", "jsr", "subq", "movea"} -> EaWords(SourceEa)
      [] handler = "bcc" -> (CASE LowByte(opcode) = 0   -> 1
                               [] LowByte(opcode) = 255 -> 2
                               [] OTHER                 -> 0)
      [] OTHER -> 0

\* x86_reg_for_m68k_reg, by which thunks and stubs find the guest's registers.
X86Reg == <<0, 1, 2, 3, 4, 5, 6, 7, 8, 9, 10, 11, 15, 13, 14, 12>>
D(n) == Reg(X86Reg[n + 1])
A(n) == Reg(X86Reg[n + 9])

\* Where an operand is: a register, or a place in memory; AmigaOS keeps the
\* base of Exec at address 4, VADM elsewhere.
Location(e, r, words) ==
    CASE e = "Dn"    -> D(r)
      [] e = "An"    -> A(r)
      [] e = "abs.w" -> Mem(Extend(SignedWord(words[1])))
      [] e = "abs.l" -> Mem(words)
      [] e = "imm"   -> Imm(words)
      [] OTHER       -> NoCode
Relocated(l) == IF l = Mem(<<0, 4>>) THEN Mem(AbsExecBase) ELSE l

WordsRead == src.words \o dst.words \o ext
SourceWords == SubSeq(WordsRead, 1, EaWords(SourceEa))
Source      == Location(SourceEa, opcode.ea, SourceWords)
Destination == Location(DestinationEa, opcode.reg,
                   SubSeq(WordsRead, EaWords(SourceEa) + 1, Len(WordsRead)))
Displacement == CASE LowByte(opcode) = 0   -> SignedWord(WordsRead[1])
                  [] LowByte(opcode) = 255 -> SignedLong(WordsRead)
                  [] OTHER                 -> SignedByte(LowByte(opcode))
Expected ==
    CASE handler \in Move   -> Code("mov", Relocated(Source), Relocated(Destination))
      [] handler = "movea"  -> Code("mov", Relocated(Source), A(opcode.reg))
      [] handler = "moveq"  -> Code("mov", Imm(Extend(SignedByte(LowByte(opcode)))),
                                    D(opcode.reg))
      [] handler = "subq"   -> Code("sub", Imm(<<0, IF opcode.reg = 0 THEN 8
                                                    ELSE opcode.reg>>), Source)
      [] handler = "tst"    -> Code("test", Source, Source)
      [] handler = "jsr"    -> Code("call", Imm(Extend(SignedWord(SourceWords[1]))),
                                    A(opcode.ea))
      [] handler = "bcc"    -> [op |-> "jcc", eq |-> Condition(opcode) = 7,
                                taken |-> 2 + Displacement,
                                notTaken |-> 2 + 2 * Len(WordsRead)]
      [] handler = "rts"    -> Ret

-----------------------------------------------------------------------------
(* Properties                                                              *)

OperandType ==
    [type : OpType \cup {"other"},
     value : {0, Junk} \X (Word \cup Field \cup {Junk}) \cup Word \X Word]
TypeOK ==
    /\ opcode \in Opcodes
    /\ handler \in {OpcodeInfoTbl[i].handler : i \in Rows} \cup {"NULL"}
    /\ phase \in Phase
    /\ \A x \in {src, dst} : /\ x.nbytes \in {-1, 0, 2, 4}
                             /\ x.op \in OperandType
                             /\ x.words \in Seq(Word)
    /\ ext \in Seq(Word)
    /\ nbytes \in -2 .. 4

\* The comment on opcode_info_tbl has its rows sorted "to ensure the longest
\* match wins": whatever their order, no opcode has two handlers to choose from.
OneHandler ==
    phase = "lookup" => \A i, j \in Rows :
        Applies(opcode, OpcodeInfoTbl[i]) /\ Applies(opcode, OpcodeInfoTbl[j]) => i = j

AllExtracted == src.nbytes # -1 /\ dst.nbytes # -1
Accepted     == phase = "done"

\* translate_tu() takes the next opcode from where the 680x0 would: an
\* instruction that is accepted has read exactly its own extension words.
InStep ==
    Accepted /\ AllExtracted =>
        Len(WordsRead) = InstrWords /\ nbytes = 2 * InstrWords

\* The instructions whose x86 code is another one: SUBQ takes 0 for 0, not
\* for 8; a short address is not sign-extended; MOVE does not know that
\* AbsExecBase is elsewhere.
KnownGap ==
    \/ handler = "subq" /\ opcode.reg = 0
    \/ \E x \in {src, dst} : Len(x.words) = 1 /\ x.op.type = "mem"
                             /\ x.words[1] >= 32768
    \/ handler \in Move /\ Mem(<<0, 4>>) \in {out.from, out.to}

\* All other accepted instructions do with their own operands what the 680x0
\* does, in the registers where thunks and stubs expect them, and branches
\* have their own targets.
TranslatedRight ==
    Accepted /\ AllExtracted /\ ~KnownGap => out = Expected

\* An operand that could not be extracted makes the handler fail, except for
\* JSR, and for MOVE if the other operand has an extension or has failed too.
FailureReported ==
    Accepted /\ ~AllExtracted =>
        \/ handler = "jsr"
        \/ handler \in Move /\ (src.nbytes # 0 /\ dst.nbytes # 0)

\* The comment on the handlers says they return the bytes consumed, "or -1 in
\* case of an error".
ErrorsReturned == Accepted => AllExtracted

\* AbsExecBase "can't" be at 4, the comment in vadm.h says: no translated
\* instruction may look for it there.
NothingAtFour ==
    Accepted /\ out.op = "mov" => Mem(<<0, 4>>) \notin {out.from, out.to}
=============================================================================
