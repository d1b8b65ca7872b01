------------------------- MODULE OpcodeDecodeProofs -------------------------
(***************************************************************************)
(* Theorems about OpcodeDecode, for every set of opcodes and every value   *)
(* an extension word may have: the rows of opcode_info_tbl exclude each    *)
(* other, translate_tu() stays in step with the 680x0, and what an         *)
(* accepted instruction is translated to.                                  *)
(***************************************************************************)
EXTENDS OpcodeDecode, SequenceTheorems, TLAPS

-----------------------------------------------------------------------------
(* The rows of the table                                                   *)

Handlers == {"rts", "tst", "jsr", "subq", "movea", "moveq", "bcc"} \cup Move

\* What an opcode a row applies to looks like, in its bit fields.
Fields(o, i) ==
    /\ i \in {1, 2, 3} => o.line = 4
    /\ i = 1  => o.reg = 7 /\ o.opm = 1
    /\ i = 2  => o.reg = 5 /\ o.opm = 2
    /\ i = 3  => o.reg = 7 /\ o.opm = 2
    /\ i = 4  => o.line = 5
    /\ i = 5  => o.line = 2 /\ o.opm = 1
    /\ i = 6  => o.line = 7
    /\ i = 7  => o.line = 6
    /\ i = 8  => o.line = 1
    /\ i = 9  => o.line = 3
    /\ i = 10 => o.line = 2 /\ o.opm # 1

LEMMA RowHandlers ==
    /\ OpcodeInfoTbl[1].handler = "rts"    /\ OpcodeInfoTbl[2].handler = "tst"
    /\ OpcodeInfoTbl[3].handler = "jsr"    /\ OpcodeInfoTbl[4].handler = "subq"
    /\ OpcodeInfoTbl[5].handler = "movea"  /\ OpcodeInfoTbl[6].handler = "moveq"
    /\ OpcodeInfoTbl[7].handler = "bcc"    /\ OpcodeInfoTbl[8].handler = "move.b"
    /\ OpcodeInfoTbl[9].handler = "move.w" /\ OpcodeInfoTbl[10].handler = "move.l"
BY DEF OpcodeInfoTbl, Entry

LEMMA MatchesIs ==
    ASSUME NEW o
    PROVE  /\ Matches(o, "rts") => o.line = 4 /\ o.reg = 7 /\ o.opm = 1
           /\ Matches(o, "tst") => o.line = 4 /\ o.reg = 5 /\ o.opm = 2
           /\ Matches(o, "jsr") => o.line = 4 /\ o.reg = 7 /\ o.opm = 2
           /\ Matches(o, "subq") => o.line = 5
           /\ Matches(o, "movea") => o.line = 2 /\ o.opm = 1
           /\ Matches(o, "moveq") => o.line = 7
           /\ Matches(o, "bcc") => o.line = 6
           /\ Matches(o, "move.b") => o.line = 1
           /\ Matches(o, "move.w") => o.line = 3
           /\ Matches(o, "move.l") => o.line = 2
BY DEF Matches

\* The address modes, by the bits of the operand.
LEMMA EaOfIs ==
    ASSUME NEW r \in Field
    PROVE  /\ EaOf(0, r) = "Dn" /\ EaOf(1, r) = "An" /\ EaOf(5, r) = "d(An)"
           /\ EaOf(7, 0) = "abs.w" /\ EaOf(7, 1) = "abs.l" /\ EaOf(7, 4) = "imm"
<1>1. /\ 0 < 7 /\ 1 < 7 /\ 5 < 7 /\ ~ (7 < 7)
      /\ 0 + 1 = 1 /\ 1 + 1 = 2 /\ 5 + 1 = 6 /\ 4 + 1 = 5
  OBVIOUS
<1>2. /\ EaOf(0, r) = <<"Dn", "An", "(An)", "(An)+", "-(An)", "d(An)", "d(An,Xn)">>[1]
      /\ EaOf(1, r) = <<"Dn", "An", "(An)", "(An)+", "-(An)", "d(An)", "d(An,Xn)">>[2]
      /\ EaOf(5, r) = <<"Dn", "An", "(An)", "(An)+", "-(An)", "d(An)", "d(An,Xn)">>[6]
  BY <1>1, Zenon DEF EaOf
<1> QED BY <1>1, <1>2 DEF EaOf

\* A MOVE to an address register is none: MOVEA comes first.
LEMMA NoMoveToAn ==
    ASSUME NEW o \in Opcode, EaOf(o.opm, o.reg) \in DataAlterable
    PROVE  o.opm # 1
<1>1. EaOf(1, o.reg) = "An"
  BY EaOfIs DEF Opcode
<1>2. "An" \notin DataAlterable
  BY DEF DataAlterable
<1> QED BY <1>1, <1>2

LEMMA RowFields ==
    ASSUME NEW o \in Opcode, NEW i \in Rows, Applies(o, OpcodeInfoTbl[i])
    PROVE  Fields(o, i)
<1>1. Matches(o, OpcodeInfoTbl[i].handler)
  BY DEF Applies
<1>2. CASE i = 10
  <2>1. OpcodeInfoTbl[i].handler = "move.l"
    BY <1>2, RowHandlers
  <2>2. o.opm # 1
    BY <2>1, NoMoveToAn DEF Applies, Move
  <2> QED BY <1>1, <1>2, <2>1, <2>2, MatchesIs DEF Fields
<1>3. CASE i = 1
  BY <1>1, <1>3, RowHandlers, MatchesIs DEF Fields
<1>4. CASE i = 2
  BY <1>1, <1>4, RowHandlers, MatchesIs DEF Fields
<1>5. CASE i = 3
  BY <1>1, <1>5, RowHandlers, MatchesIs DEF Fields
<1>6. CASE i = 4
  BY <1>1, <1>6, RowHandlers, MatchesIs DEF Fields
<1>7. CASE i = 5
  BY <1>1, <1>7, RowHandlers, MatchesIs DEF Fields
<1>8. CASE i = 6
  BY <1>1, <1>8, RowHandlers, MatchesIs DEF Fields
<1>9. CASE i = 7
  BY <1>1, <1>9, RowHandlers, MatchesIs DEF Fields
<1>10. CASE i = 8
  BY <1>1, <1>10, RowHandlers, MatchesIs DEF Fields
<1>11. CASE i = 9
  BY <1>1, <1>11, RowHandlers, MatchesIs DEF Fields
<1> QED BY <1>2, <1>3, <1>4, <1>5, <1>6, <1>7, <1>8, <1>9, <1>10, <1>11 DEF Rows

\* No opcode has two rows, whatever the order of the rows.
LEMMA OneRow ==
    ASSUME NEW o \in Opcode, NEW i \in Rows, NEW j \in Rows,
           Applies(o, OpcodeInfoTbl[i]), Applies(o, OpcodeInfoTbl[j])
    PROVE  i = j
<1>1. Fields(o, i) /\ Fields(o, j)
  BY RowFields
<1> QED BY <1>1 DEF Fields, Rows

\* Lookup finds a row that applies if there is one.
LEMMA LookupFinds ==
    ASSUME NEW o \in Opcode
    PROVE  \/ Lookup(o) = "NULL"
           \/ \E i \in Rows : /\ Applies(o, OpcodeInfoTbl[i])
                              /\ Lookup(o) = OpcodeInfoTbl[i].handler
<1>1. CASE ~ \E i \in Rows : Applies(o, OpcodeInfoTbl[i])
  BY <1>1 DEF Lookup
<1>2. CASE \E i \in Rows : Applies(o, OpcodeInfoTbl[i])
  <2> DEFINE First(i) == /\ Applies(o, OpcodeInfoTbl[i])
                         /\ \A j \in 1 .. i - 1 : ~Applies(o, OpcodeInfoTbl[j])
  <2>1. PICK i \in Rows : Applies(o, OpcodeInfoTbl[i])
    BY <1>2
  <2>2. ASSUME NEW j \in 1 .. i - 1 PROVE ~ Applies(o, OpcodeInfoTbl[j])
    <3>1. j \in Rows /\ j # i
      BY <2>1 DEF Rows
    <3> QED BY <2>1, <3>1, OneRow
  <2>3. \E k \in Rows : First(k)
    BY <2>1, <2>2
  <2>4. Lookup(o) = OpcodeInfoTbl[CHOOSE k \in Rows : First(k)].handler
    BY <1>2, Zenon DEF Lookup
  <2> HIDE DEF First
  <2>5. PICK k \in Rows : k = (CHOOSE j \in Rows : First(j)) /\ First(k)
    BY <2>3, Zenon
  <2>6. Applies(o, OpcodeInfoTbl[k])
    BY <2>5 DEF First
  <2> QED BY <2>4, <2>5, <2>6
<1> QED BY <1>1, <1>2

LEMMA LookupType ==
    ASSUME NEW o \in Opcode
    PROVE  Lookup(o) \in Handlers \cup {"NULL"}
<1>1. \A i \in Rows : OpcodeInfoTbl[i].handler \in Handlers
  BY RowHandlers DEF Rows, Handlers, Move
<1> QED BY <1>1, LookupFinds

LEMMA HandlerSet == {OpcodeInfoTbl[i].handler : i \in Rows} = Handlers
<1>1. \A i \in Rows : OpcodeInfoTbl[i].handler \in Handlers
  BY RowHandlers DEF Rows, Handlers, Move
<1>2. ASSUME NEW h \in Handlers PROVE \E i \in Rows : OpcodeInfoTbl[i].handler = h
  BY RowHandlers DEF Rows, Handlers, Move
<1> QED BY <1>1, <1>2

-----------------------------------------------------------------------------
(* What extract_operand() returns                                          *)

Failure(e) == \E op \in Uninitialized : e = Extraction(-1, op, <<>>)

LEMMA ExtractIs ==
    ASSUME NEW m \in Field, NEW r \in Field, NEW e \in ExtractOperand(m, r)
    PROVE  \/ m = 0 /\ e = Extraction(0, Operand("dreg", <<0, r>>), <<>>)
           \/ m = 1 /\ e = Extraction(0, Operand("areg", <<0, r>>), <<>>)
           \/ m = 5 /\ e = Extraction(0, Operand("areg_offset", <<0, r>>), <<>>)
           \/ m = 7 /\ r = 0
              /\ \E w \in Word : e = Extraction(2, Operand("mem", <<0, w>>), <<w>>)
           \/ m = 7 /\ r = 1
              /\ \E l \in Word \X Word : e = Extraction(4, Operand("mem", l), l)
           \/ m = 7 /\ r = 4
              /\ \E l \in Word \X Word : e = Extraction(4, Operand("imm", l), l)
           \/ Failure(e)
BY Zenon DEF ExtractOperand, Failure, Field

LEMMA WordsInt ==
    ASSUME NEW w \in Word
    PROVE  w \in Int /\ 0 <= w /\ w < 65536
BY WordAssumption

LEMMA UninitializedType == Uninitialized \subseteq OperandType
<1>1. ASSUME NEW t \in OpType \cup {"other"}, NEW v \in {<<Junk, Junk>>, <<0, 6>>}
      PROVE  Operand(t, v) \in OperandType
  <2>1. v \in {0, Junk} \X (Word \cup Field \cup {Junk})
    BY DEF Field
  <2> QED BY <2>1 DEF Operand, OperandType
<1>2. ASSUME NEW op \in Uninitialized PROVE op \in OperandType
  <2>1. PICK t \in OpType \cup {"other"}, v \in {<<Junk, Junk>>, <<0, 6>>} :
           op = Operand(t, v)
    BY DEF Uninitialized
  <2> QED BY <1>1, <2>1
<1> QED BY <1>2

LEMMA PairIsSeq ==
    ASSUME NEW l \in Word \X Word
    PROVE  l \in Seq(Word) /\ Len(l) = 2 /\ l = <<l[1], l[2]>> /\ l[1] \in Word /\ l[2] \in Word
<1>1. PICK a \in Word, b \in Word : l = <<a, b>>
  OBVIOUS
<1>2. l[1] = a /\ l[2] = b
  BY <1>1
<1>3. <<a, b>> \in Seq(Word) /\ Len(<<a, b>>) = 2
  OBVIOUS
<1> QED BY <1>1, <1>2, <1>3

\* Type correctness of every result.
LEMMA ExtractType ==
    ASSUME NEW m \in Field, NEW r \in Field, NEW e \in ExtractOperand(m, r)
    PROVE  /\ e.nbytes \in {-1, 0, 2, 4}
           /\ e.op \in OperandType
           /\ e.words \in Seq(Word)
<1>e. <<>> \in Seq(Word)
  OBVIOUS
<1>0. ASSUME NEW t \in OpType
      PROVE  /\ Operand(t, <<0, r>>) \in OperandType
             /\ \A w \in Word : Operand(t, <<0, w>>) \in OperandType
             /\ \A l \in Word \X Word : Operand(t, l) \in OperandType
  <2>1. /\ <<0, r>> \in {0, Junk} \X (Word \cup Field \cup {Junk})
        /\ \A w \in Word : <<0, w>> \in {0, Junk} \X (Word \cup Field \cup {Junk})
    OBVIOUS
  <2> QED BY <2>1 DEF Operand, OperandType
<1>1. CASE e = Extraction(0, Operand("dreg", <<0, r>>), <<>>)
  BY <1>0, <1>1, <1>e DEF Extraction, OpType
<1>2. CASE e = Extraction(0, Operand("areg", <<0, r>>), <<>>)
  BY <1>0, <1>2, <1>e DEF Extraction, OpType
<1>3. CASE e = Extraction(0, Operand("areg_offset", <<0, r>>), <<>>)
  BY <1>0, <1>3, <1>e DEF Extraction, OpType
<1>4. ASSUME NEW w \in Word, e = Extraction(2, Operand("mem", <<0, w>>), <<w>>)
      PROVE  /\ e.nbytes \in {-1, 0, 2, 4}
             /\ e.op \in OperandType
             /\ e.words \in Seq(Word)
  <2>1. <<w>> \in Seq(Word)
    OBVIOUS
  <2> QED BY <1>0, <1>4, <2>1 DEF Extraction, OpType
<1>5. ASSUME NEW l \in Word \X Word, NEW t \in {"mem", "imm"},
             e = Extraction(4, Operand(t, l), l)
      PROVE  /\ e.nbytes \in {-1, 0, 2, 4}
             /\ e.op \in OperandType
             /\ e.words \in Seq(Word)
  BY <1>0, <1>5, PairIsSeq DEF Extraction, OpType
<1>6. CASE Failure(e)
  BY <1>6, <1>e, UninitializedType DEF Extraction, Failure
<1> QED BY <1>1, <1>2, <1>3, <1>4, <1>5, <1>6, ExtractIs

\* What the words were and what the operand stands for, if it was extracted.
LEMMA ExtractMeans ==
    ASSUME NEW m \in Field, NEW r \in Field, NEW e \in ExtractOperand(m, r),
           e.nbytes # -1
    PROVE  \/ /\ e.op.type = "dreg" /\ m = 0
              /\ e.op.value = <<0, r>> /\ e.words = <<>> /\ e.nbytes = 0
           \/ /\ e.op.type = "areg" /\ m = 1
              /\ e.op.value = <<0, r>> /\ e.words = <<>> /\ e.nbytes = 0
           \/ /\ e.op.type = "areg_offset" /\ m = 5
              /\ e.op.value = <<0, r>> /\ e.words = <<>> /\ e.nbytes = 0
           \/ /\ e.op.type = "mem" /\ m = 7 /\ r = 0 /\ e.nbytes = 2
              /\ \E w \in Word : e.op.value = <<0, w>> /\ e.words = <<w>>
           \/ /\ e.op.type = "mem" /\ m = 7 /\ r = 1 /\ e.nbytes = 4
              /\ e.words \in Word \X Word /\ e.op.value = e.words
           \/ /\ e.op.type = "imm" /\ m = 7 /\ r = 4 /\ e.nbytes = 4
              /\ e.words \in Word \X Word /\ e.op.value = e.words
<1>1. ~ Failure(e)
  BY DEF Failure, Extraction
<1> QED BY <1>1, ExtractIs DEF Extraction, Operand

\* As many words as the address mode has, two bytes each.
LEMMA ExtractWords ==
    ASSUME NEW m \in Field, NEW r \in Field, NEW e \in ExtractOperand(m, r),
           e.nbytes # -1, e.op.type # "areg_offset"
    PROVE  Len(e.words) = EaWords(EaOf(m, r)) /\ e.nbytes = 2 * Len(e.words)
<1>1. /\ EaWords("Dn") = 0 /\ EaWords("An") = 0 /\ EaWords("abs.w") = 1
      /\ EaWords("abs.l") = 2 /\ EaWords("imm") = 2
  BY DEF EaWords
<1>2. Len(<<>>) = 0 /\ \A w \in Word : Len(<<w>>) = 1
  OBVIOUS
<1>3. \A l \in Word \X Word : Len(l) = 2
  BY PairIsSeq
<1>4. CASE e.op.type \in {"dreg", "areg"}
  BY <1>1, <1>2, <1>4, EaOfIs, ExtractMeans
<1>5. CASE e.op.type = "imm"
  <2>1. m = 7 /\ r = 4 /\ e.nbytes = 4 /\ e.words \in Word \X Word
    BY <1>5, ExtractMeans
  <2>2. Len(e.words) = 2
    BY <1>3, <2>1
  <2> QED BY <1>1, <2>1, <2>2, EaOfIs
<1>6. CASE e.op.type = "mem" /\ r = 0
  <2>1. m = 7 /\ e.nbytes = 2 /\ \E w \in Word : e.words = <<w>>
    BY <1>6, ExtractMeans
  <2> QED BY <1>1, <1>2, <1>6, <2>1, EaOfIs
<1>7. CASE e.op.type = "mem" /\ r # 0
  <2>1. m = 7 /\ r = 1 /\ e.nbytes = 4 /\ e.words \in Word \X Word
    BY <1>7, ExtractMeans
  <2>2. Len(e.words) = 2
    BY <1>3, <2>1
  <2> QED BY <1>1, <2>1, <2>2, EaOfIs
<1> QED BY <1>4, <1>5, <1>6, <1>7, ExtractMeans

-----------------------------------------------------------------------------
(* The inductive invariant                                                 *)

SrcKnown == src \in ExtractOperand(opcode.mode, opcode.ea)
DstKnown == dst \in ExtractOperand(opcode.opm, opcode.reg)

\* How far the handler has come, and what it has read till then.
PhaseInv ==
    /\ IF phase = "lookup" THEN handler = "NULL" ELSE handler = Lookup(opcode)
    /\ phase \in {"size", "source"} => handler \in HasOperand
    /\ phase = "destination" => handler \in Move
    /\ phase \in {"write", "done"} => handler # "NULL"
    /\ src = NotExtracted \/ SrcKnown
    /\ dst = NotExtracted \/ DstKnown
    /\ phase = "destination" => SrcKnown
    /\ phase \in {"write", "done"} =>
          /\ IF handler \in HasOperand THEN SrcKnown ELSE src = NotExtracted
          /\ IF handler \in Move THEN DstKnown ELSE dst = NotExtracted
    /\ phase \in {"lookup", "size", "source"} => src = NotExtracted
    /\ phase \in {"lookup", "size", "source", "destination"} => dst = NotExtracted
    /\ phase \notin {"done", "rejected"} => ext = <<>>

\* What an instruction that is accepted has returned and written, handler by
\* handler.
DoneRts   == nbytes = 0 /\ ext = <<>> /\ out = Ret
DoneMoveq ==
    /\ nbytes = 0 /\ ext = <<>>
    /\ out = Code("mov", Imm(Extend(SignedByte(LowByte(opcode)))), Dreg(opcode.reg))
DoneJsr ==
    /\ nbytes = 2 /\ src.op.type = "areg_offset" /\ src.op.value = <<0, 6>>
    /\ \E w \in Word : /\ ext = <<w>>
                       /\ out = Code("call", Imm(Extend(SignedWord(w))), Areg(6))
DoneMovea ==
    /\ nbytes = src.nbytes /\ nbytes # -1 /\ ext = <<>>
    /\ \/ /\ src.op.type = "mem"
          /\ out = Code("mov",
                        Mem(IF src.op.value = <<0, 4>> THEN AbsExecBase ELSE src.op.value),
                        Areg(opcode.reg))
       \/ src.op.type = "imm" /\ out = Code("mov", Imm(src.op.value), Areg(opcode.reg))
DoneMove ==
    /\ nbytes = src.nbytes + dst.nbytes /\ nbytes # -1 /\ ext = <<>>
    /\ <<src.op.type, dst.op.type>> \in MoveCombinations
    /\ out = Code("mov", Loc(src.op), Loc(dst.op))
DoneDreg ==
    /\ nbytes = src.nbytes /\ nbytes # -1 /\ ext = <<>>
    /\ src.op.type = "dreg"
    /\ out = IF handler = "subq"
             THEN Code("sub", Imm(<<0, Quick(opcode)>>), Dreg(src.op.value[2]))
             ELSE Code("test", Dreg(src.op.value[2]), Dreg(src.op.value[2]))
BranchOffset(e) ==
    CASE BranchBytes(opcode) = 2 -> SignedWord(e[1])
      [] BranchBytes(opcode) = 4 -> SignedLong(e)
      [] BranchBytes(opcode) = 0 -> SignedByte(LowByte(opcode))
DoneBcc ==
    /\ nbytes = BranchBytes(opcode)
    /\ ext \in [1 .. BranchBytes(opcode) \div 2 -> Word]
    /\ Condition(opcode) \in {6, 7}
    /\ out = [op |-> "jcc", eq |-> Condition(opcode) = 7,
              taken |-> ((2 + BranchBytes(opcode)) + BranchOffset(ext))
                           - BranchBytes(opcode),
              notTaken |-> 2 + BranchBytes(opcode)]

ResultInv ==
    phase = "done" =>
        /\ handler = "rts"   => DoneRts
        /\ handler = "moveq" => DoneMoveq
        /\ handler = "jsr"   => DoneJsr
        /\ handler = "movea" => DoneMovea
        /\ handler \in Move  => DoneMove
        /\ handler \in {"subq", "tst"} => DoneDreg
        /\ handler = "bcc"   => DoneBcc

Inv == TypeOK /\ PhaseInv /\ ResultInv

\* The part of the type invariant that is about extractions.
ExtractionOK(x) ==
    x.nbytes \in {-1, 0, 2, 4} /\ x.op \in OperandType /\ x.words \in Seq(Word)

LEMMA ExtractionType ==
    ASSUME NEW m \in Field, NEW r \in Field, NEW x,
           x = NotExtracted \/ x \in ExtractOperand(m, r)
    PROVE  ExtractionOK(x)
<1>1. CASE x = NotExtracted
  <2>1. <<Junk, Junk>> \in {0, Junk} \X (Word \cup Field \cup {Junk}) /\ <<>> \in Seq(Word)
    OBVIOUS
  <2>2. Operand("other", <<Junk, Junk>>) \in OperandType
    BY <2>1 DEF Operand, OperandType
  <2> QED BY <1>1, <2>1, <2>2 DEF NotExtracted, Extraction, ExtractionOK
<1>2. CASE x \in ExtractOperand(m, r)
  BY <1>2, ExtractType DEF ExtractionOK
<1> QED BY <1>1, <1>2

LEMMA OpcodeFields ==
    ASSUME NEW o \in Opcodes
    PROVE  /\ o \in Opcode /\ o.line \in 0 .. 15
           /\ o.reg \in Field /\ o.opm \in Field /\ o.mode \in Field /\ o.ea \in Field
BY OpcodesAssumption DEF Opcode

\* What is left of the type invariant when the phases are right.
LEMMA TypeFromPhase ==
    ASSUME opcode \in Opcodes, PhaseInv, phase \in Phase, ext \in Seq(Word),
           nbytes \in -2 .. 4
    PROVE  TypeOK
<1>0. /\ opcode \in Opcode /\ opcode.opm \in Field /\ opcode.reg \in Field
      /\ opcode.mode \in Field /\ opcode.ea \in Field
  BY OpcodeFields
<1>1. handler \in Handlers \cup {"NULL"}
  BY <1>0, LookupType DEF PhaseInv
<1>2. ExtractionOK(src)
  BY <1>0, ExtractionType DEF PhaseInv, SrcKnown
<1>3. ExtractionOK(dst)
  BY <1>0, ExtractionType DEF PhaseInv, DstKnown
<1> QED BY <1>1, <1>2, <1>3, HandlerSet DEF TypeOK, ExtractionOK

LEMMA InvInit ==
    ASSUME Init
    PROVE  Inv
<1>1. PhaseInv
  BY DEF Init, PhaseInv
<1>2. ResultInv
  BY DEF Init, ResultInv
<1>3. opcode \in Opcodes /\ phase \in Phase /\ ext \in Seq(Word) /\ nbytes \in -2 .. 4
  BY DEF Init, Phase
<1>4. TypeOK
  BY <1>1, <1>3, TypeFromPhase
<1> QED BY <1>1, <1>2, <1>4 DEF Inv

LEMMA TypeStep ==
    ASSUME Inv, opcode' = opcode, PhaseInv', phase' \in Phase, ext' \in Seq(Word),
           nbytes' \in -2 .. 4
    PROVE  TypeOK'
<1>0. /\ opcode' \in Opcodes /\ opcode' \in Opcode
      /\ opcode'.opm \in Field /\ opcode'.reg \in Field
      /\ opcode'.mode \in Field /\ opcode'.ea \in Field
  BY OpcodeFields DEF Inv, TypeOK
<1>1. handler' \in Handlers \cup {"NULL"}
  BY <1>0, LookupType DEF PhaseInv
<1>2. ExtractionOK(src')
  BY <1>0, ExtractionType DEF PhaseInv, SrcKnown
<1>3. ExtractionOK(dst')
  BY <1>0, ExtractionType DEF PhaseInv, DstKnown
<1> QED BY <1>0, <1>1, <1>2, <1>3, HandlerSet DEF TypeOK, ExtractionOK

LEMMA LookUpStep ==
    ASSUME Inv, LookUpHandler
    PROVE  Inv'
<1>1. /\ phase = "lookup" /\ handler' = Lookup(opcode)
      /\ UNCHANGED <<opcode, src, dst, ext, nbytes, out>>
  BY DEF LookUpHandler
<1>2. \/ handler' = "NULL" /\ phase' = "rejected"
      \/ handler' \in HasOperand /\ phase' = "size"
      \/ handler' # "NULL" /\ handler' \notin HasOperand /\ phase' = "write"
  BY DEF LookUpHandler, HasOperand, Move
<1>3. PhaseInv /\ TypeOK
  BY DEF Inv
<1>a. src = NotExtracted /\ dst = NotExtracted /\ ext = <<>>
  BY <1>1, <1>3 DEF PhaseInv
<1>4. PhaseInv'
  BY <1>1, <1>2, <1>3, <1>a DEF PhaseInv, HasOperand
<1>5. ResultInv'
  BY <1>2 DEF ResultInv
<1>6. TypeOK'
  BY <1>1, <1>2, <1>3, <1>4, TypeStep DEF TypeOK, Phase
<1> QED BY <1>4, <1>5, <1>6 DEF Inv

LEMMA SizeStep ==
    ASSUME Inv, CheckSize
    PROVE  Inv'
<1>1. /\ phase = "size"
      /\ \/ phase' = "source" /\ nbytes' = nbytes
         \/ phase' = "rejected" /\ nbytes' = -1
      /\ UNCHANGED <<opcode, handler, src, dst, ext, out>>
  BY DEF CheckSize, Return
<1>2. PhaseInv /\ TypeOK
  BY DEF Inv
<1>3. PhaseInv'
  BY <1>1, <1>2 DEF PhaseInv
<1>4. ResultInv'
  BY <1>1 DEF ResultInv
<1>5. TypeOK'
  BY <1>1, <1>2, <1>3, TypeStep DEF TypeOK, Phase
<1> QED BY <1>3, <1>4, <1>5 DEF Inv

LEMMA SourceStep ==
    ASSUME Inv, ExtractSource
    PROVE  Inv'
<1>1. /\ phase = "source"
      /\ phase' = IF handler \in Move THEN "destination" ELSE "write"
      /\ UNCHANGED <<opcode, handler, dst, ext, nbytes, out>>
      /\ SrcKnown'
  BY DEF ExtractSource, SrcKnown
<1>2. PhaseInv /\ TypeOK
  BY DEF Inv
<1>3. handler \in HasOperand /\ handler # "NULL" /\ handler = Lookup(opcode)
      /\ dst = NotExtracted /\ ext = <<>>
  BY <1>1, <1>2 DEF PhaseInv, HasOperand, Move
<1>4. PhaseInv'
  BY <1>1, <1>3 DEF PhaseInv
<1>5. ResultInv'
  BY <1>1 DEF ResultInv
<1>6. TypeOK'
  BY <1>1, <1>2, <1>4, TypeStep DEF TypeOK, Phase
<1> QED BY <1>4, <1>5, <1>6 DEF Inv

LEMMA DestinationStep ==
    ASSUME Inv, ExtractDestination
    PROVE  Inv'
<1>1. /\ phase = "destination" /\ phase' = "write"
      /\ UNCHANGED <<opcode, handler, src, ext, nbytes, out>>
      /\ DstKnown'
  BY DEF ExtractDestination, DstKnown
<1>2. PhaseInv /\ TypeOK
  BY DEF Inv
<1>3. handler \in Move /\ handler \in HasOperand /\ handler # "NULL"
      /\ handler = Lookup(opcode) /\ SrcKnown /\ ext = <<>>
  BY <1>1, <1>2 DEF PhaseInv, HasOperand, Move
<1>s. SrcKnown'
  BY <1>1, <1>3 DEF SrcKnown
<1>4. PhaseInv'
  BY <1>1, <1>3, <1>s DEF PhaseInv
<1>5. ResultInv'
  BY <1>1 DEF ResultInv
<1>6. TypeOK'
  BY <1>1, <1>2, <1>4, TypeStep DEF TypeOK, Phase
<1> QED BY <1>4, <1>5, <1>6 DEF Inv

\* The handlers leave behind what has been looked up and extracted.
LEMMA WritePhase ==
    ASSUME Inv, phase = "write", Extracted, phase' \in {"done", "rejected"}
    PROVE  PhaseInv'
<1>1. PhaseInv /\ UNCHANGED <<opcode, handler, src, dst>>
  BY DEF Inv, Extracted
<1>2. /\ handler = Lookup(opcode) /\ handler # "NULL"
      /\ IF handler \in HasOperand THEN SrcKnown ELSE src = NotExtracted
      /\ IF handler \in Move THEN DstKnown ELSE dst = NotExtracted
  BY <1>1 DEF PhaseInv
<1>3. (SrcKnown <=> SrcKnown') /\ (DstKnown <=> DstKnown')
  BY <1>1 DEF SrcKnown, DstKnown
<1> QED BY <1>1, <1>2, <1>3 DEF PhaseInv

\* With the extraction known, what is left to show of a handler's step.
LEMMA WriteStep ==
    ASSUME Inv, phase = "write", Extracted, phase' \in {"done", "rejected"},
           ext' \in Seq(Word), nbytes' \in -2 .. 4, ResultInv'
    PROVE  Inv'
<1>1. PhaseInv'
  BY WritePhase
<1>2. TypeOK'
  BY <1>1, TypeStep DEF Extracted, Phase
<1> QED BY <1>1, <1>2 DEF Inv

\* A handler that gives up.
LEMMA RejectStep ==
    ASSUME Inv, phase = "write", Extracted, phase' = "rejected", nbytes' = -1,
           ext' \in Seq(Word)
    PROVE  Inv'
BY WriteStep DEF ResultInv

LEMMA WriteFacts ==
    ASSUME Inv, phase = "write"
    PROVE  /\ ext = <<>> /\ ext \in Seq(Word)
           /\ ExtractionOK(src) /\ ExtractionOK(dst)
           /\ handler \in HasOperand => SrcKnown
           /\ handler \in Move => DstKnown
BY DEF Inv, PhaseInv, TypeOK, ExtractionOK

LEMMA RtsStep ==
    ASSUME Inv, WriteRts
    PROVE  Inv'
<1>1. /\ phase = "write" /\ handler = "rts" /\ out' = Ret /\ Extracted
      /\ ext' = ext /\ nbytes' = 0 /\ phase' = "done"
  BY DEF WriteRts, Writing, Return
<1>2. handler' = "rts"
  BY <1>1 DEF Extracted
<1>3. ResultInv'
  BY <1>1, <1>2, WriteFacts DEF ResultInv, DoneRts, Move
<1> QED BY <1>1, <1>3, WriteStep, WriteFacts

LEMMA MoveqStep ==
    ASSUME Inv, WriteMoveq
    PROVE  Inv'
<1>1. /\ phase = "write" /\ handler = "moveq" /\ Extracted
      /\ out' = Code("mov", Imm(Extend(SignedByte(LowByte(opcode)))), Dreg(opcode.reg))
      /\ ext' = ext /\ nbytes' = 0 /\ phase' = "done"
  BY DEF WriteMoveq, Writing, Return
<1>2. handler' = "moveq" /\ opcode' = opcode
  BY <1>1 DEF Extracted
<1>3. DoneMoveq'
  BY <1>1, <1>2, WriteFacts DEF DoneMoveq
<1>4. ResultInv'
  BY <1>2, <1>3 DEF ResultInv, Move
<1> QED BY <1>1, <1>4, WriteStep, WriteFacts

LEMMA JsrStep ==
    ASSUME Inv, WriteJsr
    PROVE  Inv'
<1>1. /\ phase = "write" /\ handler = "jsr" /\ Extracted
      /\ \/ /\ phase' = "rejected" /\ nbytes' = -1 /\ ext' = ext
         \/ \E w \in Word : /\ phase' = "rejected" /\ nbytes' = -1 /\ ext' = <<w>>
         \/ \E w \in Word :
               /\ phase' = "done" /\ nbytes' = 2 /\ ext' = <<w>>
               /\ src.op.type = "areg_offset" /\ src.op.value = <<0, 6>>
               /\ out' = Code("call", Imm(Extend(SignedWord(w))), Areg(6))
  BY DEF WriteJsr, Writing, Return, Rejects
<1>2. handler' = "jsr" /\ opcode' = opcode /\ src' = src
  BY <1>1 DEF Extracted
<1>3. \A w \in Word : <<w>> \in Seq(Word)
  OBVIOUS
<1>4. CASE phase' = "rejected"
  BY <1>1, <1>3, <1>4, RejectStep, WriteFacts
<1>5. CASE phase' = "done"
  <2>1. DoneJsr'
    BY <1>1, <1>2, <1>5 DEF DoneJsr
  <2>2. ResultInv'
    BY <1>2, <2>1 DEF ResultInv, Move
  <2>3. ext' \in Seq(Word) /\ nbytes' \in -2 .. 4
    BY <1>1, <1>3, <1>5
  <2> QED BY <1>1, <1>5, <2>2, <2>3, WriteStep
<1> QED BY <1>1, <1>4, <1>5

LEMMA MoveaStep ==
    ASSUME Inv, WriteMovea
    PROVE  Inv'
<1>1. /\ phase = "write" /\ handler = "movea" /\ Extracted
      /\ ext' = ext
      /\ \/ phase' = "rejected" /\ nbytes' = -1
         \/ /\ nbytes' = src.nbytes
            /\ phase' = IF nbytes' = -1 THEN "rejected" ELSE "done"
            /\ \/ /\ src.op.type = "mem"
                  /\ out' = Code("mov",
                        Mem(IF src.op.value = <<0, 4>> THEN AbsExecBase ELSE src.op.value),
                        Areg(opcode.reg))
               \/ /\ src.op.type = "imm"
                  /\ out' = Code("mov", Imm(src.op.value), Areg(opcode.reg))
  BY DEF WriteMovea, Writing, Return, Rejects, OperandBytes
<1>2. handler' = "movea" /\ opcode' = opcode /\ src' = src
  BY <1>1 DEF Extracted
<1>3. nbytes' \in -2 .. 4
  <2>1. src.nbytes \in {-1, 0, 2, 4}
    BY <1>1, WriteFacts DEF ExtractionOK
  <2> QED BY <1>1, <2>1
<1>4. CASE phase' = "rejected"
  BY <1>1, <1>3, <1>4, WriteStep, WriteFacts DEF ResultInv
<1>5. CASE phase' = "done"
  <2>1. DoneMovea'
    BY <1>1, <1>2, <1>5, WriteFacts DEF DoneMovea
  <2>2. ResultInv'
    BY <1>2, <2>1 DEF ResultInv, Move
  <2> QED BY <1>1, <1>3, <1>5, <2>2, WriteStep, WriteFacts
<1> QED BY <1>1, <1>4, <1>5

\* A register takes no bytes, and a failure is minus one.
LEMMA DregBytes ==
    ASSUME NEW m \in Field, NEW r \in Field, NEW e \in ExtractOperand(m, r),
           e.op.type = "dreg"
    PROVE  e.nbytes \in {-1, 0}
BY ExtractMeans

LEMMA MoveStep ==
    ASSUME Inv, WriteMove
    PROVE  Inv'
<1>1. /\ phase = "write" /\ handler \in Move /\ Extracted
      /\ ext' = ext
      /\ \/ phase' = "rejected" /\ nbytes' = -1
         \/ /\ <<src.op.type, dst.op.type>> \in MoveCombinations
            /\ nbytes' = src.nbytes + dst.nbytes
            /\ phase' = IF nbytes' = -1 THEN "rejected" ELSE "done"
            /\ out' = Code("mov", Loc(src.op), Loc(dst.op))
  BY DEF WriteMove, Writing, Return, Rejects, MoveBytes
<1>2. handler' = handler /\ opcode' = opcode /\ src' = src /\ dst' = dst
  BY <1>1 DEF Extracted
<1>3. SrcKnown /\ DstKnown
  BY <1>1, WriteFacts DEF HasOperand
<1>4. nbytes' \in -2 .. 4
  <2>1. src.nbytes \in {-1, 0, 2, 4} /\ dst.nbytes \in {-1, 0, 2, 4}
    BY <1>1, WriteFacts DEF ExtractionOK
  <2>2. /\ opcode.opm \in Field /\ opcode.reg \in Field
        /\ opcode.mode \in Field /\ opcode.ea \in Field
    BY OpcodeFields DEF Inv, TypeOK
  <2>3. src.op.type = "dreg" => src.nbytes \in {-1, 0}
    BY <1>3, <2>2, DregBytes DEF SrcKnown
  <2>4. dst.op.type = "dreg" => dst.nbytes \in {-1, 0}
    BY <1>3, <2>2, DregBytes DEF DstKnown
  <2>5. <<src.op.type, dst.op.type>> \in MoveCombinations =>
           src.op.type = "dreg" \/ dst.op.type = "dreg"
    BY DEF MoveCombinations
  <2> QED BY <1>1, <2>1, <2>3, <2>4, <2>5
<1>5. CASE phase' = "rejected"
  BY <1>1, <1>4, <1>5, WriteStep, WriteFacts DEF ResultInv
<1>6. CASE phase' = "done"
  <2>1. DoneMove'
    BY <1>1, <1>2, <1>6, WriteFacts DEF DoneMove
  <2>2. ResultInv'
    BY <1>1, <1>2, <2>1 DEF ResultInv, Move
  <2> QED BY <1>1, <1>4, <1>6, <2>2, WriteStep, WriteFacts
<1> QED BY <1>1, <1>5, <1>6

LEMMA DregStep ==
    ASSUME Inv, WriteDreg
    PROVE  Inv'
<1>1. /\ phase = "write" /\ handler \in {"subq", "tst"} /\ Extracted
      /\ ext' = ext
      /\ \/ phase' = "rejected" /\ nbytes' = -1
         \/ /\ src.op.type = "dreg"
            /\ nbytes' = src.nbytes
            /\ phase' = IF nbytes' = -1 THEN "rejected" ELSE "done"
            /\ out' = IF handler = "subq"
                      THEN Code("sub", Imm(<<0, Quick(opcode)>>), Dreg(src.op.value[2]))
                      ELSE Code("test", Dreg(src.op.value[2]), Dreg(src.op.value[2]))
  BY DEF WriteDreg, Writing, Return, Rejects, OperandBytes
<1>2. handler' = handler /\ opcode' = opcode /\ src' = src
  BY <1>1 DEF Extracted
<1>3. nbytes' \in -2 .. 4
  <2>1. src.nbytes \in {-1, 0, 2, 4}
    BY <1>1, WriteFacts DEF ExtractionOK
  <2> QED BY <1>1, <2>1
<1>4. CASE phase' = "rejected"
  BY <1>1, <1>3, <1>4, WriteStep, WriteFacts DEF ResultInv
<1>5. CASE phase' = "done"
  <2>1. DoneDreg'
    BY <1>1, <1>2, <1>5, WriteFacts DEF DoneDreg
  <2>2. ResultInv'
    BY <1>1, <1>2, <2>1 DEF ResultInv, Move
  <2> QED BY <1>1, <1>3, <1>5, <2>2, WriteStep, WriteFacts
<1> QED BY <1>1, <1>4, <1>5

LEMMA BranchBytesAre ==
    ASSUME NEW o
    PROVE  BranchBytes(o) \in {0, 2, 4} /\ BranchBytes(o) \div 2 \in {0, 1, 2}
BY DEF BranchBytes

LEMMA BccStep ==
    ASSUME Inv, WriteBcc
    PROVE  Inv'
<1> DEFINE n == BranchBytes(opcode)
<1>1. /\ phase = "write" /\ handler = "bcc" /\ Extracted
      /\ ext' \in [1 .. n \div 2 -> Word]
      /\ \/ phase' = "rejected" /\ nbytes' = -1
         \/ /\ Condition(opcode) \in {6, 7} /\ nbytes' = n
            /\ phase' = IF n = -1 THEN "rejected" ELSE "done"
            /\ out' = [op |-> "jcc", eq |-> Condition(opcode) = 7,
                       taken |-> ((2 + n) + BranchOffset(ext')) - n,
                       notTaken |-> 2 + n]
  BY DEF WriteBcc, Writing, Return, BranchOffset
<1>2. handler' = "bcc" /\ opcode' = opcode
  BY <1>1 DEF Extracted
<1>3. n \in {0, 2, 4} /\ n \div 2 \in Nat
  BY BranchBytesAre
<1>4. ext' \in Seq(Word)
  BY <1>1, <1>3
<1>5. CASE phase' = "rejected"
  BY <1>1, <1>3, <1>4, <1>5, WriteStep DEF ResultInv
<1>6. CASE phase' = "done"
  <2>1. BranchOffset(ext)' = BranchOffset(ext')
    BY <1>2 DEF BranchOffset
  <2>2. DoneBcc'
    BY <1>1, <1>2, <1>6, <2>1 DEF DoneBcc
  <2>3. ResultInv'
    BY <1>2, <2>2 DEF ResultInv, Move
  <2>4. nbytes' \in -2 .. 4
    BY <1>1, <1>3
  <2> QED BY <1>1, <1>4, <1>6, <2>3, <2>4, WriteStep
<1> QED BY <1>1, <1>5, <1>6

LEMMA InvStep ==
    ASSUME Inv, [Next]_vars
    PROVE  Inv'
<1>1. CASE UNCHANGED vars
  <2>1. UNCHANGED <<opcode, handler, phase, src, dst, ext, nbytes, out>>
    BY <1>1 DEF vars
  <2>2. PhaseInv'
    BY <2>1 DEF Inv, PhaseInv, SrcKnown, DstKnown
  <2>3. /\ DoneRts' = DoneRts /\ DoneMoveq' = DoneMoveq /\ DoneJsr' = DoneJsr
        /\ DoneMovea' = DoneMovea /\ DoneMove' = DoneMove /\ DoneDreg' = DoneDreg
    BY <2>1, Zenon DEF DoneRts, DoneMoveq, DoneJsr, DoneMovea, DoneMove, DoneDreg
  <2>4. DoneBcc' = DoneBcc
    BY <2>1, Zenon DEF DoneBcc, BranchOffset
  <2>5. ResultInv'
    BY <2>1, <2>3, <2>4 DEF Inv, ResultInv
  <2>6. TypeOK'
    BY <2>1, <2>2, TypeStep DEF Inv, TypeOK
  <2> QED BY <2>2, <2>5, <2>6 DEF Inv
<1>2. CASE Write
  BY <1>2, RtsStep, MoveqStep, JsrStep, MoveaStep, MoveStep, DregStep, BccStep
     DEF Write
<1> QED BY <1>1, <1>2, LookUpStep, SizeStep, SourceStep, DestinationStep
        DEF Next, Ended

LEMMA InvAlways == Spec => []Inv
<1>1. Init => Inv
  BY InvInit
<1>2. Inv /\ [Next]_vars => Inv'
  BY InvStep
<1> QED BY <1>1, <1>2, PTL DEF Spec

-----------------------------------------------------------------------------
(* What follows for an accepted instruction                                *)

LEMMA DoneFacts ==
    ASSUME Inv, Accepted, AllExtracted
    PROVE  /\ opcode.mode \in Field /\ opcode.ea \in Field /\ opcode.opm \in Field
           /\ opcode.reg \in Field /\ handler \in Handlers
           /\ src.nbytes # -1 /\ dst.nbytes # -1
           /\ IF handler \in HasOperand THEN SrcKnown ELSE src = NotExtracted
           /\ IF handler \in Move THEN DstKnown ELSE dst = NotExtracted
           /\ src.words \in Seq(Word) /\ dst.words \in Seq(Word) /\ ext \in Seq(Word)
<1>1. handler \in Handlers
  BY HandlerSet DEF Inv, TypeOK, PhaseInv, Accepted
<1> QED BY <1>1, OpcodeFields DEF Inv, TypeOK, PhaseInv, Accepted, AllExtracted

LEMMA NoWords == NotExtracted.words = <<>> /\ NotExtracted.nbytes = 0
BY DEF NotExtracted, Extraction

LEMMA ReadLength ==
    ASSUME Inv
    PROVE  Len(WordsRead) = Len(src.words) + Len(dst.words) + Len(ext)
<1>1. src.words \in Seq(Word) /\ dst.words \in Seq(Word) /\ ext \in Seq(Word)
  BY DEF Inv, TypeOK
<1>2. /\ src.words \o dst.words \in Seq(Word)
      /\ Len(src.words \o dst.words) = Len(src.words) + Len(dst.words)
  BY <1>1, ConcatProperties
<1> QED BY <1>1, <1>2, ConcatProperties DEF WordsRead

\* The words of the source operand are as many as its address mode has.
LEMMA SourceLength ==
    ASSUME Inv, Accepted, AllExtracted, handler \in HasOperand,
           src.op.type # "areg_offset"
    PROVE  Len(src.words) = EaWords(SourceEa) /\ src.nbytes = 2 * Len(src.words)
BY DoneFacts, ExtractWords DEF SrcKnown, SourceEa

LEMMA DestinationLength ==
    ASSUME Inv, Accepted, AllExtracted, handler \in Move,
           dst.op.type # "areg_offset"
    PROVE  Len(dst.words) = EaWords(DestinationEa) /\ dst.nbytes = 2 * Len(dst.words)
BY DoneFacts, ExtractWords DEF DstKnown, DestinationEa

LEMMA InStepFromInv ==
    ASSUME Inv
    PROVE  InStep
<1>1. SUFFICES ASSUME Accepted, AllExtracted
               PROVE  Len(WordsRead) = InstrWords /\ nbytes = 2 * InstrWords
  BY DEF InStep
<1> DEFINE s == Len(src.words)
           d == Len(dst.words)
           x == Len(ext)
<1>2. Len(WordsRead) = s + d + x /\ s \in Nat /\ d \in Nat /\ x \in Nat
  <2>1. src.words \in Seq(Word) /\ dst.words \in Seq(Word) /\ ext \in Seq(Word)
    BY <1>1, DoneFacts
  <2>2. Len(WordsRead) = s + d + x
    BY ReadLength
  <2> QED BY <2>1, <2>2, LenProperties
<1>3. Len(<<>>) = 0 /\ \A w \in Word : Len(<<w>>) = 1
  OBVIOUS
<1>4. handler \notin Move => d = 0 /\ dst.nbytes = 0
  BY <1>1, <1>3, DoneFacts, NoWords
<1>5. handler \notin HasOperand => s = 0 /\ src.nbytes = 0
  BY <1>1, <1>3, DoneFacts, NoWords
<1>6. ResultInv /\ phase = "done"
  BY <1>1 DEF Inv, Accepted
<1>7. CASE handler = "rts"
  <2>1. x = 0 /\ nbytes = 0
    BY <1>3, <1>6, <1>7 DEF ResultInv, DoneRts
  <2>2. InstrWords = 0
    BY <1>7 DEF InstrWords, Move
  <2> HIDE DEF s, d, x
  <2> QED BY <1>2, <1>4, <1>5, <1>7, <2>1, <2>2 DEF HasOperand, Move
<1>8. CASE handler = "moveq"
  <2>1. x = 0 /\ nbytes = 0
    BY <1>3, <1>6, <1>8 DEF ResultInv, DoneMoveq
  <2>2. InstrWords = 0
    BY <1>8 DEF InstrWords, Move
  <2> HIDE DEF s, d, x
  <2> QED BY <1>2, <1>4, <1>5, <1>8, <2>1, <2>2 DEF HasOperand, Move
<1>9. CASE handler = "jsr"
  <2>1. x = 1 /\ nbytes = 2 /\ src.op.type = "areg_offset"
    BY <1>3, <1>6, <1>9 DEF ResultInv, DoneJsr
  <2>2. SrcKnown
    BY <1>1, <1>9, DoneFacts DEF HasOperand
  <2>3. opcode.mode = 5 /\ src.words = <<>>
    BY <1>1, <2>1, <2>2, DoneFacts, ExtractMeans DEF SrcKnown
  <2>4. SourceEa = "d(An)"
    BY <1>1, <2>3, DoneFacts, EaOfIs DEF SourceEa
  <2>5. InstrWords = 1
    BY <1>9, <2>4 DEF InstrWords, Move, EaWords
  <2>6. s = 0
    BY <1>3, <2>3
  <2> HIDE DEF s, d, x
  <2> QED BY <1>2, <1>4, <1>9, <2>1, <2>5, <2>6 DEF Move
<1>10. CASE handler \in {"movea", "subq", "tst"}
  <2>1. x = 0 /\ nbytes = src.nbytes /\ src.op.type # "areg_offset"
    BY <1>3, <1>6, <1>10 DEF ResultInv, DoneMovea, DoneDreg
  <2>2. s = EaWords(SourceEa) /\ src.nbytes = 2 * s
    BY <1>1, <1>10, <2>1, SourceLength DEF HasOperand
  <2>3. InstrWords = EaWords(SourceEa)
    BY <1>10 DEF InstrWords, Move
  <2> HIDE DEF s, d, x
  <2> QED BY <1>2, <1>4, <1>10, <2>1, <2>2, <2>3 DEF Move
<1>11. CASE handler \in Move
  <2>1. /\ x = 0 /\ nbytes = src.nbytes + dst.nbytes
        /\ <<src.op.type, dst.op.type>> \in MoveCombinations
    BY <1>3, <1>6, <1>11 DEF ResultInv, DoneMove
  <2>2. src.op.type # "areg_offset" /\ dst.op.type # "areg_offset"
    BY <2>1 DEF MoveCombinations
  <2>3. s = EaWords(SourceEa) /\ src.nbytes = 2 * s
    BY <1>1, <1>11, <2>2, SourceLength DEF HasOperand
  <2>4. d = EaWords(DestinationEa) /\ dst.nbytes = 2 * d
    BY <1>1, <1>11, <2>2, DestinationLength
  <2>5. InstrWords = EaWords(SourceEa) + EaWords(DestinationEa)
    BY <1>11 DEF InstrWords, Move
  <2> HIDE DEF s, d, x
  <2> QED BY <1>2, <2>1, <2>3, <2>4, <2>5
<1>12. CASE handler = "bcc"
  <2>1. nbytes = BranchBytes(opcode) /\ ext \in [1 .. BranchBytes(opcode) \div 2 -> Word]
    BY <1>6, <1>12 DEF ResultInv, DoneBcc
  <2>2. x = BranchBytes(opcode) \div 2
    BY <2>1, BranchBytesAre
  <2>3. InstrWords = BranchBytes(opcode) \div 2
    BY <1>12 DEF InstrWords, Move, BranchBytes
  <2>4. BranchBytes(opcode) = 2 * (BranchBytes(opcode) \div 2)
    BY BranchBytesAre
  <2> HIDE DEF s, d, x
  <2> QED BY <1>2, <1>4, <1>5, <1>12, <2>1, <2>2, <2>3, <2>4 DEF HasOperand, Move
<1>13. handler \in Handlers
  BY <1>1, DoneFacts
<1> QED BY <1>7, <1>8, <1>9, <1>10, <1>11, <1>12, <1>13 DEF Handlers

LEMMA FailureFromInv ==
    ASSUME Inv
    PROVE  FailureReported
<1>1. SUFFICES ASSUME Accepted, ~AllExtracted, handler # "jsr"
               PROVE  handler \in Move /\ (src.nbytes # 0 /\ dst.nbytes # 0)
  BY DEF FailureReported
<1>2. /\ ResultInv /\ PhaseInv /\ phase = "done" /\ handler \in Handlers
      /\ src.nbytes \in {-1, 0, 2, 4} /\ dst.nbytes \in {-1, 0, 2, 4}
  BY <1>1, HandlerSet DEF Inv, Accepted, TypeOK, PhaseInv
<1>3. src.nbytes = -1 \/ dst.nbytes = -1
  BY <1>1 DEF AllExtracted
<1>4. handler \notin Move => dst.nbytes = 0
  BY <1>2, NoWords DEF PhaseInv
<1>5. handler \notin HasOperand => src.nbytes = 0
  BY <1>2, NoWords DEF PhaseInv
<1>6. handler \in {"movea", "subq", "tst"} => src.nbytes # -1
  BY <1>2 DEF ResultInv, DoneMovea, DoneDreg
<1>7. handler \in Move
  BY <1>1, <1>2, <1>3, <1>4, <1>5, <1>6 DEF Handlers, HasOperand
<1>8. src.nbytes + dst.nbytes # -1
  BY <1>2, <1>7 DEF ResultInv, DoneMove
<1> QED BY <1>2, <1>3, <1>7, <1>8

-----------------------------------------------------------------------------
(* The x86 code of an accepted instruction                                 *)

\* The handlers' registers are those of x86_reg_for_m68k_reg.
LEMMA Registers ==
    ASSUME NEW r \in Field
    PROVE  Dreg(r) = D(r) /\ Areg(r) = A(r)
<1>1. /\ X86Reg[1] = 0 /\ X86Reg[2] = 1 /\ X86Reg[3] = 2 /\ X86Reg[4] = 3
      /\ X86Reg[5] = 4 /\ X86Reg[6] = 5 /\ X86Reg[7] = 6 /\ X86Reg[8] = 7
      /\ X86Reg[9] = 8 /\ X86Reg[10] = 9 /\ X86Reg[11] = 10 /\ X86Reg[12] = 11
      /\ X86Reg[13] = 15 /\ X86Reg[14] = 13 /\ X86Reg[15] = 14 /\ X86Reg[16] = 12
  BY DEF X86Reg
<1>2. r \in 0 .. 7
  BY DEF Field
<1>3. X86Reg[r + 1] = r
  BY <1>1, <1>2
<1>4. X86Reg[r + 9] = 8 + (CASE r = 4 -> 7 [] r = 7 -> 4 [] OTHER -> r)
  BY <1>1, <1>2
<1> QED BY <1>3, <1>4 DEF Dreg, Areg, D, A

\* A place in memory, a register and an immediate value are three things.
LEMMA Places ==
    /\ \A k, l : Mem(k) = Mem(l) => k = l
    /\ \A n, l : Reg(n) # Mem(l) /\ Imm(n) # Mem(l)
<1>1. \A k : Mem(k).mem = k
  BY DEF Mem
<1>2. \A n, l : /\ DOMAIN Reg(n) = {"reg"} /\ DOMAIN Imm(n) = {"imm"}
                /\ DOMAIN Mem(l) = {"mem"}
  BY DEF Reg, Imm, Mem
<1> QED BY <1>1, <1>2

LEMMA FirstWords ==
    ASSUME NEW S, NEW s \in Seq(S), NEW t \in Seq(S), NEW u \in Seq(S)
    PROVE  SubSeq(s \o t \o u, 1, Len(s)) = s
<1>1. s \o t \o u = s \o (t \o u) /\ t \o u \in Seq(S) /\ Len(s) \in Nat
  BY ConcatAssociative, ConcatProperties, LenProperties
<1>2. CASE Len(s) = 0
  <2>1. s = <<>>
    BY <1>2, EmptySeq
  <2> QED BY <1>2, <2>1, SubSeqEmpty
<1>3. CASE Len(s) # 0
  <2>1. 1 \in 1 .. Len(s) /\ Len(s) \in 1 .. Len(s)
    BY <1>1, <1>3
  <2>2. SubSeq(s \o (t \o u), 1, Len(s)) = SubSeq(s, 1, Len(s))
    BY <1>1, <2>1, SubSeqOfConcat1
  <2> QED BY <1>1, <2>2, SubSeqFull
<1> QED BY <1>2, <1>3

LEMMA LastWords ==
    ASSUME NEW S, NEW s \in Seq(S), NEW t \in Seq(S)
    PROVE  SubSeq(s \o t, Len(s) + 1, Len(s \o t)) = t
<1>1. Len(s \o t) = Len(s) + Len(t) /\ Len(s) \in Nat /\ Len(t) \in Nat
  BY ConcatProperties, LenProperties
<1>2. CASE Len(t) = 0
  <2>1. t = <<>>
    BY <1>2, EmptySeq
  <2> QED BY <1>1, <1>2, <2>1, SubSeqEmpty
<1>3. CASE Len(t) # 0
  <2>1. Len(s) + 1 \in Len(s) + 1 .. Len(s) + Len(t)
        /\ Len(s) + Len(t) \in Len(s) + 1 .. Len(s) + Len(t)
    BY <1>1, <1>3
  <2>2. SubSeq(s \o t, Len(s) + 1, Len(s) + Len(t))
           = SubSeq(t, (Len(s) + 1) - Len(s), (Len(s) + Len(t)) - Len(s))
    BY <2>1, SubSeqOfConcat2
  <2>3. (Len(s) + 1) - Len(s) = 1 /\ (Len(s) + Len(t)) - Len(s) = Len(t)
    BY <1>1
  <2> QED BY <1>1, <2>2, <2>3, SubSeqFull
<1> QED BY <1>2, <1>3

\* A short address that the code does not sign-extend wrongly.
SignLost(e) == Len(e.words) = 1 /\ e.op.type = "mem" /\ e.words[1] >= 32768

\* What an operand was translated to is where the 680x0 finds it.
LEMMA LocIs ==
    ASSUME NEW m \in Field, NEW r \in Field, NEW e \in ExtractOperand(m, r),
           e.nbytes # -1, e.op.type \in {"dreg", "mem", "imm"}, ~SignLost(e)
    PROVE  Loc(e.op) = Location(EaOf(m, r), r, e.words)
<1>1. CASE e.op.type = "dreg"
  <2>1. m = 0 /\ e.op.value[2] = r
    BY <1>1, ExtractMeans
  <2>2. Loc(e.op) = Dreg(r)
    BY <1>1, <2>1 DEF Loc
  <2> QED BY <2>1, <2>2, EaOfIs, Registers DEF Location
<1>2. CASE e.op.type = "imm"
  <2>1. m = 7 /\ r = 4 /\ e.op.value = e.words
    BY <1>2, ExtractMeans
  <2>2. Loc(e.op) = Imm(e.words)
    BY <1>2, <2>1 DEF Loc
  <2> QED BY <2>1, <2>2, EaOfIs DEF Location
<1>3. CASE e.op.type = "mem" /\ r # 0
  <2>1. m = 7 /\ r = 1 /\ e.op.value = e.words
    BY <1>3, ExtractMeans
  <2>2. Loc(e.op) = Mem(e.words)
    BY <1>3, <2>1 DEF Loc
  <2> QED BY <2>1, <2>2, EaOfIs DEF Location
<1>4. CASE e.op.type = "mem" /\ r = 0
  <2>1. m = 7 /\ \E w \in Word : e.op.value = <<0, w>> /\ e.words = <<w>>
    BY <1>4, ExtractMeans
  <2>2. PICK w \in Word : e.op.value = <<0, w>> /\ e.words = <<w>>
    BY <2>1
  <2>3. Len(e.words) = 1 /\ e.words[1] = w
    BY <2>2
  <2>4. w \in Int /\ 0 <= w /\ w < 32768
    BY <1>4, <2>3, WordsInt DEF SignLost
  <2>5. Extend(SignedWord(w)) = <<0, w>>
    BY <2>4 DEF Extend, SignedWord
  <2>6. Loc(e.op) = Mem(<<0, w>>)
    BY <1>4, <2>2 DEF Loc
  <2>7. Location("abs.w", r, e.words) = Mem(Extend(SignedWord(e.words[1])))
    BY DEF Location
  <2> QED BY <1>4, <2>1, <2>3, <2>5, <2>6, <2>7, EaOfIs
<1> QED BY <1>1, <1>2, <1>3, <1>4

\* The words of the two operands are found where the 680x0 looks for them.
LEMMA OperandWords ==
    ASSUME Inv, Accepted, AllExtracted, ext = <<>>, handler \in HasOperand,
           src.op.type # "areg_offset"
    PROVE  /\ SourceWords = src.words
           /\ SubSeq(WordsRead, EaWords(SourceEa) + 1, Len(WordsRead)) = dst.words
<1>1. src.words \in Seq(Word) /\ dst.words \in Seq(Word) /\ ext \in Seq(Word)
  BY DoneFacts
<1>2. Len(src.words) = EaWords(SourceEa)
  BY SourceLength
<1>3. SourceWords = src.words
  BY <1>1, <1>2, FirstWords DEF SourceWords, WordsRead
<1>4. WordsRead = src.words \o dst.words
  <2>1. src.words \o dst.words \in Seq(Word)
    BY <1>1, ConcatProperties
  <2> QED BY <2>1, ConcatEmptySeq DEF WordsRead
<1>5. SubSeq(WordsRead, EaWords(SourceEa) + 1, Len(WordsRead)) = dst.words
  BY <1>1, <1>2, <1>4, LastWords
<1> QED BY <1>3, <1>5

LEMMA NoSignLost ==
    ASSUME ~KnownGap
    PROVE  ~SignLost(src) /\ ~SignLost(dst)
BY DEF KnownGap, SignLost

LEMMA MoveRight ==
    ASSUME Inv, Accepted, AllExtracted, ~KnownGap, handler \in Move
    PROVE  out = Expected
<1>1. DoneMove
  BY DEF Inv, ResultInv, Accepted
<1>2. /\ src.op.type \in {"dreg", "mem", "imm"} /\ dst.op.type \in {"dreg", "mem", "imm"}
  BY <1>1 DEF DoneMove, MoveCombinations
<1>3. handler \in HasOperand
  BY DEF HasOperand
<1>4. /\ SourceWords = src.words
      /\ SubSeq(WordsRead, EaWords(SourceEa) + 1, Len(WordsRead)) = dst.words
  BY <1>1, <1>2, <1>3, OperandWords DEF DoneMove
<1>5. Loc(src.op) = Source
  <2>1. Loc(src.op) = Location(SourceEa, opcode.ea, src.words)
    BY <1>2, <1>3, DoneFacts, NoSignLost, LocIs DEF SrcKnown, SourceEa
  <2> QED BY <1>4, <2>1 DEF Source
<1>6. Loc(dst.op) = Destination
  <2>1. Loc(dst.op) = Location(DestinationEa, opcode.reg, dst.words)
    BY <1>2, DoneFacts, NoSignLost, LocIs DEF DstKnown, DestinationEa
  <2> QED BY <1>4, <2>1 DEF Destination
<1>7. out = Code("mov", Loc(src.op), Loc(dst.op))
  BY <1>1 DEF DoneMove
<1>8. Mem(<<0, 4>>) # Source /\ Mem(<<0, 4>>) # Destination
  <2>1. out.from = Source /\ out.to = Destination
    BY <1>5, <1>6, <1>7 DEF Code
  <2> QED BY <2>1 DEF KnownGap
<1>9. Relocated(Source) = Source /\ Relocated(Destination) = Destination
  BY <1>8 DEF Relocated
<1>10. Expected = Code("mov", Relocated(Source), Relocated(Destination))
  BY DEF Expected, Move
<1> QED BY <1>5, <1>6, <1>7, <1>9, <1>10

LEMMA MoveaRight ==
    ASSUME Inv, Accepted, AllExtracted, ~KnownGap, handler = "movea"
    PROVE  out = Expected
<1>1. DoneMovea
  BY DEF Inv, ResultInv, Accepted
<1>2. handler \in HasOperand /\ opcode.reg \in Field
  BY DoneFacts DEF HasOperand
<1>3. src.op.type \in {"mem", "imm"} /\ ext = <<>>
  BY <1>1 DEF DoneMovea
<1>4. Loc(src.op) = Source
  <2>1. SourceWords = src.words
    BY <1>2, <1>3, OperandWords
  <2>2. Loc(src.op) = Location(SourceEa, opcode.ea, src.words)
    BY <1>2, <1>3, DoneFacts, NoSignLost, LocIs DEF SrcKnown, SourceEa
  <2> QED BY <2>1, <2>2 DEF Source
<1>5. Areg(opcode.reg) = A(opcode.reg)
  BY <1>2, Registers
<1>6. Expected = Code("mov", Relocated(Source), A(opcode.reg))
  BY DEF Expected, Move
<1>7. CASE src.op.type = "imm"
  <2>1. Source = Imm(src.op.value)
    BY <1>4, <1>7 DEF Loc
  <2>2. Relocated(Source) = Source
    BY <2>1, Places DEF Relocated
  <2> QED BY <1>1, <1>5, <1>6, <1>7, <2>1, <2>2 DEF DoneMovea
<1>8. CASE src.op.type = "mem"
  <2>1. Source = Mem(src.op.value)
    BY <1>4, <1>8 DEF Loc
  <2>2. Source = Mem(<<0, 4>>) <=> src.op.value = <<0, 4>>
    BY <2>1, Places
  <2>3. Relocated(Source)
           = Mem(IF src.op.value = <<0, 4>> THEN AbsExecBase ELSE src.op.value)
    BY <2>1, <2>2 DEF Relocated
  <2> QED BY <1>1, <1>5, <1>6, <1>8, <2>3 DEF DoneMovea
<1> QED BY <1>3, <1>7, <1>8

LEMMA DregRight ==
    ASSUME Inv, Accepted, AllExtracted, ~KnownGap, handler \in {"subq", "tst"}
    PROVE  out = Expected
<1>1. DoneDreg
  BY DEF Inv, ResultInv, Accepted
<1>2. SrcKnown
  BY DoneFacts DEF HasOperand
<1>3. opcode.mode = 0 /\ src.op.value[2] = opcode.ea
  BY <1>1, <1>2, DoneFacts, ExtractMeans DEF DoneDreg, SrcKnown
<1>4. Source = Dreg(opcode.ea)
  BY <1>3, DoneFacts, EaOfIs, Registers DEF Source, SourceEa, Location
<1>5. CASE handler = "subq"
  <2>1. opcode.reg # 0
    BY <1>5 DEF KnownGap
  <2>2. Expected = Code("sub", Imm(<<0, opcode.reg>>), Source)
    BY <1>5, <2>1 DEF Expected, Move
  <2> QED BY <1>1, <1>3, <1>4, <1>5, <2>2 DEF DoneDreg, Quick
<1>6. CASE handler = "tst"
  <2>1. Expected = Code("test", Source, Source)
    BY <1>6 DEF Expected, Move
  <2> QED BY <1>1, <1>3, <1>4, <1>6, <2>1 DEF DoneDreg
<1> QED BY <1>5, <1>6

\* Handlers without a second operand, or without any.
LEMMA OnlyExt ==
    ASSUME Inv, Accepted, AllExtracted, handler \notin Move, src.words = <<>>
    PROVE  WordsRead = ext
<1>1. dst.words = <<>> /\ ext \in Seq(Word)
  BY DoneFacts, NoWords
<1>2. <<>> \in Seq(Word) /\ <<>> \o <<>> = <<>>
  BY EmptySeq, ConcatEmptySeq
<1> QED BY <1>1, <1>2, ConcatEmptySeq DEF WordsRead

LEMMA JsrRight ==
    ASSUME Inv, Accepted, AllExtracted, handler = "jsr"
    PROVE  out = Expected
<1>1. DoneJsr
  BY DEF Inv, ResultInv, Accepted, Move
<1>2. SrcKnown
  BY DoneFacts DEF HasOperand
<1>3. opcode.mode = 5 /\ <<0, opcode.ea>> = <<0, 6>> /\ src.words = <<>>
  BY <1>1, <1>2, DoneFacts, ExtractMeans DEF DoneJsr, SrcKnown
<1>4. opcode.ea = 6
  BY <1>3
<1>5. PICK w \in Word : ext = <<w>>
                        /\ out = Code("call", Imm(Extend(SignedWord(w))), Areg(6))
  BY <1>1 DEF DoneJsr
<1>6. SourceWords[1] = w
  <2>1. WordsRead = <<w>>
    BY <1>3, <1>5, OnlyExt DEF Move
  <2>2. EaWords(SourceEa) = 1
    BY <1>3, DoneFacts, EaOfIs DEF SourceEa, EaWords
  <2>3. <<w>> \in Seq(Word) /\ Len(<<w>>) = 1
    OBVIOUS
  <2>4. SourceWords = <<w>>
    BY <2>1, <2>2, <2>3, SubSeqFull DEF SourceWords
  <2> QED BY <2>4
<1>7. Areg(6) = A(6)
  BY Registers DEF Field
<1>8. Expected = Code("call", Imm(Extend(SignedWord(SourceWords[1]))), A(opcode.ea))
  BY DEF Expected, Move
<1> QED BY <1>4, <1>5, <1>6, <1>7, <1>8

LEMMA BccRight ==
    ASSUME Inv, Accepted, AllExtracted, handler = "bcc"
    PROVE  out = Expected
<1> DEFINE n == BranchBytes(opcode)
<1>1. DoneBcc
  BY DEF Inv, ResultInv, Accepted, Move
<1>2. src.words = <<>>
  BY DoneFacts, NoWords DEF HasOperand, Move
<1>3. WordsRead = ext
  BY <1>2, OnlyExt DEF Move
<1>4. /\ n \in {0, 2, 4} /\ ext \in [1 .. n \div 2 -> Word]
  BY <1>1, BranchBytesAre DEF DoneBcc
<1>5. LowByte(opcode) \in Int
  <2>1. opcode.opm \in Int /\ opcode.mode \in Int /\ opcode.ea \in Int
    BY DoneFacts DEF Field
  <2>2. opcode.opm % 4 \in Int
    BY <2>1
  <2> QED BY <2>1, <2>2 DEF LowByte
<1>6. BranchOffset(ext) = Displacement
  BY <1>3 DEF BranchOffset, Displacement, BranchBytes
<1>7. BranchOffset(ext) \in Int
  <2>1. \A w \in Word : SignedWord(w) \in Int
    BY WordsInt DEF SignedWord
  <2>2. CASE n = 0
    BY <1>5, <2>2 DEF BranchOffset, SignedByte
  <2>3. CASE n = 2
    <3>1. ext[1] \in Word
      BY <1>4, <2>3
    <3> QED BY <2>1, <2>3, <3>1 DEF BranchOffset
  <2>4. CASE n = 4
    <3>1. ext[1] \in Word /\ ext[2] \in Word
      BY <1>4, <2>4
    <3>2. SignedWord(ext[1]) \in Int /\ ext[2] \in Int
      BY <2>1, <3>1, WordsInt
    <3> QED BY <2>4, <3>2 DEF BranchOffset, SignedLong
  <2> QED BY <1>4, <2>2, <2>3, <2>4
<1>8. ((2 + n) + BranchOffset(ext)) - n = 2 + Displacement
  BY <1>4, <1>6, <1>7
<1>9. 2 + n = 2 + 2 * Len(WordsRead)
  <2>1. Len(WordsRead) = n \div 2
    BY <1>3, <1>4
  <2> QED BY <1>4, <2>1
<1>10. Expected = [op |-> "jcc", eq |-> Condition(opcode) = 7,
                   taken |-> 2 + Displacement, notTaken |-> 2 + 2 * Len(WordsRead)]
  BY DEF Expected, Move
<1> HIDE DEF n
<1>11. out = [op |-> "jcc", eq |-> Condition(opcode) = 7,
              taken |-> ((2 + n) + BranchOffset(ext)) - n, notTaken |-> 2 + n]
  BY <1>1 DEF DoneBcc, n
<1> QED BY <1>8, <1>9, <1>10, <1>11

LEMMA TranslatedFromInv ==
    ASSUME Inv
    PROVE  TranslatedRight
<1>1. SUFFICES ASSUME Accepted, AllExtracted, ~KnownGap
               PROVE  out = Expected
  BY DEF TranslatedRight
<1>2. handler \in Handlers
  BY <1>1, DoneFacts
<1>3. CASE handler = "rts"
  BY <1>1, <1>3 DEF Inv, ResultInv, Accepted, DoneRts, Expected, Move
<1>4. CASE handler = "moveq"
  <2>1. DoneMoveq
    BY <1>1, <1>4 DEF Inv, ResultInv, Accepted
  <2>2. Dreg(opcode.reg) = D(opcode.reg)
    BY <1>1, DoneFacts, Registers
  <2>3. Expected = Code("mov", Imm(Extend(SignedByte(LowByte(opcode)))), D(opcode.reg))
    BY <1>4 DEF Expected, Move
  <2> QED BY <2>1, <2>2, <2>3 DEF DoneMoveq
<1> QED BY <1>1, <1>2, <1>3, <1>4, MoveRight, MoveaRight, DregRight, JsrRight, BccRight
        DEF Handlers

-----------------------------------------------------------------------------
(* Theorems                                                                *)

\* The type invariant holds; what a failed extraction leaves in a structure is
\* all that is not known of it.
THEOREM TypeCorrect == Spec => []TypeOK
<1>1. Inv => TypeOK
  BY DEF Inv
<1> QED BY <1>1, InvAlways, PTL

\* The comment on opcode_info_tbl wants its rows sorted: for no opcode is there
\* a second row, so that their order does not matter.
THEOREM OneHandlerCorrect == Spec => []OneHandler
<1>1. Inv => OneHandler
  <2>1. SUFFICES ASSUME Inv, NEW i \in Rows, NEW j \in Rows,
                        Applies(opcode, OpcodeInfoTbl[i]),
                        Applies(opcode, OpcodeInfoTbl[j])
                 PROVE  i = j
    BY DEF OneHandler
  <2>2. opcode \in Opcode
    BY <2>1, OpcodeFields DEF Inv, TypeOK
  <2> QED BY <2>1, <2>2, OneRow
<1> QED BY <1>1, InvAlways, PTL

\* translate_tu() stays in step with the 680x0: an instruction it accepts, all
\* operands extracted, has consumed exactly its own extension words.
THEOREM InStepCorrect == Spec => []InStep
<1>1. Inv => InStep
  BY InStepFromInv
<1> QED BY <1>1, InvAlways, PTL

\* A failed extract_operand() makes the handler fail, but for the two handlers
\* and the combinations of results that FailureReported names.
THEOREM FailureReportedCorrect == Spec => []FailureReported
<1>1. Inv => FailureReported
  BY FailureFromInv
<1> QED BY <1>1, InvAlways, PTL

\* What an accepted instruction is translated to does with its own operands what
\* the 680x0 does, in the registers where thunks and stubs expect them, outside
\* the gaps KnownGap names.
THEOREM TranslatedRightCorrect == Spec => []TranslatedRight
<1>1. Inv => TranslatedRight
  BY TranslatedFromInv
<1> QED BY <1>1, InvAlways, PTL
=============================================================================
