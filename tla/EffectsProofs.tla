---------------------------- MODULE EffectsProofs ----------------------------
(***************************************************************************)
(* Theorems about Effects, for every size of a byte and of the data, every  *)
(* set of registers and every set of operands.                              *)
(***************************************************************************)
EXTENDS Effects, TLAPS

-----------------------------------------------------------------------------
(* Long words and their bytes                                              *)

\* Multiplication by a natural keeps the order.
LEMMA TimesMonotone ==
    ASSUME NEW x \in Nat, NEW y \in Nat, NEW n \in Nat, x <= y
    PROVE  x * n <= y * n
  OBVIOUS

\* Quotient and remainder.
LEMMA DivMod ==
    ASSUME NEW v \in Nat, NEW n \in Nat \ {0}
    PROVE  /\ v \div n \in Nat /\ v % n \in 0 .. n - 1
           /\ (v \div n) * n + (v % n) = v
  OBVIOUS

LEMMA ModRange ==
    ASSUME NEW v \in Int, NEW n \in Nat \ {0}
    PROVE  v % n \in 0 .. n - 1
  OBVIOUS

LEMMA Sizes ==
    /\ ByteSize \in Nat \ {0, 1} /\ LongSize \in Nat \ {0}
    /\ LongSize = (ByteSize - 1) * ByteSize + ByteSize
    /\ Byte \subseteq Long /\ 0 \in Byte
  BY SizeAssumption DEF LongSize, Byte, Long

\* Two bytes make a long word.
LEMMA BytesMakeLong ==
    ASSUME NEW high \in Byte, NEW low \in Byte
    PROVE  high * ByteSize + low \in Long
  BY SizeAssumption, Sizes, TimesMonotone DEF Byte, Long

\* A long word splits into two bytes, and these make it again.
LEMMA LongSplits ==
    ASSUME NEW v \in Long
    PROVE  /\ v \div ByteSize \in Byte /\ v % ByteSize \in Byte
           /\ (v \div ByteSize) * ByteSize + (v % ByteSize) = v
  <1>. PICK n \in Nat \ {0, 1} : n = ByteSize
    BY SizeAssumption
  <1>. PICK q : q = v \div n
    OBVIOUS
  <1>1. v \in Nat /\ v < n * n
    BY DEF Long, LongSize
  <1>2. q \in Nat /\ v % n \in 0 .. n - 1 /\ q * n + (v % n) = v
    BY <1>1, DivMod
  <1>3. q < n
    <2>1. q * n <= v
      BY <1>2
    <2>2. n <= q => n * n <= q * n
      BY <1>2, TimesMonotone
    <2>. QED  BY <1>1, <1>2, <2>1, <2>2
  <1>. QED  BY <1>2, <1>3 DEF Byte

\* The extended operand of MOVEQ is a long word.
LEMMA ExtendedIsLong ==
    ASSUME NEW b \in Byte
    PROVE  SignedByte(b) % LongSize \in Long
  <1>1. SignedByte(b) \in Int
    BY SizeAssumption DEF SignedByte, Byte
  <1>. QED  BY <1>1, ModRange, Sizes DEF Long

-----------------------------------------------------------------------------
(* Memory                                                                  *)

\* A store writes two bytes and leaves the others; read back with the machine's
\* own order it gives the same number whichever the order is.
LEMMA Stores ==
    ASSUME NEW mem \in Memory, NEW a \in LongAt, NEW v \in Long
    PROVE  /\ StoreBig(mem, a, v) \in Memory /\ StoreLittle(mem, a, v) \in Memory
           /\ Big(StoreBig(mem, a, v), a) = v
           /\ Little(StoreLittle(mem, a, v), a) = v
           /\ \A b \in LongAt \ {a - 1, a, a + 1} :
                 /\ Big(StoreBig(mem, a, v), b) = Big(mem, b)
                 /\ Little(StoreLittle(mem, a, v), b) = Little(mem, b)
  <1>1. /\ v \div ByteSize \in Byte /\ v % ByteSize \in Byte
        /\ (v \div ByteSize) * ByteSize + (v % ByteSize) = v
    BY LongSplits
  <1>2. PICK h \in Byte, l \in Byte : h = v \div ByteSize /\ l = v % ByteSize
    BY <1>1
  <1>3. NBytes \in Nat /\ a \in Nat /\ a + 1 < NBytes
    BY SizeAssumption DEF LongAt
  <1>4. PICK big : big = [mem EXCEPT ![a] = h, ![a + 1] = l]
    OBVIOUS
  <1>5. PICK little : little = [mem EXCEPT ![a] = l, ![a + 1] = h]
    OBVIOUS
  <1>6. /\ big = StoreBig(mem, a, v) /\ little = StoreLittle(mem, a, v)
    BY <1>2, <1>4, <1>5 DEF StoreBig, StoreLittle
  <1>7. big \in Memory /\ little \in Memory
    BY <1>3, <1>4, <1>5 DEF Memory
  <1>8. /\ big[a] = h /\ big[a + 1] = l
        /\ little[a] = l /\ little[a + 1] = h
        /\ \A x \in 0 .. NBytes - 1 : x # a /\ x # a + 1 => big[x] = mem[x] /\ little[x] = mem[x]
    BY <1>3, <1>4, <1>5 DEF Memory
  <1>9. Big(big, a) = v /\ Little(little, a) = v
    BY <1>1, <1>2, <1>8 DEF Big, Little
  <1>10. ASSUME NEW b \in LongAt \ {a - 1, a, a + 1}
         PROVE  Big(big, b) = Big(mem, b) /\ Little(little, b) = Little(mem, b)
    <2>1. /\ b \in 0 .. NBytes - 1 /\ b # a /\ b # a + 1
          /\ b + 1 \in 0 .. NBytes - 1 /\ b + 1 # a /\ b + 1 # a + 1
      BY <1>3 DEF LongAt
    <2>2. big[b] = mem[b] /\ big[b + 1] = mem[b + 1] /\ little[b] = mem[b] /\ little[b + 1] = mem[b + 1]
      BY <1>8, <2>1
    <2>. QED  BY <2>2 DEF Big, Little
  <1>. QED  BY <1>6, <1>7, <1>9, <1>10

\* What is read from memory is a long word.
LEMMA Reads ==
    ASSUME NEW mem \in Memory, NEW a \in LongAt
    PROVE  Big(mem, a) \in Long /\ Little(mem, a) \in Long
  <1>1. mem[a] \in Byte /\ mem[a + 1] \in Byte
    BY SizeAssumption DEF Memory, LongAt
  <1>. QED  BY <1>1, BytesMakeLong DEF Big, Little

\* Of bytes that are the same, both orders read the same.
LEMMA SameBytes ==
    ASSUME NEW mem, NEW a, mem[a] = mem[a + 1]
    PROVE  Little(mem, a) = Big(mem, a)
  BY DEF Little, Big

\* exec_program()'s base comes back from memory as it was stored.
LEMMA ExecBaseStored == Little(StoredExecBase, 0) = ExecBase /\ ExecBase \in Long
  <1>1. ExecBase \in Long
    BY OperandAssumption
  <1>2. (ExecBase \div ByteSize) * ByteSize + (ExecBase % ByteSize) = ExecBase
    BY <1>1, LongSplits
  <1>3. StoredExecBase[0] = ExecBase % ByteSize /\ StoredExecBase[0 + 1] = ExecBase \div ByteSize
    BY DEF StoredExecBase
  <1>. QED  BY <1>1, <1>2, <1>3 DEF Little

-----------------------------------------------------------------------------
(* Registers and flags                                                     *)

\* Two machines with the same values in their registers.
SameData(m, x) == x.d = m.d /\ x.a6 = m.a6

LEMMA MachineFields ==
    ASSUME NEW m \in Machine
    PROVE  m.d \in [DataReg -> Long] /\ m.a6 \in Long /\ m.z \in BOOLEAN
  BY DEF Machine

LEMMA SetDataFields ==
    ASSUME NEW m \in Machine, NEW r \in DataReg, NEW v \in Long
    PROVE  /\ SetData(m, r, v) \in Machine
           /\ SetData(m, r, v).d = [m.d EXCEPT ![r] = v]
           /\ SetData(m, r, v).a6 = m.a6 /\ SetData(m, r, v).z = m.z
  <1>1. SetData(m, r, v) = [m EXCEPT !.d = [m.d EXCEPT ![r] = v]]
    BY DEF SetData, Machine
  <1>2. [m.d EXCEPT ![r] = v] \in [DataReg -> Long]
    BY MachineFields
  <1>. QED  BY <1>1, <1>2 DEF Machine

LEMMA SetFlagFields ==
    ASSUME NEW m \in Machine, NEW v
    PROVE  /\ SetFlagBy(m, v) \in Machine
           /\ SetFlagBy(m, v).d = m.d /\ SetFlagBy(m, v).a6 = m.a6
           /\ SetFlagBy(m, v).z <=> (v = 0)
  <1>. PICK z \in BOOLEAN : z = (v = 0)
    OBVIOUS
  <1>1. SetFlagBy(m, v) = [m EXCEPT !.z = z]
    BY DEF SetFlagBy
  <1>. QED  BY <1>1 DEF Machine

LEMMA SetA6Fields ==
    ASSUME NEW m \in Machine, NEW v \in Long
    PROVE  /\ [m EXCEPT !.a6 = v] \in Machine
           /\ [m EXCEPT !.a6 = v].d = m.d /\ [m EXCEPT !.a6 = v].a6 = v
           /\ [m EXCEPT !.a6 = v].z = m.z
  BY DEF Machine

-----------------------------------------------------------------------------
(* The two machines stay in step                                           *)

Inv == TypeOK /\ DataAgrees /\ BranchRight

LEMMA InitInv == Init => Inv
  <1>. SUFFICES ASSUME Init PROVE Inv
    OBVIOUS
  <1>1. 0 \in Long
    BY Sizes DEF Long
  <1>2. m68k \in Machine /\ x86 = m68k
    BY <1>1 DEF Init, Machine
  <1>3. /\ m68kMem \in Memory /\ x86Mem = m68kMem
        /\ whole = {a \in LongAt : m68kMem[a] = m68kMem[a + 1]}
        /\ setter = "none" /\ gap = FALSE
    BY DEF Init
  <1>4. TypeOK
    BY <1>2, <1>3 DEF TypeOK
  <1>5. DataAgrees
    BY <1>2, <1>3, SameBytes DEF DataAgrees
  <1>6. BranchRight
    BY <1>3 DEF BranchRight
  <1>. QED  BY <1>4, <1>5, <1>6 DEF Inv

\* Before a step that is followed, the machines agree.
LEMMA Agreed ==
    ASSUME Inv, ~gap
    PROVE  /\ m68k \in Machine /\ x86 \in Machine
           /\ m68kMem \in Memory /\ x86Mem \in Memory /\ whole \subseteq LongAt
           /\ SameData(m68k, x86)
           /\ \A a \in whole : Little(x86Mem, a) = Big(m68kMem, a)
  BY DEF Inv, TypeOK, DataAgrees, SameData

\* A step that leaves memory alone.
LEMMA RegisterStep ==
    ASSUME Inv, ~gap, UNCHANGED memory,
           m68k' \in Machine, x86' \in Machine, gap' \in BOOLEAN,
           setter' \in {"none", "move", "subq", "tst", "call"},
           ~gap' => SameData(m68k', x86'),
           ~gap' /\ setter' \in {"subq", "tst"} => x86'.z = m68k'.z
    PROVE  Inv'
  <1>1. UNCHANGED <<m68kMem, x86Mem, whole>>
    BY DEF memory
  <1>2. TypeOK'
    BY <1>1 DEF Inv, TypeOK, Machine
  <1>3. \A a \in whole : Little(x86Mem, a) = Big(m68kMem, a)
    BY Agreed
  <1>4. DataAgrees'
    BY <1>1, <1>3 DEF DataAgrees, SameData, Little, Big
  <1>5. BranchRight'
    BY DEF BranchRight
  <1>. QED  BY <1>2, <1>4, <1>5 DEF Inv

\* A data register set to the same value on both machines, and the flag by any
\* values on each.
LEMMA SetBoth ==
    ASSUME NEW m \in Machine, NEW x \in Machine, SameData(m, x),
           NEW r \in DataReg, NEW v \in Long
    PROVE  /\ SetData(m, r, v) \in Machine /\ SetData(x, r, v) \in Machine
           /\ SameData(SetData(m, r, v), SetData(x, r, v))
  <1>1. /\ SetData(m, r, v) \in Machine
        /\ SetData(m, r, v).d = [m.d EXCEPT ![r] = v] /\ SetData(m, r, v).a6 = m.a6
    BY SetDataFields
  <1>2. /\ SetData(x, r, v) \in Machine
        /\ SetData(x, r, v).d = [x.d EXCEPT ![r] = v] /\ SetData(x, r, v).a6 = x.a6
    BY SetDataFields
  <1>. QED  BY <1>1, <1>2 DEF SameData

LEMMA FlagOfOne ==
    ASSUME NEW m \in Machine, NEW x \in Machine, SameData(m, x), NEW v
    PROVE  SetFlagBy(m, v) \in Machine /\ SameData(SetFlagBy(m, v), x)
  BY SetFlagFields DEF SameData

LEMMA FlagOfBoth ==
    ASSUME NEW m \in Machine, NEW x \in Machine, SameData(m, x), NEW v
    PROVE  /\ SetFlagBy(m, v) \in Machine /\ SetFlagBy(x, v) \in Machine
           /\ SameData(SetFlagBy(m, v), SetFlagBy(x, v))
           /\ SetFlagBy(x, v).z = SetFlagBy(m, v).z
  <1>1. SetFlagBy(m, v) \in Machine /\ SetFlagBy(x, v) \in Machine
    BY SetFlagFields
  <1>2. SameData(SetFlagBy(m, v), SetFlagBy(x, v))
    BY SetFlagFields DEF SameData
  <1>3. SetFlagBy(m, v).z \in BOOLEAN /\ SetFlagBy(x, v).z \in BOOLEAN
    BY <1>1 DEF Machine
  <1>4. SetFlagBy(x, v).z <=> SetFlagBy(m, v).z
    BY SetFlagFields
  <1>. QED  BY <1>1, <1>2, <1>3, <1>4

\* A step that moves to A6 only.
LEMMA A6Step ==
    ASSUME Inv, ~gap, UNCHANGED memory, setter' = setter, gap' \in BOOLEAN,
           NEW v \in Long, NEW w \in Long, ~gap' => v = w,
           m68k' = [m68k EXCEPT !.a6 = v], x86' = [x86 EXCEPT !.a6 = w]
    PROVE  Inv'
  <1>1. /\ m68k' \in Machine /\ m68k'.d = m68k.d /\ m68k'.a6 = v /\ m68k'.z = m68k.z
        /\ x86' \in Machine /\ x86'.d = x86.d /\ x86'.a6 = w /\ x86'.z = x86.z
    BY Agreed, SetA6Fields
  <1>2. ~gap' => SameData(m68k', x86')
    BY <1>1, Agreed DEF SameData
  <1>3. setter' \in {"subq", "tst"} => x86'.z = m68k'.z
    BY <1>1 DEF Inv, BranchRight
  <1>4. setter' \in {"none", "move", "subq", "tst", "call"}
    BY DEF Inv, TypeOK
  <1>. QED  BY <1>1, <1>2, <1>3, <1>4, RegisterStep

LEMMA NextInv == Inv /\ [Next]_vars => Inv'
  <1>. SUFFICES ASSUME Inv, [Next]_vars PROVE Inv'
    OBVIOUS
  <1>. USE DEF Step
  <1>a. Immediate \subseteq Long /\ Immediate \subseteq Byte
    BY OperandAssumption, Sizes
  <1>1. CASE Moveq
    <2>1. ~gap /\ setter' = "move" /\ UNCHANGED <<memory, gap>>
      BY <1>1 DEF Moveq
    <2>2. PICK b \in Immediate, r \in DataReg :
              /\ m68k' = SetFlagBy(SetData(m68k, r, SignedByte(b) % LongSize), b)
              /\ x86'  = SetData(x86, r, SignExtended(b))
      BY <1>1 DEF Moveq
    <2>3. PICK v \in Long : v = SignedByte(b) % LongSize
      BY <1>a, ExtendedIsLong
    <2>4. m68k' = SetFlagBy(SetData(m68k, r, v), b) /\ x86' = SetData(x86, r, v)
      BY <2>2, <2>3 DEF SignExtended
    <2>5. /\ SetData(m68k, r, v) \in Machine /\ SetData(x86, r, v) \in Machine
          /\ SameData(SetData(m68k, r, v), SetData(x86, r, v))
      BY <2>1, Agreed, SetBoth
    <2>6. m68k' \in Machine /\ SameData(m68k', x86')
      BY <2>4, <2>5, FlagOfOne
    <2>7. gap' \in BOOLEAN
      BY <2>1 DEF Inv, TypeOK
    <2>. QED  BY <2>1, <2>4, <2>5, <2>6, <2>7, RegisterStep
  <1>2. CASE MoveImmToDreg
    <2>1. ~gap /\ setter' = "move" /\ UNCHANGED <<memory, gap>>
      BY <1>2 DEF MoveImmToDreg
    <2>2. PICK v \in Immediate, r \in DataReg :
              /\ m68k' = SetFlagBy(SetData(m68k, r, v), v)
              /\ x86'  = SetData(x86, r, v)
      BY <1>2 DEF MoveImmToDreg
    <2>3. /\ SetData(m68k, r, v) \in Machine /\ SetData(x86, r, v) \in Machine
          /\ SameData(SetData(m68k, r, v), SetData(x86, r, v))
      BY <1>a, <2>1, Agreed, SetBoth
    <2>4. m68k' \in Machine /\ SameData(m68k', x86')
      BY <2>2, <2>3, FlagOfOne
    <2>5. gap' \in BOOLEAN
      BY <2>1 DEF Inv, TypeOK
    <2>. QED  BY <2>1, <2>2, <2>3, <2>4, <2>5, RegisterStep
  <1>3. CASE MoveDregToDreg
    <2>1. ~gap /\ setter' = "move" /\ UNCHANGED <<memory, gap>>
      BY <1>3 DEF MoveDregToDreg
    <2>2. PICK from \in DataReg, to \in DataReg :
              /\ m68k' = SetFlagBy(SetData(m68k, to, m68k.d[from]), m68k.d[from])
              /\ x86'  = SetData(x86, to, x86.d[from])
      BY <1>3 DEF MoveDregToDreg
    <2>3. PICK v \in Long : v = m68k.d[from] /\ v = x86.d[from]
      BY <2>1, Agreed, MachineFields DEF SameData
    <2>4. m68k' = SetFlagBy(SetData(m68k, to, v), v) /\ x86' = SetData(x86, to, v)
      BY <2>2, <2>3
    <2>5. /\ SetData(m68k, to, v) \in Machine /\ SetData(x86, to, v) \in Machine
          /\ SameData(SetData(m68k, to, v), SetData(x86, to, v))
      BY <2>1, Agreed, SetBoth
    <2>6. m68k' \in Machine /\ SameData(m68k', x86')
      BY <2>4, <2>5, FlagOfOne
    <2>7. gap' \in BOOLEAN
      BY <2>1 DEF Inv, TypeOK
    <2>. QED  BY <2>1, <2>4, <2>5, <2>6, <2>7, RegisterStep
  <1>4. CASE MoveMemToDreg
    <2>1. ~gap /\ setter' = "move" /\ UNCHANGED memory
      BY <1>4 DEF MoveMemToDreg
    <2>2. PICK a \in LongAt, r \in DataReg :
              /\ m68k' = SetFlagBy(SetData(m68k, r, Big(m68kMem, a)), Big(m68kMem, a))
              /\ x86' = SetData(x86, r, Little(x86Mem, a))
              /\ gap' = (a \notin whole)
      BY <1>4 DEF MoveMemToDreg
    <2>3. PICK v \in Long, w \in Long : v = Big(m68kMem, a) /\ w = Little(x86Mem, a)
      BY <2>1, Agreed, Reads
    <2>4. m68k' = SetFlagBy(SetData(m68k, r, v), v) /\ x86' = SetData(x86, r, w)
      BY <2>2, <2>3
    <2>5. ~gap' => v = w
      BY <2>1, <2>2, <2>3, Agreed
    <2>6. SetData(m68k, r, v) \in Machine /\ SetData(x86, r, w) \in Machine
      BY <2>1, Agreed, SetDataFields
    <2>7. m68k' \in Machine /\ x86' \in Machine
      BY <2>4, <2>6, SetFlagFields
    <2>8. SameData(SetData(m68k, r, v), SetData(x86, r, v))
      BY <2>1, Agreed, SetBoth
    <2>9. ~gap' => SameData(m68k', x86')
      BY <2>4, <2>5, <2>6, <2>8, FlagOfOne
    <2>10. gap' \in BOOLEAN
      BY <2>2
    <2>. QED  BY <2>1, <2>7, <2>9, <2>10, RegisterStep
  <1>5. CASE MoveDregToMem
    <2>1. ~gap /\ setter' = "move" /\ UNCHANGED <<x86, gap>>
      BY <1>5 DEF MoveDregToMem
    <2>2. PICK a \in LongAt, r \in DataReg :
              /\ m68k'    = SetFlagBy(m68k, m68k.d[r])
              /\ m68kMem' = StoreBig(m68kMem, a, m68k.d[r])
              /\ x86Mem'  = StoreLittle(x86Mem, a, x86.d[r])
              /\ whole'   = (whole \ {a - 1, a + 1}) \cup {a}
      BY <1>5 DEF MoveDregToMem
    <2>3. PICK v \in Long : v = m68k.d[r] /\ v = x86.d[r]
      BY <2>1, Agreed, MachineFields DEF SameData
    <2>4. /\ m68k' = SetFlagBy(m68k, v)
          /\ m68kMem' = StoreBig(m68kMem, a, v) /\ x86Mem' = StoreLittle(x86Mem, a, v)
      BY <2>2, <2>3
    <2>5. m68k' \in Machine /\ x86' \in Machine /\ SameData(m68k', x86')
      BY <2>1, <2>4, Agreed, FlagOfOne
    <2>6. /\ m68kMem' \in Memory /\ Big(m68kMem', a) = v
          /\ \A b \in LongAt \ {a - 1, a, a + 1} : Big(m68kMem', b) = Big(m68kMem, b)
      BY <2>1, <2>4, Agreed, Stores
    <2>7. /\ x86Mem' \in Memory /\ Little(x86Mem', a) = v
          /\ \A b \in LongAt \ {a - 1, a, a + 1} : Little(x86Mem', b) = Little(x86Mem, b)
      BY <2>1, <2>4, Agreed, Stores
    <2>8. whole' \subseteq LongAt
      BY <2>1, <2>2, Agreed
    <2>9. ASSUME NEW b \in whole' PROVE Little(x86Mem', b) = Big(m68kMem', b)
      <3>1. CASE b = a
        BY <2>6, <2>7, <3>1
      <3>2. CASE b # a
        <4>1. b \in whole /\ b \in LongAt \ {a - 1, a, a + 1}
          BY <2>1, <2>2, <2>8, <3>2
        <4>2. Little(x86Mem, b) = Big(m68kMem, b)
          BY <2>1, <4>1, Agreed
        <4>. QED  BY <2>6, <2>7, <4>1, <4>2
      <3>. QED  BY <3>1, <3>2
    <2>10. TypeOK'
      BY <2>1, <2>5, <2>6, <2>7, <2>8 DEF Inv, TypeOK, Machine, Memory
    <2>11. DataAgrees'
      BY <2>5, <2>9 DEF DataAgrees, SameData, Little, Big
    <2>12. BranchRight'
      BY <2>1 DEF BranchRight
    <2>. QED  BY <2>10, <2>11, <2>12 DEF Inv
  <1>6. CASE MoveaImm
    <2>1. ~gap /\ setter' = setter /\ UNCHANGED <<memory, gap>>
      BY <1>6 DEF MoveaImm
    <2>2. PICK v \in Immediate : m68k' = [m68k EXCEPT !.a6 = v] /\ x86' = [x86 EXCEPT !.a6 = v]
      BY <1>6 DEF MoveaImm
    <2>3. gap' \in BOOLEAN
      BY <2>1 DEF Inv, TypeOK
    <2>. QED  BY <1>a, <2>1, <2>2, <2>3, A6Step
  <1>7. CASE MoveaMem
    <2>1. ~gap /\ setter' = setter /\ UNCHANGED memory
      BY <1>7 DEF MoveaMem
    <2>2. PICK a \in LongAt :
              /\ m68k' = [m68k EXCEPT !.a6 = Big(m68kMem, a)]
              /\ x86'  = [x86 EXCEPT !.a6 = Little(x86Mem, a)]
              /\ gap'  = (a \notin whole)
      BY <1>7 DEF MoveaMem
    <2>3. PICK v \in Long, w \in Long : v = Big(m68kMem, a) /\ w = Little(x86Mem, a)
      BY <2>1, Agreed, Reads
    <2>4. ~gap' => v = w
      BY <2>1, <2>2, <2>3, Agreed
    <2>5. gap' \in BOOLEAN
      BY <2>2
    <2>6. m68k' = [m68k EXCEPT !.a6 = v] /\ x86' = [x86 EXCEPT !.a6 = w]
      BY <2>2, <2>3
    <2>. QED  BY <2>1, <2>4, <2>5, <2>6, A6Step
  <1>8. CASE MoveaExecBase
    <2>1. /\ ~gap /\ setter' = setter /\ UNCHANGED <<memory, gap>>
          /\ m68k' = [m68k EXCEPT !.a6 = ExecBase]
          /\ x86'  = [x86 EXCEPT !.a6 = Little(StoredExecBase, 0)]
      BY <1>8 DEF MoveaExecBase
    <2>2. gap' \in BOOLEAN
      BY <2>1 DEF Inv, TypeOK
    <2>. QED  BY <2>1, <2>2, ExecBaseStored, A6Step
  <1>9. CASE Subq
    <2>1. ~gap /\ setter' = "subq" /\ UNCHANGED memory
      BY <1>9 DEF Subq
    <2>2. PICK q \in Quick, r \in DataReg :
              /\ m68k' = SetFlagBy(SetData(m68k, r, (m68k.d[r] - (IF q = 0 THEN 8 ELSE q)) % LongSize),
                                   (m68k.d[r] - (IF q = 0 THEN 8 ELSE q)) % LongSize)
              /\ x86' = SetFlagBy(SetData(x86, r, Difference(x86.d[r], q)), Difference(x86.d[r], q))
              /\ gap' = (q = 0)
      BY <1>9 DEF Subq
    <2>3. PICK v \in Long : v = m68k.d[r] /\ v = x86.d[r]
      BY <2>1, Agreed, MachineFields DEF SameData
    <2>4. q \in Int /\ v \in Int
      BY OperandAssumption DEF Long
    <2>5. PICK s \in Long : s = (v - (IF q = 0 THEN 8 ELSE q)) % LongSize
      BY <2>4, Sizes, ModRange DEF Long
    <2>6. PICK t \in Long : t = (v - q) % LongSize
      BY <2>4, Sizes, ModRange DEF Long
    <2>7. m68k' = SetFlagBy(SetData(m68k, r, s), s) /\ x86' = SetFlagBy(SetData(x86, r, t), t)
      BY <2>2, <2>3, <2>5, <2>6 DEF Difference
    <2>8. ~gap' => s = t
      BY <2>2, <2>5, <2>6
    <2>9. SetData(m68k, r, s) \in Machine /\ SetData(x86, r, t) \in Machine
      BY <2>1, Agreed, SetDataFields
    <2>10. m68k' \in Machine /\ x86' \in Machine
      BY <2>7, <2>9, SetFlagFields
    <2>11. SameData(SetData(m68k, r, s), SetData(x86, r, s))
      BY <2>1, Agreed, SetBoth
    <2>12. ~gap' => SameData(m68k', x86') /\ x86'.z = m68k'.z
      BY <2>7, <2>8, <2>9, <2>11, FlagOfBoth
    <2>13. gap' \in BOOLEAN
      BY <2>2
    <2>. QED  BY <2>1, <2>10, <2>12, <2>13, RegisterStep
  <1>10. CASE Tst
    <2>1. ~gap /\ setter' = "tst" /\ UNCHANGED <<memory, gap>>
      BY <1>10 DEF Tst
    <2>2. PICK r \in DataReg : m68k' = SetFlagBy(m68k, m68k.d[r]) /\ x86' = SetFlagBy(x86, x86.d[r])
      BY <1>10 DEF Tst, Tested
    <2>3. m68k.d[r] = x86.d[r]
      BY <2>1, Agreed DEF SameData
    <2>4. /\ m68k' \in Machine /\ x86' \in Machine
          /\ SameData(m68k', x86') /\ x86'.z = m68k'.z
      BY <2>1, <2>2, <2>3, Agreed, FlagOfBoth
    <2>5. gap' \in BOOLEAN
      BY <2>1 DEF Inv, TypeOK
    <2>. QED  BY <2>1, <2>4, <2>5, RegisterStep
  <1>11. CASE Jsr
    <2>1. ~gap /\ setter' = "call" /\ UNCHANGED <<memory, gap>>
      BY <1>11 DEF Jsr
    <2>2. PICK v \in Immediate, r \in DataReg, z1 \in BOOLEAN, z2 \in BOOLEAN :
              /\ m68k' = [m68k EXCEPT !.d[r] = v, !.z = z1]
              /\ x86'  = [x86 EXCEPT !.d[r] = v, !.z = z2]
      BY <1>11 DEF Jsr
    <2>3. v \in Long
      BY <1>a
    <2>4. /\ SetData(m68k, r, v) \in Machine /\ SetData(x86, r, v) \in Machine
          /\ SameData(SetData(m68k, r, v), SetData(x86, r, v))
      BY <2>1, <2>3, Agreed, SetBoth
    <2>5. m68k' = [SetData(m68k, r, v) EXCEPT !.z = z1] /\ x86' = [SetData(x86, r, v) EXCEPT !.z = z2]
      BY <2>1, <2>2, Agreed DEF SetData, Machine
    <2>6. m68k' \in Machine /\ x86' \in Machine /\ SameData(m68k', x86')
      BY <2>4, <2>5 DEF Machine, SameData
    <2>7. gap' \in BOOLEAN
      BY <2>1 DEF Inv, TypeOK
    <2>. QED  BY <2>1, <2>6, <2>7, RegisterStep
  <1>12. CASE Gap \/ UNCHANGED vars
    <2>1. UNCHANGED <<m68k, x86, m68kMem, x86Mem, whole, setter, gap>>
      BY <1>12 DEF Gap, vars, memory
    <2>. QED  BY <2>1 DEF Inv, TypeOK, DataAgrees, BranchRight, Machine, Memory, Little, Big
  <1>. QED  BY <1>1, <1>2, <1>3, <1>4, <1>5, <1>6, <1>7, <1>8, <1>9, <1>10, <1>11, <1>12 DEF Next

\* The variables have their types.
THEOREM TypeCorrect == Spec => []TypeOK
  <1>1. Inv => TypeOK
    BY DEF Inv
  <1>. QED  BY <1>1, InitInv, NextInv, PTL DEF Spec

\* Registers, and the long words the program has written, have the same values on
\* both machines, for every size of a byte and of memory, until the program reads
\* a long word it has not written or subtracts the zero that stands for eight.
THEOREM DataAgreesCorrect == Spec => []DataAgrees
  <1>1. Inv => DataAgrees
    BY DEF Inv
  <1>. QED  BY <1>1, InitInv, NextInv, PTL DEF Spec

\* A branch after SUBQ or TST goes the same way on both machines.
THEOREM BranchRightCorrect == Spec => []BranchRight
  <1>1. Inv => BranchRight
    BY DEF Inv
  <1>. QED  BY <1>1, InitInv, NextInv, PTL DEF Spec
=============================================================================
