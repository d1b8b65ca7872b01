----------------------- MODULE TransUnitsGuestProofs ------------------------
(***************************************************************************)
(* What the guest executes, for every program and size: until a unit is    *)
(* rejected or spills, the translated program takes the steps of the 680x0 *)
(* and no others, and it is not killed.                                    *)
(***************************************************************************)
EXTENDS TransUnitsProofs, FiniteSetTheorems

USE NAddrAssumption, ProgramsAssumption, SizeAssumption

Started == phase = "boot" => saved = <<>> /\ retired = NoAddr /\ faults = {}

GuestInv == CodeInv /\ GuestOK /\ CrashHasCause /\ Started

-----------------------------------------------------------------------------
(* Where the guest is in the block of the unit at a.                       *)

\* At its k-th instruction, which is the n-th one or before, or at the jump
\* that follows the n-th one if this is a branch.
AtInstr(a, k, n) ==
    /\ n \in 0 .. NAddr - a /\ k \in 0 .. n + 1
    /\ gp[2] = CodeStart + k
    /\ HoldsBody(gp[1], a, n) /\ HoldsEnd(gp[1], a, n)
    /\ k = n + 1 => prog[a + n].op = "bcc"

InUnit(a) ==
    /\ a \in Addr /\ map[a] = gp[1] /\ gp[1] \in Block /\ gp[2] \in Index
    /\ gp = <<gp[1], gp[2]>>
    /\ \/ /\ gp[2] = 0 /\ saved = <<>>
          /\ CellAt(gp) \in {Save, Skip}
          /\ CellAt(gp) = Skip => Finished(gp[1])
       \/ gp[2] = 1 /\ Len(saved) = 1 /\ CellAt(gp) = Call(a)
       \/ /\ gp[2] = 2 /\ Len(saved) = 1 /\ CellAt(gp) = Restore
          /\ Finished(gp[1])
       \/ /\ gp[2] \in 3 .. CodeStart - 1 /\ saved = <<>> /\ CellAt(gp) = Nop
          /\ Finished(gp[1])
       \/ /\ gp[2] >= CodeStart /\ saved = <<>> /\ Finished(gp[1])
          /\ \E k \in Nat, n \in Nat : AtInstr(a, k, n)

LEMMA GuestPlace ==
    ASSUME GuestInv, faults = {}, Executing
    PROVE  \E a \in Addr : InUnit(a)
  <1>1. PICK a \in Addr :
           /\ map[a] = gp[1]
           /\ Len(saved) = (IF gp[2] \in {1, 2} THEN 1 ELSE 0)
           /\ gp[2] >= 2 => Finished(gp[1])
           /\ gp[2] > CodeStart =>
                 \E n \in 0 .. NAddr - a :
                     /\ HoldsBody(gp[1], a, n) /\ HoldsEnd(gp[1], a, n)
                     /\ \/ gp[2] <= CodeStart + n
                        \/ gp[2] = CodeStart + n + 1 /\ prog[a + n].op = "bcc"
    BY DEF GuestInv, GuestOK
  <1>2. /\ gp \in (0 .. NBlocks) \X Index /\ map[a] \in Block \cup {NoBlock}
        /\ saved \in Seq(BOOLEAN)
    BY DEF GuestInv, CodeInv, Inv, TypeOK, GuestType, CacheType
  <1>3. gp[1] \in Block /\ gp[2] \in Index /\ gp = <<gp[1], gp[2]>>
    BY <1>1, <1>2
  <1>4. map[a] # NoBlock /\ NoSpill
    BY <1>1, <1>3 DEF Block, NoSpill
  <1>5. /\ BlockOK(gp[1], a)
        /\ Finished(gp[1]) => HoldsUnit(gp[1], a)
    BY <1>1, <1>4, CodeInvParts DEF GuestInv, BlocksOK
  <1>6. gp[2] \notin {1, 2} => saved = <<>>
    BY <1>1, <1>2
  <1>7. CASE gp[2] = 0
    <2>1. CellAt(gp) \in {Save, Skip} /\ (CellAt(gp) = Skip => Finished(gp[1]))
      BY <1>5, <1>7 DEF BlockOK, CellAt, Finished
    <2> QED
      BY <1>1, <1>3, <1>6, <1>7, <2>1 DEF InUnit
  <1>8. CASE gp[2] = 1
    BY <1>1, <1>3, <1>5, <1>8 DEF InUnit, BlockOK, CellAt
  <1>9. CASE gp[2] = 2
    BY <1>1, <1>3, <1>5, <1>9 DEF InUnit, BlockOK, CellAt
  <1>10. CASE gp[2] \in 3 .. CodeStart - 1
    BY <1>1, <1>3, <1>5, <1>6, <1>10 DEF InUnit, BlockOK, CellAt
  <1>11. CASE gp[2] >= CodeStart
    <2>0. gp[2] >= 2 /\ gp[2] \notin {1, 2}
      BY <1>3, <1>11 DEF Index
    <2>1. Finished(gp[1]) /\ saved = <<>>
      BY <1>1, <1>6, <2>0
    <2>2. PICK n \in 0 .. NAddr - a :
             /\ HoldsBody(gp[1], a, n) /\ HoldsEnd(gp[1], a, n)
             /\ \/ gp[2] <= CodeStart + n
                \/ gp[2] = CodeStart + n + 1 /\ prog[a + n].op = "bcc"
      <3>1. CASE gp[2] > CodeStart
        BY <1>1, <3>1
      <3>2. CASE gp[2] = CodeStart
        <4>1. PICK n \in 0 .. NAddr - a :
                 HoldsBody(gp[1], a, n) /\ HoldsEnd(gp[1], a, n)
          BY <1>5, <2>1 DEF HoldsUnit
        <4>2. gp[2] <= CodeStart + n
          BY <3>2
        <4> QED
          BY <4>1, <4>2
      <3>3. gp[2] \in Nat
        BY <1>3 DEF Index
      <3> QED
        BY <1>11, <3>1, <3>2, <3>3
    <2>3. PICK k \in Nat : gp[2] = CodeStart + k
      <3>1. gp[2] - CodeStart \in Nat /\ gp[2] = CodeStart + (gp[2] - CodeStart)
        BY <1>3, <1>11 DEF Index
      <3> QED
        BY <3>1
    <2>4. k \in 0 .. n + 1 /\ (k = n + 1 => prog[a + n].op = "bcc")
      BY <2>2, <2>3 DEF Addr
    <2>5. AtInstr(a, k, n) /\ n \in Nat
      BY <2>2, <2>3, <2>4 DEF AtInstr
    <2> QED
      BY <1>1, <1>3, <1>11, <2>1, <2>5 DEF InUnit
  <1> QED
    BY <1>3, <1>7, <1>8, <1>9, <1>10, <1>11 DEF Index

\* What the cell is at the k-th instruction of a unit.
LEMMA InstrCell ==
    ASSUME CodeInv, NEW a \in Addr, NEW k \in Nat, NEW n \in Nat,
           AtInstr(a, k, n), gp[1] \in Block
    PROVE  /\ a + k \in Addr
           /\ \/ /\ k < n /\ CellAt(gp) = Ins(a + k) /\ prog[a + k] = Plain
                 /\ gp[2] + 1 < BlockCells
              \/ k = n /\ CellAt(gp) = Ret(a + k) /\ prog[a + k] = Rts
              \/ /\ k = n /\ prog[a + k].op = "bcc" /\ prog[a + k].to \in Addr
                 /\ map[prog[a + k].to] # NoBlock /\ gp[2] + 1 < BlockCells
                 /\ CellAt(gp) = Jcc(a + k, prog[a + k].eq, map[prog[a + k].to])
              \/ /\ k = n + 1 /\ map[a + k] # NoBlock
                 /\ CellAt(gp) = Jmp(map[a + k])
  <1>1. prog \in Programs /\ n <= NAddr - a /\ k <= n + 1 /\ a + n \in Addr
    BY DEF CodeInv, Inv, TypeOK, AtInstr, Addr
  <1>2. \/ prog[a + n] = Rts /\ mem[gp[1]][CodeStart + n] = Ret(a + n)
           /\ CodeStart + n < BlockCells
        \/ /\ prog[a + n].op = "bcc" /\ CodeStart + n + 1 < BlockCells
           /\ map[prog[a + n].to] # NoBlock /\ map[a + n + 1] # NoBlock
           /\ mem[gp[1]][CodeStart + n]
                 = Jcc(a + n, prog[a + n].eq, map[prog[a + n].to])
           /\ mem[gp[1]][CodeStart + n + 1] = Jmp(map[a + n + 1])
    BY DEF AtInstr, HoldsEnd
  <1>3. prog[a + n].op = "bcc" => prog[a + n].to \in Addr /\ a + n + 1 \in Addr
    BY <1>1, InstrFields
  <1>4. gp[2] = CodeStart + k
    BY DEF AtInstr
  <1>5. CASE k < n
    <2>1. k \in 0 .. n - 1 /\ a + k \in Addr
      BY <1>1, <1>5 DEF Addr
    <2>2. prog[a + k] = Plain /\ mem[gp[1]][CodeStart + k] = Ins(a + k)
      BY <2>1 DEF AtInstr, HoldsBody
    <2>3. gp[2] + 1 < BlockCells
      BY <1>2, <1>4, <1>5
    <2> QED
      BY <1>4, <1>5, <2>1, <2>2, <2>3 DEF CellAt
  <1>6. CASE k = n
    <2>1. prog[a + n] = Rts => prog[a + n].op # "bcc"
      BY DEF Rts
    <2>2. gp[2] + 1 = CodeStart + n + 1
      BY <1>4, <1>6
    <2> QED
      BY <1>1, <1>2, <1>3, <1>4, <1>6, <2>2 DEF CellAt
  <1>7. CASE k = n + 1
    <2>1. prog[a + n].op = "bcc"
      BY <1>7 DEF AtInstr
    <2>2. prog[a + n] # Rts
      BY <2>1 DEF Rts
    <2>3. a + k = a + n + 1 /\ CodeStart + k = CodeStart + n + 1
      BY <1>7 DEF Addr
    <2> QED
      BY <1>2, <1>3, <1>4, <1>7, <2>1, <2>2, <2>3 DEF CellAt
  <1> QED
    BY <1>1, <1>5, <1>6, <1>7

\* Where the guest is, by the kind of cell it is at.
LEMMA UnitCell ==
    ASSUME CodeInv, NEW a, InUnit(a)
    PROVE  /\ CellAt(gp).t \notin {"zero", "broken"}
           /\ CellAt(gp).t = "save" => gp[2] = 0 /\ saved = <<>>
           /\ CellAt(gp).t = "skip" =>
                 gp[2] = 0 /\ saved = <<>> /\ Finished(gp[1])
           /\ CellAt(gp).t = "call" =>
                 gp[2] = 1 /\ Len(saved) = 1 /\ CellAt(gp).src = a
           /\ CellAt(gp).t = "restore" =>
                 gp[2] = 2 /\ Len(saved) = 1 /\ Finished(gp[1])
           /\ CellAt(gp).t = "nop" =>
                 /\ gp[2] \in 3 .. CodeStart - 1
                 /\ saved = <<>> /\ Finished(gp[1])
           /\ CellAt(gp).t \in {"ins", "ret", "jcc", "jmp"} =>
                 /\ gp[2] >= CodeStart /\ saved = <<>> /\ Finished(gp[1])
                 /\ \E k \in Nat, n \in Nat : AtInstr(a, k, n)
  <1>1. a \in Addr /\ gp[1] \in Block
    BY DEF InUnit
  <1>2. CASE gp[2] = 0
    BY <1>1, <1>2 DEF InUnit, Save, Skip
  <1>3. CASE gp[2] = 1
    BY <1>1, <1>3 DEF InUnit, Call
  <1>4. CASE gp[2] = 2
    BY <1>1, <1>4 DEF InUnit, Restore
  <1>5. CASE gp[2] \in 3 .. CodeStart - 1
    BY <1>1, <1>5 DEF InUnit, Nop
  <1>6. CASE /\ gp[2] >= CodeStart /\ saved = <<>> /\ Finished(gp[1])
             /\ \E k \in Nat, n \in Nat : AtInstr(a, k, n)
    <2>1. PICK k \in Nat, n \in Nat : AtInstr(a, k, n)
      BY <1>6
    <2>2. \/ CellAt(gp) = Ins(a + k)
          \/ CellAt(gp) = Ret(a + k)
          \/ CellAt(gp) = Jcc(a + k, prog[a + k].eq, map[prog[a + k].to])
          \/ CellAt(gp) = Jmp(map[a + k])
      BY <1>1, <2>1, InstrCell
    <2>3. CellAt(gp).t \in {"ins", "ret", "jcc", "jmp"}
      BY <2>2 DEF Ins, Ret, Jcc, Jmp
    <2> QED
      BY <1>6, <2>3
  <1> QED
    BY <1>2, <1>3, <1>4, <1>5, <1>6 DEF InUnit

-----------------------------------------------------------------------------
(* The 680x0's program counter.                                            *)

\* Only one source address is mapped to a block.
LEMMA SrcOfUnique ==
    ASSUME NEW m,
           \A c, d \in Addr : m[c] # NoBlock /\ m[c] = m[d] => c = d,
           NEW a \in Addr, m[a] # NoBlock
    PROVE  (CHOOSE c \in Addr : m[c] = m[a]) = a
  OBVIOUS

\* An instruction's address while the guest is in the code of its unit.
Offset(i) == IF i <= CodeStart THEN 0 ELSE i - CodeStart

LEMMA PcBefore ==
    ASSUME CacheSound, NEW a \in Addr, map[a] = gp[1], gp[1] \in Block,
           phase \notin {"boot", "abort"}
    PROVE  GuestPc = a + Offset(gp[2])
  <1>1. map[a] # NoBlock
    BY DEF Block
  <1>2. SrcOf(gp[1]) = a
    BY <1>1, SrcOfUnique DEF SrcOf, CacheSound
  <1> QED
    BY <1>2 DEF GuestPc, Offset

LEMMA PcAfter ==
    ASSUME CacheSound', NEW a \in Addr, map'[a] = gp'[1], gp'[1] \in Block,
           phase' \notin {"boot", "abort"}
    PROVE  GuestPc' = a + Offset(gp'[2])
  <1>1. map'[a] # NoBlock
    BY DEF Block
  <1>2. SrcOf(gp[1])' = a
    BY <1>1, SrcOfUnique DEF SrcOf, CacheSound
  <1> QED
    BY <1>2 DEF GuestPc, Offset

\* The guest stays in its unit, before the first instruction: no 680x0 step.
LEMMA StubStep ==
    ASSUME Inv, Inv', NEW a \in Addr,
           map[a] = gp[1], map'[a] = gp[1], gp[1] \in Block, gp'[1] = gp[1],
           gp[2] \in Nat, gp'[2] \in Nat,
           gp[2] <= CodeStart, gp'[2] <= CodeStart,
           phase \notin {"boot", "abort", "halt"},
           phase' \notin {"boot", "abort", "halt"},
           GuestZ' = GuestZ, UNCHANGED <<prog, retired>>
    PROVE  UNCHANGED Guest!vars
  <1>1. GuestPc = a /\ GuestPc' = a
    BY PcBefore, PcAfter DEF Inv, Offset, Addr
  <1> QED
    BY <1>1 DEF Guest!vars

-----------------------------------------------------------------------------
(* The steps.                                                              *)

Simulates == Guest!Next \/ UNCHANGED Guest!vars

\* GuestOK after a step, from the unit the guest is then in.
LEMMA StubPlace ==
    ASSUME NEW a \in Addr, map'[a] = gp'[1], gp'[2] \in Nat,
           gp'[2] <= CodeStart,
           Len(saved') = (IF gp'[2] \in {1, 2} THEN 1 ELSE 0),
           gp'[2] >= 2 => mem'[gp'[1]][0] = Skip
    PROVE  GuestOK'
  <1>1. ~(gp'[2] > CodeStart)
    OBVIOUS
  <1> QED
    BY <1>1 DEF GuestOK, Finished

LEMMA CodePlace ==
    ASSUME NEW a \in Addr, NEW n \in 0 .. NAddr - a,
           UNCHANGED <<prog, map, mem>>, map[a] = gp[1], gp'[1] = gp[1],
           HoldsBody(gp[1], a, n), HoldsEnd(gp[1], a, n),
           Finished(gp[1]), saved' = <<>>,
           gp'[2] \in Nat, gp'[2] >= CodeStart,
           \/ gp'[2] <= CodeStart + n
           \/ gp'[2] = CodeStart + n + 1 /\ prog[a + n].op = "bcc"
    PROVE  GuestOK'
  <1>1. Finished(gp[1])' /\ map'[a] = gp'[1]
    BY DEF Finished
  <1>2. HoldsBody(gp[1], a, n)' /\ HoldsEnd(gp[1], a, n)'
    BY DEF HoldsBody, HoldsEnd
  <1>3. gp'[2] \notin {1, 2} /\ Len(saved') = 0
    OBVIOUS
  <1> QED
    BY <1>1, <1>2, <1>3 DEF GuestOK

LEMMA RunStep ==
    ASSUME GuestInv, Inv', RunGuest, faults = {}
    PROVE  GuestOK' /\ phase' # "dead" /\ Simulates
  <1>. USE DEF GuestAt
  <1>0. /\ UNCHANGED <<prog, map, nextBlock, mem, faults>> /\ phase = "run"
        /\ CodeInv /\ Inv
    BY DEF RunGuest, RunNop, RunSkip, RunIns, RunJcc, RunJmp, RunRet, RunSave,
           RunCall, RunRestore, RunBroken, RunWild, GuestOnly, cache,
           GuestInv, CodeInv
  <1>1. PICK a \in Addr : InUnit(a)
    BY <1>0, GuestPlace DEF Executing
  <1>2. /\ map[a] = gp[1] /\ gp[1] \in Block /\ gp[2] \in Index
        /\ gp[2] \in Nat /\ InPool(gp)
    BY <1>1 DEF InUnit, InPool, Block, Index
  <1>3. phase \notin {"boot", "abort", "halt"}
    BY <1>0
  <1>4. CodeStart < BlockCells /\ CodeStart >= 3
    OBVIOUS
  <1>5. CASE RunNop
    <2>1. gp[2] \in 3 .. CodeStart - 1 /\ saved = <<>> /\ Finished(gp[1])
      BY <1>0, <1>1, <1>5, UnitCell DEF RunNop
    <2>2. gp' = <<gp[1], gp[2] + 1>> /\ saved' = <<>> /\ z' = z
          /\ phase' = "run" /\ retired' = retired
      BY <1>5, <2>1 DEF RunNop, After
    <2>3. GuestOK'
      BY <1>0, <1>2, <2>1, <2>2, StubPlace DEF Finished
    <2>4. GuestZ' = GuestZ
      BY <2>1, <2>2 DEF GuestZ
    <2>5. UNCHANGED Guest!vars
      BY <1>0, <1>2, <1>3, <2>1, <2>2, <2>4, StubStep
    <2> QED
      BY <2>2, <2>3, <2>5 DEF Simulates
  <1>6. CASE RunSkip
    <2>1. gp[2] = 0 /\ saved = <<>> /\ Finished(gp[1])
      BY <1>0, <1>1, <1>6, UnitCell DEF RunSkip
    <2>2. gp' = <<gp[1], CodeStart>> /\ saved' = <<>> /\ z' = z
          /\ phase' = "run" /\ retired' = retired
      BY <1>6, <2>1 DEF RunSkip
    <2>3. GuestOK'
      BY <1>0, <1>2, <2>1, <2>2, StubPlace DEF Finished
    <2>4. GuestZ' = GuestZ
      BY <2>1, <2>2 DEF GuestZ
    <2>5. UNCHANGED Guest!vars
      BY <1>0, <1>2, <1>3, <2>1, <2>2, <2>4, StubStep
    <2> QED
      BY <2>2, <2>3, <2>5 DEF Simulates
  <1>7. CASE RunSave
    <2>1. gp[2] = 0 /\ saved = <<>>
      BY <1>0, <1>1, <1>7, UnitCell DEF RunSave
    <2>2. gp' = <<gp[1], 1>> /\ saved' = <<z>> /\ z' = z
          /\ phase' = "run" /\ retired' = retired
      BY <1>7, <2>1 DEF RunSave, After
    <2>3. GuestOK'
      BY <1>0, <1>2, <2>2, StubPlace
    <2>4. GuestZ' = GuestZ
      BY <2>1, <2>2 DEF GuestZ
    <2>5. UNCHANGED Guest!vars
      BY <1>0, <1>2, <1>3, <2>1, <2>2, <2>4, StubStep
    <2> QED
      BY <2>2, <2>3, <2>5 DEF Simulates
  <1>8. CASE RunCall
    <2>1. gp[2] = 1 /\ Len(saved) = 1 /\ CellAt(gp).src = a
      BY <1>0, <1>1, <1>8, UnitCell DEF RunCall
    <2>2. phase' = "translate" /\ gp' = gp /\ saved' = saved
          /\ retired' = retired
      BY <1>2, <1>8, <2>1 DEF RunCall, Block
    <2>3. GuestOK'
      BY <1>0, <1>2, <2>1, <2>2, StubPlace
    <2>4. GuestZ' = GuestZ
      <3>1. saved # <<>>
        BY <2>1
      <3> QED
        BY <2>2, <3>1 DEF GuestZ
    <2>5. UNCHANGED Guest!vars
      BY <1>0, <1>2, <1>3, <2>1, <2>2, <2>4, StubStep
    <2> QED
      BY <2>2, <2>3, <2>5 DEF Simulates
  <1>9. CASE RunRestore
    <2>1. gp[2] = 2 /\ Len(saved) = 1 /\ Finished(gp[1])
      BY <1>0, <1>1, <1>9, UnitCell DEF RunRestore
    <2>2. saved' = <<>>
      BY <1>0, <1>9, <2>1 DEF RunRestore, Inv, TypeOK, GuestType
    <2>3. gp' = <<gp[1], 3>> /\ z' = saved[Len(saved)]
          /\ phase' = "run" /\ retired' = retired
      BY <1>9, <2>1 DEF RunRestore, After
    <2>4. GuestOK'
      BY <1>0, <1>2, <2>1, <2>2, <2>3, StubPlace DEF Finished
    <2>5. GuestZ' = GuestZ
      <3>1. saved # <<>>
        BY <1>9 DEF RunRestore
      <3> QED
        BY <2>2, <2>3, <3>1 DEF GuestZ
    <2>6. UNCHANGED Guest!vars
      BY <1>0, <1>2, <1>3, <2>1, <2>3, <2>5, StubStep
    <2> QED
      BY <2>3, <2>4, <2>6 DEF Simulates
  <1>10. CASE RunBroken
    BY <1>0, <1>1, <1>10, UnitCell DEF RunBroken
  <1>11. CASE RunWild
    <2>1. CASE CellAt(gp).t = "ret" /\ saved # <<>>
      BY <1>0, <1>1, <2>1, UnitCell
    <2>2. CASE CellAt(gp).t = "save" /\ Len(saved) = StackDepth
      <3>1. saved = <<>>
        BY <1>0, <1>1, <2>2, UnitCell
      <3> QED
        BY <2>2, <3>1
    <2>3. CASE CellAt(gp).t = "restore" /\ saved = <<>>
      <3>1. Len(saved) = 1
        BY <1>0, <1>1, <2>3, UnitCell
      <3> QED
        BY <2>3, <3>1
    <2> QED
      BY <1>2, <1>11, <2>1, <2>2, <2>3 DEF RunWild
  <1>12. CASE CellAt(gp).t \in {"ins", "ret", "jcc", "jmp"}
    <2>1. gp[2] >= CodeStart /\ saved = <<>> /\ Finished(gp[1])
      BY <1>0, <1>1, <1>12, UnitCell
    <2>2. PICK k \in Nat, n \in Nat : AtInstr(a, k, n)
      BY <1>0, <1>1, <1>12, UnitCell
    <2>3. a \in Addr /\ gp = <<gp[1], gp[2]>>
      BY <1>1 DEF InUnit
    <2>4. /\ n \in 0 .. NAddr - a /\ k \in 0 .. n + 1 /\ gp[2] = CodeStart + k
          /\ HoldsBody(gp[1], a, n) /\ HoldsEnd(gp[1], a, n)
      BY <2>2 DEF AtInstr
    <2>5. GuestPc = a + k /\ GuestZ = z
      <3>1. GuestPc = a + Offset(gp[2])
        BY <1>0, <1>2, <1>3, <2>3, PcBefore DEF Inv
      <3>2. Offset(gp[2]) = k
        BY <2>4 DEF Offset
      <3> QED
        BY <2>1, <3>1, <3>2 DEF GuestZ
    <2>6. CASE RunIns
      <3>1. /\ CellAt(gp) = Ins(a + k) /\ prog[a + k] = Plain /\ k < n
            /\ gp[2] + 1 < BlockCells /\ a + k \in Addr
        BY <1>0, <1>2, <2>2, <2>3, <2>6, InstrCell
           DEF RunIns, Ret, Jcc, Jmp
      <3>2. /\ retired' = a + k /\ z' \in BOOLEAN /\ phase' = "run"
            /\ saved' = <<>> /\ gp' = <<gp[1], gp[2] + 1>>
        BY <2>1, <2>6, <3>1 DEF RunIns, After, Ins
      <3>3. GuestOK'
        <4>1. gp'[1] = gp[1] /\ gp'[2] \in Nat /\ gp'[2] >= CodeStart
              /\ gp'[2] <= CodeStart + n
          BY <2>4, <3>1, <3>2
        <4> QED
          BY <1>0, <1>2, <2>1, <2>3, <2>4, <3>2, <4>1, CodePlace
      <3>4. GuestPc' = a + k + 1 /\ GuestZ' = z'
        <4>1. GuestPc' = a + Offset(gp'[2])
          BY <1>0, <1>2, <2>3, <3>2, PcAfter DEF Inv
        <4>2. Offset(gp'[2]) = k + 1
          BY <2>4, <3>2 DEF Offset
        <4> QED
          BY <2>3, <3>2, <4>1, <4>2 DEF GuestZ, Addr
      <3>5. Guest!ExecPlain
        BY <1>0, <2>5, <3>1, <3>2, <3>4
           DEF Guest!ExecPlain, Guest!Executes, Plain
      <3> QED
        BY <3>2, <3>3, <3>5 DEF Simulates, Guest!Next
    <2>7. CASE RunRet
      <3>1. CellAt(gp) = Ret(a + k) /\ prog[a + k] = Rts
        BY <1>0, <1>2, <2>2, <2>3, <2>7, InstrCell
           DEF RunRet, Ins, Jcc, Jmp
      <3>2. /\ retired' = a + k /\ z' = z /\ phase' = "halt"
            /\ saved' = <<>> /\ gp' = gp
        BY <2>1, <2>7, <3>1 DEF RunRet, Ret
      <3>3. GuestOK'
        BY <3>2 DEF GuestOK, Executing, Translating
      <3>4. GuestPc' = a + k /\ GuestZ' = z
        <4>1. GuestPc' = a + Offset(gp'[2])
          BY <1>0, <1>2, <2>3, <3>2, PcAfter DEF Inv
        <4>2. Offset(gp'[2]) = k
          BY <2>4, <3>2 DEF Offset
        <4> QED
          BY <3>2, <4>1, <4>2 DEF GuestZ
      <3>5. Guest!ExecRts
        BY <1>0, <2>5, <3>1, <3>2, <3>4
           DEF Guest!ExecRts, Guest!Executes, Rts
      <3> QED
        BY <3>2, <3>3, <3>5 DEF Simulates, Guest!Next
    <2>8. CASE RunJmp
      <3>1. /\ CellAt(gp) = Jmp(map[a + k]) /\ map[a + k] # NoBlock
            /\ a + k \in Addr
        BY <1>0, <1>2, <2>2, <2>3, <2>8, InstrCell
           DEF RunJmp, Ins, Ret, Jcc
      <3>2. /\ retired' = retired /\ z' = z /\ phase' = "run"
            /\ saved' = <<>> /\ gp' = <<map[a + k], 0>>
        BY <2>1, <2>8, <3>1 DEF RunJmp, Jmp
      <3>3. map[a + k] \in Block
        BY <1>0, <3>1 DEF Inv, TypeOK, CacheType
      <3>4. GuestOK'
        BY <1>0, <3>1, <3>2, StubPlace
      <3>5. GuestPc' = a + k /\ GuestZ' = z
        <4>1. GuestPc' = a + k + Offset(gp'[2])
          BY <1>0, <3>1, <3>2, <3>3, PcAfter DEF Inv
        <4>2. Offset(gp'[2]) = 0
          BY <3>2 DEF Offset
        <4> QED
          BY <3>1, <3>2, <4>1, <4>2 DEF GuestZ, Addr
      <3>6. UNCHANGED Guest!vars
        BY <1>0, <2>5, <3>2, <3>5 DEF Guest!vars
      <3> QED
        BY <3>2, <3>4, <3>6 DEF Simulates
    <2>9. CASE RunJcc
      <3>1. /\ k = n /\ prog[a + k].op = "bcc" /\ prog[a + k].to \in Addr
            /\ map[prog[a + k].to] # NoBlock /\ gp[2] + 1 < BlockCells
            /\ CellAt(gp) = Jcc(a + k, prog[a + k].eq, map[prog[a + k].to])
            /\ a + k \in Addr
        BY <1>0, <1>2, <2>2, <2>3, <2>9, InstrCell
           DEF RunJcc, Ins, Ret, Jmp
      <3>2. /\ CellAt(gp).src = a + k /\ CellAt(gp).eq = prog[a + k].eq
            /\ CellAt(gp).to = map[prog[a + k].to]
        BY <3>1 DEF Jcc
      <3>3. /\ retired' = a + k /\ z' = z /\ phase' = "run" /\ saved' = <<>>
        BY <2>1, <2>9, <3>2 DEF RunJcc
      <3>4. GuestZ' = z
        BY <3>3 DEF GuestZ
      <3>5. CASE z = prog[a + k].eq /\ gp' = <<map[prog[a + k].to], 0>>
        <4>1. map[prog[a + k].to] \in Block
          BY <1>0, <3>1 DEF Inv, TypeOK, CacheType
        <4>2. GuestOK'
          BY <1>0, <3>1, <3>3, <3>5, StubPlace
        <4>3. GuestPc' = prog[a + k].to
          <5>1. GuestPc' = prog[a + k].to + Offset(gp'[2])
            BY <1>0, <3>1, <3>3, <3>5, <4>1, PcAfter DEF Inv
          <5>2. Offset(gp'[2]) = 0
            BY <3>5 DEF Offset
          <5> QED
            BY <3>1, <5>1, <5>2 DEF Addr
        <4>4. Guest!ExecBcc
          BY <1>0, <2>5, <3>1, <3>3, <3>4, <3>5, <4>3
             DEF Guest!ExecBcc, Guest!Executes, Guest!Taken
        <4> QED
          BY <3>3, <4>2, <4>4 DEF Simulates, Guest!Next
      <3>6. CASE z # prog[a + k].eq /\ gp' = <<gp[1], gp[2] + 1>>
        <4>1. gp'[1] = gp[1] /\ gp'[2] \in Nat /\ gp'[2] >= CodeStart
              /\ gp'[2] = CodeStart + n + 1
          BY <2>4, <3>1, <3>6
        <4>2. GuestOK'
          BY <1>0, <1>2, <2>1, <2>3, <2>4, <3>1, <3>3, <4>1, CodePlace
        <4>3. GuestPc' = a + k + 1
          <5>1. GuestPc' = a + Offset(gp'[2])
            BY <1>0, <1>2, <2>3, <3>3, <4>1, PcAfter DEF Inv
          <5>2. Offset(gp'[2]) = k + 1
            BY <3>1, <4>1 DEF Offset
          <5> QED
            BY <2>3, <5>1, <5>2 DEF Addr
        <4>4. Guest!ExecBcc
          BY <1>0, <2>5, <3>1, <3>3, <3>4, <3>6, <4>3
             DEF Guest!ExecBcc, Guest!Executes, Guest!Taken
        <4> QED
          BY <3>3, <4>2, <4>4 DEF Simulates, Guest!Next
      <3>7. \/ z = prog[a + k].eq /\ gp' = <<map[prog[a + k].to], 0>>
            \/ z # prog[a + k].eq /\ gp' = <<gp[1], gp[2] + 1>>
        BY <2>9, <3>1, <3>2 DEF RunJcc, After
      <3> QED
        BY <3>5, <3>6, <3>7
    <2> QED
      BY <1>12, <2>6, <2>7, <2>8, <2>9, <1>5, <1>6, <1>7, <1>8, <1>9, <1>10,
         <1>11 DEF RunGuest
  <1> QED
    BY <1>5, <1>6, <1>7, <1>8, <1>9, <1>10, <1>11, <1>12
       DEF RunGuest, RunIns, RunJcc, RunJmp, RunRet

\* translate_tu() is transparent to the guest as long as it does not fail.
LEMMA TranslateStep ==
    ASSUME GuestInv, Inv', Translate, faults' = {}
    PROVE  GuestOK' /\ phase' # "dead" /\ UNCHANGED Guest!vars
  <1>0. faults = {} /\ Translating /\ Executing /\ CodeInv /\ Inv
    BY DEF Translate, TranslatePlain, TranslateRts, TranslateBad, TranslateHalf,
           TranslateBcc, SetupTaken, SetupFall, LinkBcc, TranslateCrash, GiveUp,
           Decoding, Translating, Executing, GuestInv, CodeInv
  <1>1. gp = <<map[unit], 1>> /\ map[unit] \in Block /\ unit \in Addr
    BY <1>0, TranslatorFacts
       DEF CodeInv, HeadOK, Inv, TypeOK, TranslatorType
  <1>2. Len(saved) = 1
    BY <1>0, <1>1, GuestPlace DEF InUnit
  <1>3. UNCHANGED <<prog, z, saved, retired>>
    BY DEF Translate, TranslatePlain, TranslateRts, TranslateBad, TranslateHalf,
           TranslateBcc, SetupTaken, SetupFall, LinkBcc, TranslateCrash, guest
  <1>4. map'[unit] = map[unit]
    <2>1. CASE map' = map
      BY <2>1
    <2>2. CASE SetupTaken \/ SetupFall
      <3>1. PICK a \in Addr, r \in Block \cup {NoBlock} : SetupTU(a, r)
        BY <1>0, <2>2, TranslatorFacts
           DEF SetupTaken, SetupFall, Inv, TranslatorOK
      <3> QED
        BY <1>0, <1>1, <3>1, SetupTUSound DEF Inv, TypeOK, Block
    <2> QED
      BY <2>1, <2>2
         DEF Translate, TranslatePlain, TranslateRts, TranslateBad,
             TranslateHalf, TranslateBcc, LinkBcc, TranslateCrash, cache
  <1>5. \/ Translating' /\ gp' = gp
        \/ /\ phase' = "run" /\ gp' = After(gp)
           /\ mem'[map[unit]][0] = Skip
    <2>1. mem \in [Block -> [Index -> Cell]] /\ 0 \in Index
      BY <1>0 DEF Inv, TypeOK, CacheType, Index
    <2>2. CASE TranslateRts \/ LinkBcc
      BY <1>1, <2>1, <2>2 DEF TranslateRts, LinkBcc, ReturnToStub
    <2> QED
      BY <2>2
         DEF Translate, TranslatePlain, TranslateBad, TranslateHalf,
             TranslateBcc, SetupTaken, SetupFall, TranslateCrash, GiveUp,
             Decoding, Translating, guest
  <1>6. /\ gp[1] = map[unit] /\ gp[2] = 1
        /\ gp'[1] = gp[1] /\ gp'[2] \in {1, 2}
        /\ gp'[2] = 2 => mem'[gp'[1]][0] = Skip
    BY <1>1, <1>5 DEF After
  <1>7. GuestOK'
    BY <1>1, <1>2, <1>3, <1>4, <1>6, StubPlace
  <1>8. phase' \notin {"boot", "abort", "halt", "dead"}
        /\ phase \notin {"boot", "abort", "halt"}
    BY <1>0, <1>5 DEF Translating
  <1>9. GuestZ' = GuestZ
    BY <1>3 DEF GuestZ
  <1> QED
    BY <1>0, <1>1, <1>3, <1>4, <1>6, <1>7, <1>8, <1>9, StubStep

LEMMA BootStep ==
    ASSUME GuestInv, Inv', Boot
    PROVE  GuestOK' /\ phase' # "dead" /\ UNCHANGED Guest!vars
  <1>0. saved = <<>> /\ phase = "boot" /\ CacheType /\ CacheSound
    BY DEF GuestInv, Started, Boot, CodeInv, Inv, TypeOK
  <1>1. PICK r \in Block \cup {NoBlock} :
           /\ SetupTU(0, r)
           /\ \/ r # NoBlock /\ phase' = "run" /\ gp' = <<r, 0>>
              \/ r = NoBlock /\ phase' = "abort" /\ gp' = gp
    BY DEF Boot
  <1>2. UNCHANGED <<prog, z, saved, retired>> /\ 0 \in Addr
    BY DEF Boot, Addr
  <1>3. GuestPc = 0 /\ GuestZ' = GuestZ
    BY <1>0, <1>2 DEF GuestPc, GuestZ
  <1>4. CASE r # NoBlock
    <2>1. r \in Block /\ map'[0] = r /\ gp' = <<r, 0>> /\ phase' = "run"
      BY <1>0, <1>1, <1>2, <1>4, SetupTUSound
    <2>2. GuestOK'
      BY <1>0, <1>2, <2>1, StubPlace
    <2>3. GuestPc' = 0
      <3>1. GuestPc' = 0 + Offset(gp'[2])
        BY <1>2, <2>1, PcAfter DEF Inv
      <3> QED
        BY <2>1, <3>1 DEF Offset
    <2> QED
      BY <1>0, <1>2, <1>3, <2>1, <2>2, <2>3 DEF Guest!vars
  <1>5. CASE r = NoBlock
    <2>1. phase' = "abort"
      BY <1>1, <1>5
    <2>2. GuestOK' /\ GuestPc' = 0
      BY <2>1 DEF GuestOK, Executing, Translating, GuestPc
    <2> QED
      BY <1>0, <1>2, <1>3, <2>1, <2>2 DEF Guest!vars
  <1> QED
    BY <1>4, <1>5

\* Faults do not go away.
LEMMA FaultsStay == ASSUME [Next]_vars PROVE faults' = {} => faults = {}
  BY DEF Next, Boot, RunGuest, RunNop, RunSkip, RunIns, RunJcc, RunJmp, RunRet,
         RunSave, RunCall, RunRestore, RunBroken, RunWild, GuestOnly, Ended,
         Translate, TranslatePlain, TranslateRts, TranslateBad, TranslateHalf,
         TranslateBcc, SetupTaken, SetupFall, LinkBcc, TranslateCrash, GiveUp,
         vars

LEMMA NextStep ==
    ASSUME GuestInv, [Next]_vars, faults' = {}
    PROVE  GuestOK' /\ (phase' = "dead" => phase = "dead") /\ Simulates
  <1>1. faults = {} /\ Inv'
    BY FaultsStay, NextInv DEF GuestInv, CodeInv
  <1>2. CASE UNCHANGED vars
    <2>1. GuestOK'
      BY <1>2 DEF vars, cache, guest, translator, GuestInv, GuestOK, Executing,
                  Translating, Finished, HoldsBody, HoldsEnd
    <2>2. UNCHANGED Guest!vars
      BY <1>2 DEF vars, cache, guest, translator, Guest!vars, GuestPc, GuestZ,
                  SrcOf
    <2> QED
      BY <1>2, <2>1, <2>2 DEF vars, Simulates
  <1>3. CASE Boot
    BY <1>1, <1>3, BootStep DEF Simulates
  <1>4. CASE RunGuest
    BY <1>1, <1>4, RunStep
  <1>5. CASE Translate
    BY <1>1, <1>5, TranslateStep DEF Simulates
  <1> QED
    BY <1>2, <1>3, <1>4, <1>5 DEF Next, Ended

-----------------------------------------------------------------------------
(* The theorems.                                                           *)

LEMMA InitGuest == Init => GuestInv
  BY InitCode
     DEF Init, GuestInv, GuestOK, Executing, Translating, CrashHasCause, Started

LEMMA NextGuest == GuestInv /\ [Next]_vars => GuestInv'
  <1> SUFFICES ASSUME GuestInv, [Next]_vars PROVE GuestInv'
    OBVIOUS
  <1>1. CodeInv'
    BY NextCode DEF GuestInv
  <1>2. GuestOK'
    BY NextStep DEF GuestOK
  <1>3. CrashHasCause'
    BY NextStep, FaultsStay DEF GuestInv, CrashHasCause
  <1>4. Started'
    BY DEF GuestInv, Started, Next, Boot, RunGuest, RunNop, RunSkip, RunIns,
           RunJcc, RunJmp, RunRet, RunSave, RunCall, RunRestore, RunBroken,
           RunWild, GuestAt, GuestOnly, Ended, Translate, TranslatePlain,
           TranslateRts, TranslateBad, TranslateHalf, TranslateBcc, SetupTaken,
           SetupFall, LinkBcc, TranslateCrash, GiveUp, ReturnToStub, Decoding,
           vars, guest
  <1> QED
    BY <1>1, <1>2, <1>3, <1>4 DEF GuestInv

THEOREM GuestInvCorrect == Spec => []GuestInv
  BY InitGuest, NextGuest, PTL DEF Spec

\* The guest is never killed unless a unit was rejected or has spilled.
THEOREM CrashHasCauseCorrect == Spec => []CrashHasCause
  BY GuestInvCorrect, PTL DEF GuestInv

\* Until then the guest is behind a stub's call in finished blocks only.
THEOREM GuestOKCorrect == Spec => []GuestOK
  BY GuestInvCorrect, PTL DEF GuestInv

\* Until then every step is one of the 680x0, or none.
THEOREM InOrderUntilFaultCorrect == Spec => InOrderUntilFault
  <1>1. GuestInv /\ [Next]_vars =>
           [faults' = {} => Guest!Next \/ UNCHANGED Guest!vars]_vars
    BY NextStep DEF Simulates
  <1> QED
    BY <1>1, GuestInvCorrect, PTL DEF Spec, InOrderUntilFault

\* In a run where no unit is rejected nor spills, the translated program
\* implements the 680x0's: TransUnits refines M68k.
THEOREM Refinement ==
    Spec /\ [](faults = {}) => Guest!Init /\ [][Guest!Next]_Guest!vars
  <1>1. Init => Guest!Init
    <2> SUFFICES ASSUME Init PROVE Guest!Init
      OBVIOUS
    <2>1. GuestPc = 0 /\ (phase # "halt") = TRUE
      BY DEF Init, GuestPc
    <2>2. GuestZ \in BOOLEAN
      BY DEF Init, GuestZ
    <2> QED
      BY <2>1, <2>2 DEF Init, Guest!Init, NoAddr, Guest!NoAddr
  <1>2. GuestInv /\ [Next]_vars /\ (faults = {})' => [Guest!Next]_Guest!vars
    BY NextStep DEF Simulates
  <1> QED
    BY <1>1, <1>2, GuestInvCorrect, PTL DEF Spec

-----------------------------------------------------------------------------
(* With memory enough there are no faults.                                 *)

InCode == 0 .. NAddr - 1
Mapped == {a \in Addr : map[a] # NoBlock}

\* Programs made of instructions the translator has handlers for, which stay
\* within themselves and end in an RTS.
WellFormedPrograms ==
    \A pr \in Programs :
        /\ pr[NAddr - 1] = Rts
        /\ \A a \in InCode :
              \/ pr[a] \in {Plain, Rts}
              \/ pr[a].op = "bcc" /\ pr[a].to \in InCode

\* A block for every instruction, and room for all of them in a block.
EnoughMemory ==
    /\ NBlocks >= NAddr
    /\ BlockCells >= CodeStart + NAddr
    /\ MallocFails = FALSE

\* As many blocks are handed out as there are units, and a unit starts in the
\* code and is translated no further than its end.
RoomInv ==
    /\ faults = {}
    /\ phase # "abort"
    /\ nextBlock = Cardinality(Mapped)
    /\ Mapped \subseteq InCode
    /\ Translating => p \in InCode

LEMMA InCodeFinite ==
    ASSUME NAddr > 0
    PROVE  IsFiniteSet(InCode) /\ Cardinality(InCode) = NAddr
  <1>1. 0 \in Int /\ NAddr - 1 \in Int
    OBVIOUS
  <1> QED
    BY <1>1, FS_Interval DEF InCode

\* There is a block for an address of the code that has none.
LEMMA BlockLeft ==
    ASSUME NAddr > 0, EnoughMemory, NEW S \in SUBSET InCode,
           NEW a \in InCode, a \notin S
    PROVE  /\ IsFiniteSet(S) /\ Cardinality(S) < NBlocks
           /\ Cardinality(S \cup {a}) = Cardinality(S) + 1
  <1>1. IsFiniteSet(S)
    BY InCodeFinite, FS_Subset
  <1>2. Cardinality(S) \in Nat /\ Cardinality(S) <= NAddr /\ Cardinality(S) # NAddr
    BY <1>1, InCodeFinite, FS_Subset, FS_CardinalityType
  <1>3. Cardinality(S \cup {a}) = Cardinality(S) + 1
    BY <1>1, FS_AddElement
  <1> QED
    BY <1>1, <1>2, <1>3 DEF EnoughMemory

\* setup_tu() succeeds for an address of the code.
LEMMA SetupRoom ==
    ASSUME NAddr > 0, EnoughMemory, CacheType,
           nextBlock = Cardinality(Mapped), Mapped \subseteq InCode,
           NEW a \in InCode, NEW r \in Block \cup {NoBlock}, SetupTU(a, r)
    PROVE  /\ r # NoBlock
           /\ nextBlock' = Cardinality(Mapped') /\ Mapped' \subseteq InCode
  <1>0. a \in Addr /\ NoBlock \notin Block
    BY DEF InCode, Addr, Block
  <1>1. CASE CacheHit(a, r)
    BY <1>1 DEF CacheHit, Mapped, cache
  <1>2. CASE map[a] = NoBlock
    <2>1. a \notin Mapped
      BY <1>2 DEF Mapped
    <2>2. nextBlock < NBlocks /\ Cardinality(Mapped \cup {a}) = nextBlock + 1
      BY <2>1, BlockLeft
    <2>3. NewUnit(a, r)
      BY <1>2, <2>2 DEF EnoughMemory, SetupTU, CacheHit, PoolFull,
                        NodeMallocFails, CacheType
    <2>4. /\ r = nextBlock /\ nextBlock' = nextBlock + 1 /\ r # NoBlock
          /\ map' = [map EXCEPT ![a] = r]
      BY <2>3, SizeAssumption DEF NewUnit, CacheType
    <2>5. Mapped' = Mapped \cup {a}
      BY <1>0, <2>4 DEF Mapped, CacheType
    <2> QED
      BY <2>2, <2>4, <2>5
  <1> QED
    BY <1>1, <1>2 DEF CacheHit, PoolFull, NodeMallocFails, NewUnit, SetupTU

LEMMA InitRoom == ASSUME NAddr > 0, Init PROVE RoomInv
  <1>1. Mapped = {}
    BY DEF Init, Mapped
  <1>2. Cardinality(Mapped) = 0
    BY <1>1, FS_EmptySet
  <1> QED
    BY <1>1, <1>2 DEF Init, RoomInv, Translating

LEMMA BootRoom ==
    ASSUME NAddr > 0, EnoughMemory, Inv, RoomInv, Boot
    PROVE  RoomInv'
  <1>1. PICK r \in Block \cup {NoBlock} :
          /\ SetupTU(0, r)
          /\ \/ r # NoBlock /\ phase' = "run"
             \/ r = NoBlock /\ phase' = "abort"
    BY DEF Boot
  <1>2. 0 \in InCode
    BY DEF InCode
  <1>3. r # NoBlock /\ nextBlock' = Cardinality(Mapped') /\ Mapped' \subseteq InCode
    BY <1>1, <1>2, SetupRoom DEF RoomInv, Inv, TypeOK
  <1> QED
    BY <1>1, <1>3 DEF Boot, RoomInv, Translating

\* The guest starts a translation only for a unit of the cache.
LEMMA RunRoom ==
    ASSUME Inv, RoomInv, RunGuest
    PROVE  RoomInv'
  <1>1. faults' = faults /\ phase' # "abort" /\ UNCHANGED <<map, nextBlock>>
    BY DEF RunGuest, RunNop, RunSkip, RunIns, RunJcc, RunJmp, RunRet, RunSave,
           RunCall, RunRestore, RunBroken, RunWild, GuestAt, GuestOnly, cache,
           RoomInv
  <1>2. Mapped' = Mapped
    BY <1>1 DEF Mapped
  <1>3. Translating' => p' \in Mapped
    <2>1. CASE RunCall
      <3>1. phase = "run" /\ CellAt(gp).t = "call" /\ CellAt(gp) \in Cell
        BY <2>1, GuestCell DEF RunCall, GuestAt, Inv, TypeOK
      <3>2. CellAt(gp).src \in Addr
        BY <3>1, CellFields
      <3> QED
        BY <2>1, <3>1, <3>2 DEF RunCall, Mapped, Translating
    <2>2. CASE ~RunCall
      BY <2>2 DEF RunGuest, RunNop, RunSkip, RunIns, RunJcc, RunJmp, RunRet,
                  RunSave, RunRestore, RunBroken, RunWild, GuestAt, Translating
    <2> QED
      BY <2>1, <2>2
  <1> QED
    BY <1>1, <1>2, <1>3 DEF RoomInv

\* What is being translated is code, and there is room for it in the block.
LEMMA InsideBlock ==
    ASSUME WellFormedPrograms, NAddr > 0, EnoughMemory, CodeInv, RoomInv,
           Translating
    PROVE  /\ q[1] = map[unit] /\ InPool(q) /\ Spill(q) = {}
           /\ \/ prog[p] \in {Plain, Rts}
              \/ prog[p].op = "bcc" /\ prog[p].to \in InCode
           /\ prog[p] # Rts =>
                 /\ p + 1 \in InCode
                 /\ InPool(After(q)) /\ Spill(After(q)) = {}
  <1>1. ProgressOK /\ map[unit] \in Block /\ unit \in Addr /\ p \in InCode
    BY TranslatorFacts DEF CodeInv, CodeOK, RoomInv, Inv, TypeOK, TranslatorType
  <1> DEFINE c == CodeStart + (p - unit)
  <1>2. c \in Nat /\ c + 1 < BlockCells + (IF p = NAddr - 1 THEN 1 ELSE 0)
    BY <1>1 DEF InCode, Addr, EnoughMemory, ProgressOK
  <1>3. q = <<map[unit], c>> /\ c < BlockCells
    BY <1>1, <1>2 DEF ProgressOK
  <1>4. prog \in Programs
    BY DEF CodeInv, Inv, TypeOK
  <1>5. \/ prog[p] \in {Plain, Rts}
        \/ prog[p].op = "bcc" /\ prog[p].to \in InCode
    BY <1>1, <1>4 DEF WellFormedPrograms
  <1>6. ASSUME prog[p] # Rts
        PROVE  p + 1 \in InCode /\ After(q) = <<map[unit], c + 1>>
    <2>1. p # NAddr - 1
      BY <1>4, <1>6 DEF WellFormedPrograms
    <2> QED
      BY <1>1, <1>2, <1>3, <2>1 DEF InCode, After
  <1> QED
    BY <1>1, <1>3, <1>5, <1>6 DEF InPool, Spill, Block

\* A step of translate_tu() that only writes.
LEMMA WriteRoom ==
    ASSUME RoomInv, faults' = {}, phase' # "abort",
           UNCHANGED <<map, nextBlock>>, Translating' => p' \in InCode
    PROVE  RoomInv'
  <1>1. Mapped' = Mapped
    BY DEF Mapped
  <1> QED
    BY <1>1 DEF RoomInv

\* A step of m68k_bcc() that sets up the unit at a.
LEMMA SetupRoomStep ==
    ASSUME NAddr > 0, EnoughMemory, Inv, RoomInv, Translating,
           NEW a \in InCode, NEW r \in Block \cup {NoBlock}, SetupTU(a, r),
           r # NoBlock => UNCHANGED <<faults, p>> /\ phase' # "abort"
    PROVE  RoomInv'
  <1>1. r # NoBlock /\ nextBlock' = Cardinality(Mapped') /\ Mapped' \subseteq InCode
    BY SetupRoom DEF RoomInv, Inv, TypeOK
  <1> QED
    BY <1>1 DEF RoomInv

LEMMA TranslateRoom ==
    ASSUME WellFormedPrograms, NAddr > 0, EnoughMemory, CodeInv, RoomInv,
           Translate
    PROVE  RoomInv'
  <1>0. Translating /\ Inv /\ faults = {} /\ p \in InCode
    BY DEF Translate, TranslatePlain, TranslateRts, TranslateBad, TranslateHalf,
           TranslateBcc, SetupTaken, SetupFall, LinkBcc, TranslateCrash,
           Decoding, Translating, CodeInv, RoomInv
  <1>1. /\ InPool(q) /\ Spill(q) = {}
        /\ \/ prog[p] \in {Plain, Rts}
           \/ prog[p].op = "bcc" /\ prog[p].to \in InCode
        /\ prog[p] # Rts =>
              /\ p + 1 \in InCode
              /\ InPool(After(q)) /\ Spill(After(q)) = {}
    BY <1>0, InsideBlock
  <1>2. prog[p].op \in {"plain", "rts", "bcc"}
    BY <1>1 DEF Plain, Rts
  <1>3. phase \in {"taken", "fall", "link"} => prog[p].op = "bcc" /\ prog[p] # Rts
    BY <1>0 DEF Inv, TranslatorOK, Rts
  <1>4. CASE TranslatePlain
    <2>1. p + 1 \in InCode
      BY <1>1, <1>4 DEF TranslatePlain, Decoding, Rts
    <2>2. faults' = {} /\ p' \in InCode /\ phase' # "abort"
      BY <1>0, <1>1, <1>4, <2>1 DEF TranslatePlain, Decoding
    <2> QED
      BY <1>4, <2>2, WriteRoom DEF TranslatePlain, cache
  <1>5. CASE TranslateRts
    <2>1. faults' = {} /\ phase' = "run"
      BY <1>0, <1>1, <1>5 DEF TranslateRts, ReturnToStub
    <2> QED
      BY <1>5, <2>1, WriteRoom DEF TranslateRts, cache, Translating
  <1>6. ~TranslateBad /\ ~TranslateHalf
    BY <1>2 DEF TranslateBad, TranslateHalf, Decoding
  <1>7. CASE TranslateBcc
    <2>1. faults' = {} /\ p' \in InCode /\ phase' # "abort"
      BY <1>0, <1>1, <1>7 DEF TranslateBcc, translator
    <2> QED
      BY <1>7, <2>1, WriteRoom DEF TranslateBcc, cache
  <1>8. CASE SetupTaken
    <2>1. PICK r \in Block \cup {NoBlock} :
            /\ SetupTU(prog[p].to, r)
            /\ r # NoBlock => phase' = "fall" /\ UNCHANGED faults
      BY <1>8 DEF SetupTaken
    <2>2. prog[p].to \in InCode
      BY <1>1, <1>3, <1>8 DEF SetupTaken, Plain, Rts
    <2>3. p' = p
      BY <1>8 DEF SetupTaken
    <2> QED
      BY <1>0, <2>1, <2>2, <2>3, SetupRoomStep
  <1>9. CASE SetupFall
    <2>1. PICK r \in Block \cup {NoBlock} :
            /\ SetupTU(p + 1, r)
            /\ r # NoBlock => phase' = "link" /\ UNCHANGED faults
      BY <1>9 DEF SetupFall
    <2>2. p + 1 \in InCode
      BY <1>1, <1>3, <1>9 DEF SetupFall
    <2>3. p' = p
      BY <1>9 DEF SetupFall
    <2> QED
      BY <1>0, <2>1, <2>2, <2>3, SetupRoomStep
  <1>10. CASE LinkBcc
    <2>1. faults' = {} /\ phase' = "run"
      BY <1>0, <1>1, <1>3, <1>10 DEF LinkBcc, ReturnToStub
    <2> QED
      BY <1>10, <2>1, WriteRoom DEF LinkBcc, cache, Translating
  <1>11. ~TranslateCrash
    BY <1>1, <1>3 DEF TranslateCrash
  <1> QED
    BY <1>4, <1>5, <1>6, <1>7, <1>8, <1>9, <1>10, <1>11 DEF Translate

LEMMA NextRoom ==
    ASSUME WellFormedPrograms, NAddr > 0, EnoughMemory
    PROVE  GuestInv /\ RoomInv /\ [Next]_vars => RoomInv'
  <1> SUFFICES ASSUME GuestInv, RoomInv, [Next]_vars PROVE RoomInv'
    OBVIOUS
  <1>0. CodeInv /\ Inv
    BY DEF GuestInv, CodeInv
  <1>1. CASE UNCHANGED vars
    BY <1>1 DEF vars, cache, translator, RoomInv, Mapped, Translating
  <1>2. CASE Boot
    BY <1>0, <1>2, BootRoom
  <1>3. CASE RunGuest
    BY <1>0, <1>3, RunRoom
  <1>4. CASE Translate
    BY <1>0, <1>4, TranslateRoom
  <1> QED
    BY <1>1, <1>2, <1>3, <1>4 DEF Next, Ended

\* Programs that stay within themselves, in memory with a block for every
\* instruction and a cell for every instruction in a block, are translated
\* without a fault, however they branch, and the guest is never killed.
THEOREM NoFaults ==
    ASSUME NAddr > 0, WellFormedPrograms, EnoughMemory
    PROVE  Spec => [](faults = {} /\ phase \notin {"abort", "dead"})
  <1>1. Init => RoomInv
    BY InitRoom
  <1>2. GuestInv /\ RoomInv /\ [Next]_vars => RoomInv'
    BY NextRoom
  <1>3. GuestInv /\ RoomInv => faults = {} /\ phase \notin {"abort", "dead"}
    BY DEF GuestInv, CrashHasCause, RoomInv
  <1> QED
    BY <1>1, <1>2, <1>3, GuestInvCorrect, PTL DEF Spec

\* They run as on the 680x0: each instruction in its order, none twice and
\* none left out, each branch by the guest's own flag.  (The safety part of
\* ProgramRuns.)
THEOREM ProgramRunsSafely ==
    ASSUME NAddr > 0, WellFormedPrograms, EnoughMemory
    PROVE  Spec => Guest!Init /\ [][Guest!Next]_Guest!vars
  <1>1. Spec => [](faults = {} /\ phase \notin {"abort", "dead"})
    BY NoFaults
  <1>2. Spec => [](faults = {})
    BY <1>1, PTL
  <1> QED
    BY <1>2, Refinement, PTL
=============================================================================
