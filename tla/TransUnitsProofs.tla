-------------------------- MODULE TransUnitsProofs --------------------------
(* Theorems about TransUnits, for every program and every size of the cache. *)
EXTENDS TransUnits, TLAPS

USE NAddrAssumption, ProgramsAssumption, SizeAssumption

\* What the fields of a cell are, by its kind.
LEMMA CellFields ==
    ASSUME NEW c \in Cell
    PROVE  /\ c.t \in {"call", "ins", "ret", "jcc"} => c.src \in Addr
           /\ c.t \in {"jmp", "jcc"} => c.to \in Block
           /\ c.t = "jcc" => c.eq \in BOOLEAN
  BY DEF Cell, Nop, Save, Restore, Skip, Broken, Zero, Call, Ins, Ret, Jmp, Jcc

\* What can be built is a cell.
LEMMA CellsBuilt ==
    /\ {Nop, Save, Restore, Skip, Broken, Zero} \subseteq Cell
    /\ \A a \in Addr : Call(a) \in Cell /\ Ins(a) \in Cell /\ Ret(a) \in Cell
    /\ \A b \in Block : Jmp(b) \in Cell
    /\ \A a \in Addr, eq \in BOOLEAN, b \in Block : Jcc(a, eq, b) \in Cell
  BY DEF Cell

\* The next position is one in the pool, or the end of the pool.
LEMMA AfterType ==
    ASSUME NEW pos \in (0 .. NBlocks) \X Index, InPool(pos)
    PROVE  After(pos) \in (0 .. NBlocks) \X Index
  BY DEF After, InPool, Index

\* An instruction's fields; the memory after the program is no instruction.
LEMMA InstrFields ==
    ASSUME NEW pr \in Programs, NEW a \in Addr
    PROVE  /\ pr[a].op = "bcc" => pr[a].to \in Addr /\ pr[a].eq \in BOOLEAN
           /\ pr[a].op \in {"plain", "bcc", "rts", "half"} => a + 1 \in Addr
  <1>1. pr[a] \in Instr /\ pr[NAddr] = Bad
    BY DEF Addr
  <1>2. pr[a].op = "bcc" => pr[a].to \in Addr /\ pr[a].eq \in BOOLEAN
    BY <1>1 DEF Instr, Plain, Rts, Half, Bad, Bcc
  <1>3. pr[a].op \in {"plain", "bcc", "rts", "half"} => a # NAddr
    BY <1>1 DEF Bad
  <1> QED
    BY <1>2, <1>3 DEF Addr
-----------------------------------------------------------------------------
(* The inductive invariant: types, the translator's control, and the cache. *)

Inv == TypeOK /\ TranslatorOK /\ CacheSound

LEMMA StubType ==
    ASSUME NEW a \in Addr
    PROVE  StubBlock(a) \in [Index -> Cell]
  BY CellsBuilt DEF StubBlock

\* setup_tu() keeps the cache well-formed, only ever adds to it, and returns
\* the block of its argument or NoBlock.
LEMMA SetupTUSound ==
    ASSUME CacheType, CacheSound,
           NEW a \in Addr, NEW r \in Block \cup {NoBlock}, SetupTU(a, r)
    PROVE  /\ CacheType'
           /\ CacheSound'
           /\ \A c \in Addr : map[c] # NoBlock => map'[c] = map[c]
           /\ r # NoBlock => r = map'[a]
  <1>1. CASE CacheHit(a, r)
    BY <1>1 DEF CacheHit, CacheType, CacheSound, cache
  <1>2. CASE PoolFull(a, r)
    BY <1>2 DEF PoolFull, CacheType, CacheSound, cache
  <1>3. CASE NodeMallocFails(a, r)
    BY <1>3 DEF NodeMallocFails, CacheType, CacheSound, Block
  <1>4. CASE NewUnit(a, r)
    <2>1. CacheType'
      BY <1>4, StubType DEF NewUnit, CacheType, Block
    <2>2. CacheSound'
      BY <1>4 DEF NewUnit, CacheType, CacheSound, Block
    <2> QED
      BY <1>4, <2>1, <2>2 DEF NewUnit, CacheType
  <1> QED
    BY <1>1, <1>2, <1>3, <1>4 DEF SetupTU

LEMMA InitInv == Init => Inv
  <1> SUFFICES ASSUME Init PROVE Inv
    OBVIOUS
  <1>1. CacheType
    BY CellsBuilt DEF Init, CacheType
  <1>2. GuestType /\ TranslatorType
    BY DEF Init, GuestType, TranslatorType, Addr, NoAddr, Index
  <1>3. TypeOK
    BY <1>1, <1>2 DEF Init, TypeOK, Phase, Fault
  <1>4. TranslatorOK /\ CacheSound
    BY DEF Init, TranslatorOK, Translating, CacheSound
  <1> QED
    BY <1>3, <1>4 DEF Inv

LEMMA BootInv == ASSUME Inv, Boot PROVE Inv'
  <1>1. PICK r \in Block \cup {NoBlock} :
           /\ SetupTU(0, r)
           /\ \/ r # NoBlock /\ phase' = "run" /\ gp' = <<r, 0>>
              \/ r = NoBlock /\ phase' = "abort" /\ gp' = gp
    BY DEF Boot
  <1>2. CacheType' /\ CacheSound'
    BY <1>1, SetupTUSound DEF Inv, TypeOK, Addr
  <1>3. GuestType'
    <2>1. gp' \in (0 .. NBlocks) \X Index
      BY <1>1 DEF Inv, TypeOK, GuestType, Block, Index
    <2> QED
      BY <2>1 DEF Boot, Inv, TypeOK, GuestType
  <1>4. TypeOK'
    BY <1>1, <1>2, <1>3
       DEF Boot, Inv, TypeOK, Phase, translator, TranslatorType
  <1>5. TranslatorOK'
    BY <1>1 DEF TranslatorOK, Translating
  <1> QED
    BY <1>2, <1>4, <1>5 DEF Inv

\* A step of the guest alone leaves cache and translator as they are.
LEMMA GuestStepInv ==
    ASSUME Inv, GuestOnly, GuestType', phase = "run",
           phase' \in {"run", "halt", "dead"}
    PROVE  Inv'
  <1>1. CacheType' /\ CacheSound' /\ TranslatorType'
    BY DEF Inv, GuestOnly, TypeOK, cache, translator, CacheType, CacheSound,
           TranslatorType
  <1>2. TypeOK'
    BY <1>1 DEF Inv, GuestOnly, TypeOK, Phase
  <1>3. TranslatorOK'
    BY DEF TranslatorOK, Translating
  <1> QED
    BY <1>1, <1>2, <1>3 DEF Inv

\* The cell the guest is at, and the position after it.
LEMMA GuestCell ==
    ASSUME Inv, phase = "run", InPool(gp)
    PROVE  /\ CellAt(gp) \in Cell
           /\ After(gp) \in (0 .. NBlocks) \X Index
  <1>1. gp \in (0 .. NBlocks) \X Index /\ gp[1] \in Block /\ gp[2] \in Index
    BY DEF Inv, TypeOK, GuestType, InPool, Block
  <1>2. CellAt(gp) \in Cell
    BY <1>1 DEF Inv, TypeOK, CacheType, CellAt
  <1> QED
    BY <1>1, <1>2, AfterType

LEMMA RunGuestInv == ASSUME Inv, RunGuest PROVE Inv'
  <1> USE DEF GuestAt
  <1>1. CASE RunNop
    <2>1. GuestType'
      BY <1>1, GuestCell DEF RunNop, Inv, TypeOK, GuestType
    <2> QED
      BY <1>1, <2>1, GuestStepInv DEF RunNop
  <1>2. CASE RunSkip
    <2>1. GuestType'
      BY <1>2 DEF RunSkip, Inv, TypeOK, GuestType, Index, InPool
    <2> QED
      BY <1>2, <2>1, GuestStepInv DEF RunSkip
  <1>3. CASE RunIns
    <2>1. GuestType'
      BY <1>3, GuestCell, CellFields DEF RunIns, Inv, TypeOK, GuestType
    <2> QED
      BY <1>3, <2>1, GuestStepInv DEF RunIns
  <1>4. CASE RunJcc
    <2>1. CellAt(gp).src \in Addr /\ CellAt(gp).to \in Block
      BY <1>4, GuestCell, CellFields DEF RunJcc
    <2>2. gp' \in (0 .. NBlocks) \X Index
      BY <1>4, <2>1, GuestCell DEF RunJcc, Block, Index
    <2>3. GuestType'
      BY <1>4, <2>1, <2>2 DEF RunJcc, Inv, TypeOK, GuestType
    <2> QED
      BY <1>4, <2>3, GuestStepInv DEF RunJcc
  <1>5. CASE RunJmp
    <2>1. CellAt(gp).to \in Block
      BY <1>5, GuestCell, CellFields DEF RunJmp
    <2>2. GuestType'
      BY <1>5, <2>1 DEF RunJmp, Inv, TypeOK, GuestType, Block, Index
    <2> QED
      BY <1>5, <2>2, GuestStepInv DEF RunJmp
  <1>6. CASE RunRet
    <2>1. GuestType'
      BY <1>6, GuestCell, CellFields DEF RunRet, Inv, TypeOK, GuestType
    <2> QED
      BY <1>6, <2>1, GuestStepInv DEF RunRet
  <1>7. CASE RunSave
    <2>1. GuestType'
      BY <1>7, GuestCell DEF RunSave, Inv, TypeOK, GuestType
    <2> QED
      BY <1>7, <2>1, GuestStepInv DEF RunSave
  <1>8. CASE RunCall
    <2> DEFINE a == CellAt(gp).src
    <2>1. a \in Addr
      BY <1>8, GuestCell, CellFields DEF RunCall
    <2>2. CacheType' /\ CacheSound'
      BY <1>8 DEF RunCall, Inv, TypeOK, CacheType, CacheSound, cache
    <2>3. GuestType'
      BY <1>8, GuestCell DEF RunCall, Inv, TypeOK, GuestType
    <2>4. CASE map[a] = NoBlock
      <3>1. TypeOK'
        BY <1>8, <2>2, <2>3, <2>4
           DEF RunCall, Inv, TypeOK, TranslatorType, translator
      <3>2. TranslatorOK'
        BY <1>8, <2>4 DEF RunCall, TranslatorOK, Translating
      <3> QED
        BY <2>2, <3>1, <3>2 DEF Inv
    <2>5. CASE map[a] # NoBlock
      <3>1. map[a] \in Block
        BY <2>1, <2>5 DEF Inv, TypeOK, CacheType
      <3>2. q' \in (0 .. NBlocks) \X Index
        BY <1>8, <2>5, <3>1 DEF RunCall, Block, Index
      <3>3. TypeOK'
        BY <1>8, <2>1, <2>2, <2>3, <2>5, <3>2
           DEF RunCall, Inv, TypeOK, TranslatorType, Phase
      <3>4. TranslatorOK'
        BY <1>8, <2>5 DEF RunCall, TranslatorOK, Translating, InPool, cache
      <3> QED
        BY <2>2, <3>3, <3>4 DEF Inv
    <2> QED
      BY <2>4, <2>5
  <1>9. CASE RunRestore
    <2>1. Len(saved) \in 1 .. Len(saved)
      BY <1>9 DEF RunRestore, Inv, TypeOK, GuestType
    <2>2. GuestType'
      BY <1>9, <2>1, GuestCell DEF RunRestore, Inv, TypeOK, GuestType
    <2> QED
      BY <1>9, <2>2, GuestStepInv DEF RunRestore
  <1>10. CASE RunBroken
    <2>1. GuestType'
      BY <1>10, GuestCell DEF RunBroken, Inv, TypeOK, GuestType
    <2> QED
      BY <1>10, <2>1, GuestStepInv DEF RunBroken
  <1>11. CASE RunWild
    <2>1. GuestType'
      BY <1>11 DEF RunWild, Inv, TypeOK, GuestType, guest
    <2> QED
      BY <1>11, <2>1, GuestStepInv DEF RunWild
  <1> QED
    BY <1>1, <1>2, <1>3, <1>4, <1>5, <1>6, <1>7, <1>8, <1>9, <1>10, <1>11
       DEF RunGuest
-----------------------------------------------------------------------------
\* What the translator's steps may take for granted.
LEMMA TranslatorFacts ==
    ASSUME Inv, Translating
    PROVE  /\ map[unit] \in Block
           /\ After(gp) \in (0 .. NBlocks) \X Index
           /\ prog[p].op = "bcc" => prog[p].to \in Addr
           /\ prog[p].op \in {"plain", "bcc"} => p + 1 \in Addr
  <1>1. map[unit] \in Block
    BY DEF Inv, TypeOK, TranslatorOK, CacheType, TranslatorType
  <1>2. After(gp) \in (0 .. NBlocks) \X Index
    BY AfterType DEF Inv, TypeOK, TranslatorOK, GuestType
  <1> QED
    BY <1>1, <1>2, InstrFields DEF Inv, TypeOK, TranslatorType

\* Cells written one at a time or together keep the memory well-typed.
LEMMA WriteType ==
    ASSUME CacheType, NEW pos \in (0 .. NBlocks) \X Index, InPool(pos),
           NEW c \in Cell
    PROVE  /\ pos[1] \in Block
           /\ [mem EXCEPT ![pos[1]][pos[2]] = c] \in [Block -> [Index -> Cell]]
           /\ \A b \in Block, i \in Index, d \in Cell :
                 [mem EXCEPT ![pos[1]][pos[2]] = c, ![b][i] = d]
                    \in [Block -> [Index -> Cell]]
  <1>1. pos[1] \in Block /\ pos[2] \in Index
    BY DEF InPool, Block
  <1>2. [mem EXCEPT ![pos[1]][pos[2]] = c] \in [Block -> [Index -> Cell]]
    BY <1>1 DEF CacheType
  <1>3. ASSUME NEW b \in Block, NEW i \in Index, NEW d \in Cell
        PROVE  [mem EXCEPT ![pos[1]][pos[2]] = c, ![b][i] = d]
                  \in [Block -> [Index -> Cell]]
    BY <1>1, <1>2 DEF CacheType
  <1> QED
    BY <1>1, <1>2, <1>3

\* A step of the translator back to the stub, with the cache kept sound.
LEMMA ReturnInv ==
    ASSUME Inv, Translating, ReturnToStub, CacheType', CacheSound',
           TranslatorType', faults' \subseteq Fault,
           UNCHANGED <<prog, z, saved, retired>>
    PROVE  Inv'
  <1>1. GuestType'
    BY TranslatorFacts DEF ReturnToStub, Inv, TypeOK, GuestType
  <1>2. TypeOK'
    BY <1>1 DEF ReturnToStub, Inv, TypeOK, Phase
  <1>3. TranslatorOK'
    BY DEF ReturnToStub, TranslatorOK, Translating
  <1> QED
    BY <1>2, <1>3 DEF Inv

LEMMA TranslateInv == ASSUME Inv, Translate PROVE Inv'
  <1>0. CacheType /\ CacheSound /\ TranslatorType /\ GuestType
        /\ faults \subseteq Fault /\ prog \in Programs
    BY DEF Inv, TypeOK
  <1>f. ASSUME NEW pos
        PROVE  faults \cup Spill(pos) \subseteq Fault
               /\ faults \cup {"reject"} \subseteq Fault
               /\ faults \cup {"reject"} \cup Spill(pos) \subseteq Fault
               /\ faults \cup {"spill"} \subseteq Fault
    BY <1>0 DEF Spill, Fault
  <1>1. CASE TranslatePlain
    <2> Translating
      BY <1>1 DEF TranslatePlain, Decoding, Translating
    <2>1. CacheType' /\ CacheSound'
      BY <1>0, <1>1, WriteType, CellsBuilt
         DEF TranslatePlain, CacheType, CacheSound, TranslatorType, cache
    <2>2. TranslatorType'
      BY <1>0, <1>1, TranslatorFacts, AfterType
         DEF TranslatePlain, Decoding, TranslatorType
    <2>3. TypeOK'
      BY <1>0, <1>1, <1>f, <2>1, <2>2
         DEF TranslatePlain, Inv, TypeOK, GuestType, guest
    <2>4. TranslatorOK'
      BY <1>1 DEF TranslatePlain, Decoding, Inv, TranslatorOK, Translating,
                  cache, guest, InPool
    <2> QED
      BY <2>1, <2>3, <2>4 DEF Inv
  <1>2. CASE TranslateRts
    <2> Translating
      BY <1>2 DEF TranslateRts, Decoding, Translating
    <2>0. /\ map[unit] \in Block /\ 0 \in Index
          /\ Ret(p) \in Cell /\ Skip \in Cell
      BY <1>0, TranslatorFacts, CellsBuilt DEF Index, TranslatorType
    <2>1. CacheType' /\ CacheSound'
      <3>1. mem' \in [Block -> [Index -> Cell]]
        BY <1>0, <1>2, <2>0, WriteType DEF TranslateRts, TranslatorType
      <3> QED
        BY <1>0, <1>2, <3>1 DEF TranslateRts, CacheType, CacheSound, cache
    <2>2. TranslatorType'
      BY <1>0, <1>2 DEF TranslateRts, TranslatorType, translator
    <2> QED
      BY <1>2, <1>f, <2>1, <2>2, ReturnInv DEF TranslateRts
  <1>3. CASE TranslateBad
    <2> Translating
      BY <1>3 DEF TranslateBad, Decoding, Translating
    <2>1. CacheType' /\ CacheSound' /\ TranslatorType'
      BY <1>0, <1>3 DEF TranslateBad, CacheType, CacheSound, TranslatorType,
                        translator, cache
    <2> QED
      BY <1>3, <1>f, <2>1, ReturnInv DEF TranslateBad, GiveUp
  <1>4. CASE TranslateHalf
    <2> Translating
      BY <1>4 DEF TranslateHalf, Decoding, Translating
    <2>1. CacheType' /\ CacheSound'
      BY <1>0, <1>4, WriteType, CellsBuilt
         DEF TranslateHalf, CacheType, CacheSound, TranslatorType, cache
    <2>2. TranslatorType'
      BY <1>0, <1>4 DEF TranslateHalf, TranslatorType, translator
    <2> QED
      BY <1>4, <1>f, <2>1, <2>2, ReturnInv DEF TranslateHalf
  <1>5. CASE TranslateBcc
    <2>1. CacheType' /\ CacheSound'
      BY <1>0, <1>5, WriteType, CellsBuilt
         DEF TranslateBcc, CacheType, CacheSound, TranslatorType, cache
    <2>2. TypeOK'
      BY <1>0, <1>5, <1>f, <2>1
         DEF TranslateBcc, Inv, TypeOK, GuestType, guest, TranslatorType,
             translator, Phase
    <2>3. TranslatorOK'
      BY <1>5 DEF TranslateBcc, Decoding, Inv, TranslatorOK, Translating,
                  cache, guest, translator, InPool
    <2> QED
      BY <2>1, <2>2, <2>3 DEF Inv
  <1>6. CASE SetupTaken
    <2> Translating
      BY <1>6 DEF SetupTaken, Translating
    <2>1. PICK r \in Block \cup {NoBlock} :
             /\ SetupTU(prog[p].to, r)
             /\ \/ /\ r # NoBlock /\ taken' = r /\ phase' = "fall"
                   /\ UNCHANGED <<gp, faults>>
                \/ r = NoBlock /\ GiveUp /\ taken' = taken
      BY <1>6 DEF SetupTaken
    <2>2. prog[p].op = "bcc" /\ prog[p].to \in Addr
      BY <1>6, TranslatorFacts DEF SetupTaken, Inv, TranslatorOK
    <2>3. /\ CacheType' /\ CacheSound'
          /\ \A c \in Addr : map[c] # NoBlock => map'[c] = map[c]
      BY <1>0, <2>1, <2>2, SetupTUSound
    <2>4. TranslatorType'
      BY <1>0, <1>6, <2>1 DEF SetupTaken, TranslatorType
    <2>5. CASE r = NoBlock
      BY <1>6, <1>f, <2>1, <2>3, <2>4, <2>5, ReturnInv DEF SetupTaken, GiveUp
    <2>6. CASE r # NoBlock
      <3>1. TypeOK'
        BY <1>0, <1>6, <2>1, <2>3, <2>4, <2>6
           DEF SetupTaken, Inv, TypeOK, GuestType, Phase
      <3>2. TranslatorOK'
        BY <1>0, <1>6, <2>1, <2>2, <2>3, <2>6
           DEF SetupTaken, Inv, TranslatorOK, TranslatorType, Translating, InPool
      <3> QED
        BY <2>3, <3>1, <3>2 DEF Inv
    <2> QED
      BY <2>5, <2>6
  <1>7. CASE SetupFall
    <2> Translating
      BY <1>7 DEF SetupFall, Translating
    <2>1. PICK r \in Block \cup {NoBlock} :
             /\ SetupTU(p + 1, r)
             /\ \/ /\ r # NoBlock /\ fall' = r /\ phase' = "link"
                   /\ UNCHANGED <<gp, faults>>
                \/ r = NoBlock /\ GiveUp /\ fall' = fall
      BY <1>7 DEF SetupFall
    <2>2. prog[p].op = "bcc" /\ p + 1 \in Addr
      BY <1>7, TranslatorFacts DEF SetupFall, Inv, TranslatorOK
    <2>3. /\ CacheType' /\ CacheSound'
          /\ \A c \in Addr : map[c] # NoBlock => map'[c] = map[c]
      BY <1>0, <2>1, <2>2, SetupTUSound
    <2>4. TranslatorType'
      BY <1>0, <1>7, <2>1 DEF SetupFall, TranslatorType
    <2>5. CASE r = NoBlock
      BY <1>7, <1>f, <2>1, <2>3, <2>4, <2>5, ReturnInv DEF SetupFall, GiveUp
    <2>6. CASE r # NoBlock
      <3>1. TypeOK'
        BY <1>0, <1>7, <2>1, <2>3, <2>4, <2>6
           DEF SetupFall, Inv, TypeOK, GuestType, Phase
      <3>2. TranslatorOK'
        BY <1>0, <1>7, <2>1, <2>2, <2>3, <2>6
           DEF SetupFall, Inv, TranslatorOK, TranslatorType, Translating, InPool
      <3> QED
        BY <2>3, <3>1, <3>2 DEF Inv
    <2> QED
      BY <2>5, <2>6
  <1>8. CASE LinkBcc
    <2> Translating
      BY <1>8 DEF LinkBcc, Translating
    <2>1. InPool(q)
      BY <1>0, <1>8 DEF LinkBcc, TranslatorType, After, InPool
    <2>2. /\ taken \in Block /\ fall \in Block
          /\ prog[p].eq \in BOOLEAN
      BY <1>0, <1>8, InstrFields DEF LinkBcc, Inv, TranslatorOK, TranslatorType
    <2>3. LinkedJcc \in Cell /\ Jmp(fall) \in Cell /\ Skip \in Cell
      BY <1>0, <2>2, CellsBuilt DEF LinkedJcc, TranslatorType
    <2>4. After(q) \in (0 .. NBlocks) \X Index /\ After(q)[1] \in Block
      BY <1>0, <1>8, <2>1, AfterType DEF LinkBcc, TranslatorType, InPool, Block
    <2>5. CacheType' /\ CacheSound'
      <3>1. map[unit] \in Block /\ 0 \in Index /\ After(q)[2] \in Index
        BY <2>4, TranslatorFacts DEF Index
      <3> DEFINE m1 == [mem EXCEPT ![q[1]][q[2]] = LinkedJcc,
                                   ![After(q)[1]][After(q)[2]] = Jmp(fall)]
      <3>2. m1 \in [Block -> [Index -> Cell]]
        BY <1>0, <2>1, <2>3, <2>4, <3>1, WriteType DEF TranslatorType
      <3>3. mem' = [m1 EXCEPT ![map[unit]][0] = Skip]
        BY <1>8 DEF LinkBcc
      <3>4. mem' \in [Block -> [Index -> Cell]]
        <4> HIDE DEF m1
        <4> QED  BY <2>3, <3>1, <3>2, <3>3
      <3> QED
        BY <1>0, <1>8, <3>4 DEF LinkBcc, CacheType, CacheSound, cache
    <2>6. TranslatorType'
      BY <1>0, <1>8 DEF LinkBcc, TranslatorType, translator
    <2> QED
      BY <1>8, <1>f, <2>5, <2>6, ReturnInv DEF LinkBcc
  <1>9. CASE TranslateCrash
    <2>1. CacheType' /\ CacheSound' /\ TranslatorType' /\ GuestType'
      BY <1>0, <1>9 DEF TranslateCrash, CacheType, CacheSound, TranslatorType,
                        GuestType, translator, cache, guest
    <2>2. TypeOK' /\ TranslatorOK'
      BY <1>0, <1>9, <1>f, <2>1
         DEF TranslateCrash, TypeOK, Phase, TranslatorOK, Translating
    <2> QED
      BY <2>1, <2>2 DEF Inv
  <1> QED
    BY <1>1, <1>2, <1>3, <1>4, <1>5, <1>6, <1>7, <1>8, <1>9 DEF Translate
LEMMA NextInv == Inv /\ [Next]_vars => Inv'
  <1> SUFFICES ASSUME Inv, [Next]_vars PROVE Inv'
    OBVIOUS
  <1>1. CASE UNCHANGED vars
    <2>1. CacheType' /\ CacheSound' /\ TranslatorType' /\ GuestType'
      BY <1>1 DEF vars, Inv, TypeOK, CacheType, CacheSound, TranslatorType,
                  GuestType, translator, cache, guest
    <2>2. TypeOK'
      BY <1>1, <2>1 DEF vars, Inv, TypeOK
    <2>3. TranslatorOK'
      BY <1>1 DEF vars, Inv, TranslatorOK, Translating, InPool, cache, guest,
                  translator
    <2> QED
      BY <2>1, <2>2, <2>3 DEF Inv
  <1>2. CASE Ended
    BY <1>1, <1>2 DEF Ended
  <1> QED
    BY <1>1, <1>2, BootInv, RunGuestInv, TranslateInv DEF Next

\* Types, the translator's control and the soundness of the cache are
\* invariants, for every program, pool and block size and with malloc()
\* failing whenever it likes.
THEOREM InvCorrect == Spec => []Inv
  BY InitInv, NextInv, PTL DEF Spec

\* The fields of the state stay in range: every position written or executed
\* is in the pool or at its end.
THEOREM TypeCorrect == Spec => []TypeOK
  BY InvCorrect, PTL DEF Inv

\* No two units ever share a code block.
THEOREM CacheSoundCorrect == Spec => []CacheSound
  BY InvCorrect, PTL DEF Inv

\* No branch is linked to a null pointer, whatever fails.
THEOREM TranslatorOKCorrect == Spec => []TranslatorOK
  BY InvCorrect, PTL DEF Inv

-----------------------------------------------------------------------------
(* What the code memory holds: as long as no unit has spilled, a finished  *)
(* block holds its whole unit and is never written again.                  *)

CodeInv == Inv /\ CodeOK /\ HeadOK /\ FinishedUnitsComplete

NoSpill == "spill" \notin faults

\* A unit stays held while its block is not written and the cache only grows.
LEMMA HoldsUnitFrame ==
    ASSUME prog \in Programs, prog' = prog,
           NEW a \in Addr, NEW b \in Block, mem'[b] = mem[b],
           \A c \in Addr : map[c] # NoBlock => map'[c] = map[c],
           NEW n \in 0 .. NAddr - a, HoldsBody(b, a, n), HoldsEnd(b, a, n)
    PROVE  HoldsBody(b, a, n)' /\ HoldsEnd(b, a, n)'
  <1>1. HoldsBody(b, a, n)'
    BY DEF HoldsBody
  <1>2. a + n \in Addr
    BY DEF Addr
  <1>3. HoldsEnd(b, a, n)'
    <2>1. CASE prog[a + n] = Rts
      BY <2>1 DEF HoldsEnd, Rts
    <2>2. CASE prog[a + n] # Rts
      <3>1. /\ prog[a + n].op = "bcc"
            /\ prog[a + n].to \in Addr /\ a + n + 1 \in Addr
        BY <1>2, <2>2, InstrFields DEF HoldsEnd
      <3> QED
        BY <2>2, <3>1 DEF HoldsEnd
    <2> QED
      BY <2>1, <2>2
  <1> QED
    BY <1>1, <1>3

\* What a step does to the blocks it does not write.
LEMMA BlockFrame ==
    ASSUME CodeInv, NoSpill, prog' = prog,
           \A c \in Addr : map[c] # NoBlock => map'[c] = map[c],
           NEW a \in Addr, map[a] # NoBlock, mem'[map[a]] = mem[map[a]]
    PROVE  /\ BlockOK(map[a], a)'
           /\ Finished(map[a])' => HoldsUnit(map[a], a)'
  <1> DEFINE b == map[a]
  <1>1. b \in Block /\ prog \in Programs /\ b = map'[a]
    BY DEF CodeInv, Inv, TypeOK, CacheType
  <1>2. mem'[map'[a]] = mem[b]
    BY <1>1
  <1>3. BlockOK(b, a)'
    BY <1>2 DEF CodeInv, CodeOK, NoSpill, BlockOK
  <1>4. ASSUME Finished(b)' PROVE HoldsUnit(b, a)'
    <2>1. HoldsUnit(b, a)
      BY <1>2, <1>4 DEF CodeInv, FinishedUnitsComplete, NoSpill, Finished
    <2>2. PICK n \in 0 .. NAddr - a : HoldsBody(b, a, n) /\ HoldsEnd(b, a, n)
      BY <2>1 DEF HoldsUnit
    <2> QED
      BY <1>1, <1>2, <2>2, HoldsUnitFrame DEF HoldsUnit
  <1> QED
    BY <1>3, <1>4
BlocksOK ==
    \A a \in Addr : map[a] # NoBlock =>
        /\ BlockOK(map[a], a)
        /\ Finished(map[a]) => HoldsUnit(map[a], a)
UnmappedOK ==
    \A b \in Block :
        (\A a \in Addr : map[a] # b) => mem[b] = [i \in Index |-> Zero]

LEMMA CodeInvParts ==
    ASSUME CodeInv, NoSpill
    PROVE  BlocksOK /\ UnmappedOK
  BY DEF CodeInv, CodeOK, FinishedUnitsComplete, NoSpill, BlocksOK, UnmappedOK

LEMMA CodeInvFromParts ==
    ASSUME Inv', HeadOK',
           NoSpill' => BlocksOK' /\ UnmappedOK' /\ (Translating => ProgressOK)'
    PROVE  CodeInv'
  BY DEF CodeInv, CodeOK, FinishedUnitsComplete, NoSpill, BlocksOK, UnmappedOK

\* Nothing written, nothing mapped.
LEMMA SameCode ==
    ASSUME CodeInv, NoSpill, UNCHANGED <<prog, map, mem>>
    PROVE  BlocksOK' /\ UnmappedOK'
  <1>1. BlocksOK /\ UnmappedOK
    BY CodeInvParts
  <1>2. UnmappedOK'
    BY <1>1 DEF UnmappedOK
  <1>3. ASSUME NEW a \in Addr, map'[a] # NoBlock
        PROVE  /\ BlockOK(map[a], a)'
               /\ Finished(map[a])' => HoldsUnit(map[a], a)'
    BY <1>3, BlockFrame
  <1> QED
    BY <1>2, <1>3 DEF BlocksOK

\* setup_tu() adds a stub at most.
LEMMA SetupTUCode ==
    ASSUME CodeInv, NoSpill, prog' = prog,
           NEW a \in Addr, NEW r \in Block \cup {NoBlock}, SetupTU(a, r)
    PROVE  /\ BlocksOK' /\ UnmappedOK'
           /\ \A c \in Addr : map[c] # NoBlock => mem'[map[c]] = mem[map[c]]
  <1>0. CacheType /\ CacheSound
    BY DEF CodeInv, Inv, TypeOK
  <1>1. CASE UNCHANGED <<map, mem>>
    BY <1>1, SameCode
  <1>2. CASE NewUnit(a, r)
    <2>1. /\ r \in Block /\ r = nextBlock /\ map[a] = NoBlock
          /\ map' = [map EXCEPT ![a] = r]
          /\ mem'[r] = StubBlock(a)
          /\ \A b \in Block : b # r => mem'[b] = mem[b]
      BY <1>0, <1>2 DEF NewUnit, CacheType, Block
    <2>2. \A c \in Addr : map[c] # NoBlock =>
             map[c] # r /\ map'[c] = map[c] /\ mem'[map[c]] = mem[map[c]]
      BY <1>0, <2>1 DEF CacheType, CacheSound, Block
    <2>3. UnmappedOK'
      <3>1. ASSUME NEW b \in Block, \A c \in Addr : map'[c] # b
            PROVE  mem'[b] = [i \in Index |-> Zero]
        <4>1. b # r /\ mem'[b] = mem[b]
          BY <1>0, <2>1, <3>1 DEF CacheType
        <4>2. \A c \in Addr : map[c] # b
          BY <1>0, <2>1, <3>1 DEF CacheType, Block
        <4> QED
          BY <4>1, <4>2, CodeInvParts DEF UnmappedOK
      <3> QED
        BY <3>1 DEF UnmappedOK
    <2>4. ASSUME NEW c \in Addr, map'[c] # NoBlock
          PROVE  /\ BlockOK(map[c], c)'
                 /\ Finished(map[c])' => HoldsUnit(map[c], c)'
      <3>1. CASE c = a
        <4>1. map'[c] = r /\ mem'[r] = StubBlock(c)
          BY <1>0, <2>1, <3>1 DEF CacheType
        <4>2. BlockOK(map[c], c)'
          BY <4>1 DEF BlockOK, StubBlock, Index, Nop
        <4>3. ~Finished(map[c])'
          BY <4>1 DEF Finished, StubBlock, Index, Save, Skip
        <4> QED
          BY <4>2, <4>3
      <3>2. CASE c # a
        <4>1. map[c] # NoBlock /\ map'[c] = map[c]
          BY <1>0, <2>1, <2>4, <3>2 DEF CacheType
        <4>2. /\ BlockOK(map[c], c)'
              /\ Finished(map[c])' => HoldsUnit(map[c], c)'
          BY <2>2, <4>1, BlockFrame
        <4> QED
          BY <4>2
      <3> QED
        BY <3>1, <3>2
    <2>5. BlocksOK'
      BY <2>4 DEF BlocksOK
    <2> QED
      BY <2>2, <2>3, <2>5
  <1> QED
    BY <1>1, <1>2 DEF SetupTU, CacheHit, PoolFull, NodeMallocFails, cache
\* The unit in translation writes into its own block only.
LEMMA WriteOwn ==
    ASSUME CodeInv, NoSpill, Translating, UNCHANGED <<prog, map, unit>>,
           \A b \in Block : b # map[unit] => mem'[b] = mem[b],
           BlockOK(map[unit], unit)',
           Finished(map[unit])' => HoldsUnit(map[unit], unit)'
    PROVE  BlocksOK' /\ UnmappedOK'
  <1>0. /\ CacheType /\ CacheSound /\ unit \in Addr /\ map[unit] # NoBlock
        /\ BlocksOK /\ UnmappedOK
    BY CodeInvParts
       DEF CodeInv, Inv, TypeOK, TranslatorType, TranslatorOK
  <1>1. UnmappedOK'
    BY <1>0 DEF UnmappedOK
  <1>2. ASSUME NEW a \in Addr, map'[a] # NoBlock
        PROVE  /\ BlockOK(map[a], a)'
               /\ Finished(map[a])' => HoldsUnit(map[a], a)'
    <2>1. CASE a = unit
      BY <2>1
    <2>2. CASE a # unit
      <3>1. map[a] # map[unit] /\ map[a] \in Block
        BY <1>0, <1>2, <2>2 DEF CacheType, CacheSound
      <3> QED
        BY <1>2, <3>1, BlockFrame
    <2> QED
      BY <2>1, <2>2
  <1> QED
    BY <1>1, <1>2 DEF BlocksOK

\* Where the unit at a, of which n instructions are done, is written next, if
\* that is in its own block b: at cell c.
Writing(b, a, n, c) ==
    /\ b \in Block /\ a \in Addr /\ p \in Addr
    /\ n \in 0 .. NAddr - a /\ p = a + n
    /\ c = CodeStart + n
    /\ c \in CodeStart .. BlockCells - 1 /\ c \in Index /\ 0 \in Index
    /\ q = <<b, c>>
    /\ mem[b][0] = Save /\ BlockOK(b, a) /\ HoldsBody(b, a, n)
    /\ mem \in [Block -> [Index -> Cell]]

LEMMA OwnPosition ==
    ASSUME CodeInv, NoSpill, Translating, q[1] = map[unit],
           NEW b, NEW a, NEW n, NEW c,
           b = map[unit], a = unit, n = p - unit, c = CodeStart + n
    PROVE  Writing(b, a, n, c)
  <1>1. /\ ProgressOK /\ BlocksOK
        /\ a \in Addr /\ p \in Addr /\ map[a] # NoBlock
        /\ mem \in [Block -> [Index -> Cell]] /\ b \in Block
    BY CodeInvParts, TranslatorFacts
       DEF CodeInv, CodeOK, NoSpill, Inv, TypeOK, CacheType, TranslatorType,
           TranslatorOK
  <1>2. n \in 0 .. NAddr - a /\ p = a + n
    BY <1>1 DEF ProgressOK, Addr
  <1>3. c < BlockCells /\ q = <<b, c>>
    BY <1>1, <1>2 DEF ProgressOK, Block
  <1> QED
    BY <1>1, <1>2, <1>3 DEF ProgressOK, BlocksOK, Index, Writing

\* Writing translated code, or patching the head, leaves the stub alone.
LEMMA WriteBlockOK ==
    ASSUME NEW b, NEW a, BlockOK(b, a), mem'[b][0] \in {Save, Skip},
           \A i \in 1 .. CodeStart - 1 : mem'[b][i] = mem[b][i],
           \A i \in CodeStart .. BlockCells - 1 :
              \/ mem'[b][i] = mem[b][i]
              \/ mem'[b][i].t \in {"nop", "ins", "ret", "jcc", "jmp", "broken"}
    PROVE  BlockOK(b, a)'
  <1>1. 1 \in 1 .. CodeStart - 1 /\ 2 \in 1 .. CodeStart - 1
    OBVIOUS
  <1>2. ASSUME NEW i \in 3 .. CodeStart - 1
        PROVE  mem'[b][i] = Nop
    <2>1. i \in 1 .. CodeStart - 1
      OBVIOUS
    <2> QED
      BY <2>1 DEF BlockOK
  <1> QED
    BY <1>1, <1>2 DEF BlockOK

\* The body of a unit stays while its cells do.
LEMMA BodyFrame ==
    ASSUME NEW b, NEW a, NEW n, NEW c, Writing(b, a, n, c), prog' = prog,
           \A i \in Index : i # 0 /\ i < c => mem'[b][i] = mem[b][i]
    PROVE  HoldsBody(b, a, n)'
  <1>1. ASSUME NEW k \in 0 .. n - 1
        PROVE  prog'[a + k] = Plain /\ mem'[b][CodeStart + k] = Ins(a + k)
    <2>1. CodeStart + k \in Index /\ CodeStart + k # 0 /\ CodeStart + k < c
      BY DEF Index, Writing
    <2> QED
      BY <2>1 DEF HoldsBody, Writing
  <1> QED
    BY <1>1 DEF HoldsBody

\* One cell of translated code written.
LEMMA WriteOne ==
    ASSUME NEW b, NEW a, NEW n, NEW c, Writing(b, a, n, c), prog' = prog,
           mem'[b][c].t \in {"ins", "broken"},
           \A i \in Index : i # c => mem'[b][i] = mem[b][i]
    PROVE  /\ mem'[b][0] = Save /\ ~Finished(b)'
           /\ BlockOK(b, a)' /\ HoldsBody(b, a, n)'
  <1>1. mem'[b][0] = Save /\ ~Finished(b)'
    BY DEF Writing, Finished, Save, Skip
  <1>2. HoldsBody(b, a, n)'
    BY BodyFrame DEF Writing
  <1>3. BlockOK(b, a)'
    <2>1. \A i \in 1 .. CodeStart - 1 : mem'[b][i] = mem[b][i]
      BY DEF Writing, Index
    <2>2. \A i \in CodeStart .. BlockCells - 1 :
             mem'[b][i] = mem[b][i] \/ mem'[b][i].t \in {"ins", "broken"}
      BY DEF Index
    <2> QED
      BY <1>1, <2>1, <2>2, WriteBlockOK DEF Writing
  <1> QED
    BY <1>1, <1>2, <1>3

LEMMA TranslateCode ==
    ASSUME CodeInv, Translate, NoSpill'
    PROVE  BlocksOK' /\ UnmappedOK' /\ (Translating => ProgressOK)'
  <1>. PICK b, u, n, c :
          b = map[unit] /\ u = unit /\ n = p - unit /\ c = CodeStart + n
    OBVIOUS
  <1>0. NoSpill
    BY DEF Translate, TranslatePlain, TranslateRts, TranslateBad, TranslateHalf,
           TranslateBcc, SetupTaken, SetupFall, LinkBcc, TranslateCrash, GiveUp,
           NoSpill
  <1>s. ASSUME NEW pos, faults' = faults \cup Spill(pos)
               \/ faults' = faults \cup {"reject"} \cup Spill(pos)
        PROVE  pos[1] = map[unit]
    BY <1>s DEF NoSpill, Spill
  <1>o. Translating /\ q[1] = map[unit] => Writing(b, u, n, c)
    BY <1>0, OwnPosition
  <1>q. phase \in {"taken", "fall", "link"} =>
           Writing(b, u, n, c) /\ mem[b][c] = Broken
    <2> SUFFICES ASSUME phase \in {"taken", "fall", "link"}
                 PROVE  Writing(b, u, n, c) /\ mem[b][c] = Broken
      OBVIOUS
    <2>1. Translating /\ ProgressOK
      BY <1>0 DEF Translating, CodeInv, CodeOK, NoSpill
    <2>2. q = <<b, c>> /\ mem[b][c] = Broken
      BY <2>1 DEF ProgressOK
    <2> QED
      BY <1>o, <2>1, <2>2
  <1>r. phase' = "run" => ~Translating'
    BY DEF Translating
  <1>c. prog \in Programs /\ p \in Addr /\ prog[p] \in Instr
    BY ProgramsAssumption DEF CodeInv, Inv, TypeOK, TranslatorType
  <1>1. CASE TranslatePlain
    <2> Translating
      BY <1>1 DEF TranslatePlain, Decoding, Translating
    <2>1. q[1] = map[unit] /\ UNCHANGED <<prog, map, unit>>
      BY <1>1, <1>s DEF TranslatePlain, cache
    <2>o. Writing(b, u, n, c)
      BY <1>o, <2>1
    <2>2. prog[p] = Plain /\ p + 1 \in Addr
      BY <1>1, <1>c, InstrFields
         DEF TranslatePlain, Decoding, Instr, Plain, Rts, Half, Bad, Bcc
    <2>3. /\ mem' = [mem EXCEPT ![b][c] = Ins(p)]
          /\ p' = p + 1 /\ q' = After(q) /\ phase' = "translate"
      BY <1>1, <2>o DEF TranslatePlain, Decoding, Writing
    <2>w. /\ mem'[b][c] = Ins(p)
          /\ \A i \in Index : i # c => mem'[b][i] = mem[b][i]
          /\ \A d \in Block : d # b => mem'[d] = mem[d]
      BY <2>o, <2>3 DEF Writing
    <2>4. /\ mem'[b][0] = Save /\ ~Finished(b)'
          /\ BlockOK(b, u)' /\ HoldsBody(b, u, n)'
      <3>1. mem'[b][c].t = "ins"
        BY <2>w DEF Ins
      <3> QED
        BY <2>1, <2>o, <2>w, <3>1, WriteOne
    <2>5. BlocksOK' /\ UnmappedOK'
      BY <1>0, <2>1, <2>w, <2>4, WriteOwn
    <2>6. ProgressOK'
      <3>1. HoldsBody(b, u, n + 1)'
        <4>1. ASSUME NEW k \in 0 .. (n + 1) - 1
              PROVE  prog'[u + k] = Plain /\ mem'[b][CodeStart + k] = Ins(u + k)
          <5>1. CASE k = n
            BY <2>1, <2>o, <2>2, <2>w, <5>1 DEF Writing
          <5>2. CASE k # n
            <6>1. k \in 0 .. n - 1
              BY <2>o, <5>2 DEF Writing
            <6> QED
              BY <2>4, <6>1 DEF HoldsBody
          <5> QED
            BY <5>1, <5>2
        <4> QED
          BY <4>1 DEF HoldsBody
      <3>2. q' = IF c + 1 < BlockCells THEN <<b, c + 1>> ELSE <<b + 1, 0>>
        BY <2>o, <2>3 DEF After, Writing
      <3>3. map'[unit'] = b /\ unit' = u
        BY <2>1
      <3>4. p' - unit' = n + 1 /\ unit' <= p' /\ CodeStart + (n + 1) = c + 1
            /\ c + 1 <= BlockCells
        BY <2>1, <2>o, <2>3 DEF Addr, Writing
      <3> QED
        BY <2>3, <2>4, <3>1, <3>2, <3>3, <3>4 DEF ProgressOK
    <2> QED
      BY <2>5, <2>6
  <1>2. CASE TranslateRts
    <2> Translating
      BY <1>2 DEF TranslateRts, Decoding, Translating
    <2>1. q[1] = map[unit] /\ UNCHANGED <<prog, map, unit>>
      BY <1>2, <1>s DEF TranslateRts, cache, translator
    <2>o. Writing(b, u, n, c)
      BY <1>o, <2>1
    <2>2. prog[p] = Rts
      BY <1>2, <1>c
         DEF TranslateRts, Decoding, Instr, Plain, Rts, Half, Bad, Bcc
    <2>3. mem' = [mem EXCEPT ![b][c] = Ret(p), ![b][0] = Skip]
      BY <1>2, <2>o DEF TranslateRts, Writing
    <2>4. /\ mem'[b][c] = Ret(p) /\ mem'[b][0] = Skip
          /\ \A i \in Index : i # c /\ i # 0 => mem'[b][i] = mem[b][i]
          /\ \A d \in Block : d # b => mem'[d] = mem[d]
      BY <2>o, <2>3 DEF Writing
    <2>5. BlockOK(b, u)'
      <3>1. \A i \in 1 .. CodeStart - 1 : mem'[b][i] = mem[b][i]
        <4>1. \A i \in 1 .. CodeStart - 1 : i \in Index /\ i # c /\ i # 0
          BY <2>o DEF Writing, Index
        <4> QED
          BY <2>4, <4>1
      <3>2. \A i \in CodeStart .. BlockCells - 1 :
               mem'[b][i] = mem[b][i] \/ mem'[b][i] = Ret(p)
        BY <2>4 DEF Index
      <3>3. Ret(p).t = "ret"
        BY DEF Ret
      <3> QED
        BY <2>o, <2>4, <3>1, <3>2, <3>3, WriteBlockOK DEF Writing
    <2>6. HoldsUnit(b, u)'
      <3>1. HoldsBody(b, u, n)'
        <4>1. \A i \in Index : i # 0 /\ i < c => mem'[b][i] = mem[b][i]
          BY <2>o, <2>4 DEF Writing, Index
        <4> QED
          BY <2>1, <2>o, <4>1, BodyFrame
      <3>2. HoldsEnd(b, u, n)'
        BY <2>1, <2>2, <2>o, <2>4 DEF HoldsEnd, Writing
      <3> QED
        BY <2>o, <3>1, <3>2 DEF HoldsUnit, Writing
    <2>7. BlocksOK' /\ UnmappedOK'
      BY <1>0, <2>1, <2>4, <2>5, <2>6, WriteOwn
    <2> QED
      BY <1>2, <1>r, <2>7 DEF TranslateRts, ReturnToStub
  <1>3. CASE TranslateBad
    <2>1. BlocksOK' /\ UnmappedOK'
      BY <1>0, <1>3, SameCode DEF TranslateBad, cache
    <2> QED
      BY <1>3, <1>r, <2>1 DEF TranslateBad, GiveUp, ReturnToStub
  <1>4. CASE TranslateHalf
    <2> Translating
      BY <1>4 DEF TranslateHalf, Decoding, Translating
    <2>1. q[1] = map[unit] /\ UNCHANGED <<prog, map, unit>>
      BY <1>4, <1>s DEF TranslateHalf, cache, translator
    <2>o. Writing(b, u, n, c)
      BY <1>o, <2>1
    <2>2. mem' = [mem EXCEPT ![b][c] = Broken]
      BY <1>4, <2>o DEF TranslateHalf, Writing
    <2>3. /\ mem'[b][c].t = "broken"
          /\ \A i \in Index : i # c => mem'[b][i] = mem[b][i]
          /\ \A d \in Block : d # b => mem'[d] = mem[d]
      BY <2>o, <2>2 DEF Writing, Broken
    <2>4. BlocksOK' /\ UnmappedOK'
      <3>1. BlockOK(b, u)' /\ ~Finished(b)'
        BY <2>1, <2>o, <2>3, WriteOne
      <3> QED
        BY <1>0, <2>1, <2>3, <3>1, WriteOwn
    <2> QED
      BY <1>4, <1>r, <2>4 DEF TranslateHalf, ReturnToStub
  <1>5. CASE TranslateBcc
    <2> Translating
      BY <1>5 DEF TranslateBcc, Decoding, Translating
    <2>1. q[1] = map[unit] /\ UNCHANGED <<prog, map, unit>>
      BY <1>5, <1>s DEF TranslateBcc, cache, translator
    <2>o. Writing(b, u, n, c)
      BY <1>o, <2>1
    <2>2. mem' = [mem EXCEPT ![b][c] = Broken] /\ p' = p /\ q' = q
          /\ phase' = "taken"
      BY <1>5, <2>o DEF TranslateBcc, Writing, translator
    <2>3. /\ mem'[b][c] = Broken
          /\ \A i \in Index : i # c => mem'[b][i] = mem[b][i]
          /\ \A d \in Block : d # b => mem'[d] = mem[d]
      BY <2>o, <2>2 DEF Writing
    <2>4. /\ mem'[b][0] = Save /\ ~Finished(b)'
          /\ BlockOK(b, u)' /\ HoldsBody(b, u, n)'
      <3>1. mem'[b][c].t = "broken"
        BY <2>3 DEF Broken
      <3> QED
        BY <2>1, <2>o, <2>3, <3>1, WriteOne
    <2>5. BlocksOK' /\ UnmappedOK'
      BY <1>0, <2>1, <2>3, <2>4, WriteOwn
    <2>6. ProgressOK'
      <3>1. map'[unit'] = b /\ unit' = u /\ p' - unit' = n /\ unit' <= p'
            /\ c <= BlockCells /\ c < BlockCells
        BY <2>1, <2>2, <2>o DEF Writing, Addr
      <3> QED
        BY <2>2, <2>3, <2>4, <2>o, <3>1 DEF ProgressOK, Writing
    <2> QED
      BY <2>5, <2>6
  <1>6. CASE SetupTaken
    <2> Translating
      BY <1>6 DEF SetupTaken, Translating
    <2>1. PICK r \in Block \cup {NoBlock} :
             /\ SetupTU(prog[p].to, r)
             /\ \/ r # NoBlock /\ taken' = r /\ phase' = "fall"
                \/ r = NoBlock /\ phase' = "run"
      BY <1>6 DEF SetupTaken, GiveUp, ReturnToStub
    <2>2. prog[p].op = "bcc" /\ prog[p].to \in Addr /\ p + 1 \in Addr
      BY <1>6, <1>c, InstrFields DEF SetupTaken, CodeInv, Inv, TranslatorOK
    <2>3. /\ \A d \in Addr : map[d] # NoBlock => map'[d] = map[d]
          /\ r # NoBlock => r = map'[prog[p].to]
      BY <2>1, <2>2, SetupTUSound DEF CodeInv, Inv, TypeOK
    <2>4. /\ BlocksOK' /\ UnmappedOK'
          /\ \A d \in Addr : map[d] # NoBlock => mem'[map[d]] = mem[map[d]]
      BY <1>0, <1>6, <2>1, <2>2, SetupTUCode DEF SetupTaken
    <2>5. CASE phase' = "run"
      BY <1>r, <2>4, <2>5
    <2>6. CASE r # NoBlock
      <3>1. Writing(b, u, n, c) /\ mem[b][c] = Broken
        BY <1>6, <1>q DEF SetupTaken
      <3>2. map[u] # NoBlock /\ map[u] = b
        BY DEF CodeInv, Inv, TranslatorOK
      <3>3. mem'[b] = mem[b] /\ map'[u] = b
        BY <2>3, <2>4, <3>1, <3>2 DEF Writing
      <3>4. UNCHANGED <<prog, unit, p, q>> /\ phase' = "fall" /\ taken' = r
        BY <1>6, <2>1, <2>6 DEF SetupTaken
      <3>5. HoldsBody(b, u, n)'
        BY <3>1, <3>3, <3>4, BodyFrame
      <3>6. taken' = map'[prog'[p'].to]
        BY <2>3, <2>6, <3>4
      <3>7. map'[unit'] = b /\ unit' = u
        BY <3>3, <3>4
      <3>8. /\ p' - unit' = n /\ unit' <= p'
            /\ c <= BlockCells /\ c < BlockCells /\ c = CodeStart + n
        BY <3>1, <3>4 DEF Writing, Addr
      <3>9. mem'[b][0] = Save /\ mem'[b][c] = Broken /\ q' = <<b, c>>
        BY <3>1, <3>3, <3>4 DEF Writing
      <3>10. ProgressOK'
        BY <3>4, <3>5, <3>6, <3>7, <3>8, <3>9 DEF ProgressOK
      <3> QED
        BY <2>4, <3>10
    <2> QED
      BY <2>1, <2>5, <2>6
  <1>7. CASE SetupFall
    <2> Translating
      BY <1>7 DEF SetupFall, Translating
    <2>1. PICK r \in Block \cup {NoBlock} :
             /\ SetupTU(p + 1, r)
             /\ \/ r # NoBlock /\ fall' = r /\ phase' = "link"
                \/ r = NoBlock /\ phase' = "run"
      BY <1>7 DEF SetupFall, GiveUp, ReturnToStub
    <2>2. prog[p].op = "bcc" /\ prog[p].to \in Addr /\ p + 1 \in Addr
      BY <1>7, <1>c, InstrFields DEF SetupFall, CodeInv, Inv, TranslatorOK
    <2>3. /\ \A d \in Addr : map[d] # NoBlock => map'[d] = map[d]
          /\ r # NoBlock => r = map'[p + 1]
      BY <2>1, <2>2, SetupTUSound DEF CodeInv, Inv, TypeOK
    <2>4. /\ BlocksOK' /\ UnmappedOK'
          /\ \A d \in Addr : map[d] # NoBlock => mem'[map[d]] = mem[map[d]]
      BY <1>0, <1>7, <2>1, <2>2, SetupTUCode DEF SetupFall
    <2>5. CASE phase' = "run"
      BY <1>r, <2>4, <2>5
    <2>6. CASE r # NoBlock
      <3>1. Writing(b, u, n, c) /\ mem[b][c] = Broken
        BY <1>7, <1>q DEF SetupFall
      <3>2. map[u] # NoBlock /\ map[u] = b
        BY DEF CodeInv, Inv, TranslatorOK
      <3>3. mem'[b] = mem[b] /\ map'[u] = b
        BY <2>3, <2>4, <3>1, <3>2 DEF Writing
      <3>4. UNCHANGED <<prog, unit, p, q, taken>> /\ phase' = "link" /\ fall' = r
        BY <1>7, <2>1, <2>6 DEF SetupFall
      <3>5. HoldsBody(b, u, n)'
        BY <3>1, <3>3, <3>4, BodyFrame
      <3>6. /\ taken' = map'[prog'[p'].to]
            /\ fall' = map'[p' + 1]
        <4>1. taken = map[prog[p].to] /\ taken # NoBlock
          BY <1>0, <1>7 DEF SetupFall, CodeInv, CodeOK, NoSpill, ProgressOK, Inv,
                            TranslatorOK
        <4> QED
          BY <2>2, <2>3, <2>6, <3>4, <4>1
      <3>7. map'[unit'] = b /\ unit' = u
        BY <3>3, <3>4
      <3>8. /\ p' - unit' = n /\ unit' <= p'
            /\ c <= BlockCells /\ c < BlockCells /\ c = CodeStart + n
        BY <3>1, <3>4 DEF Writing, Addr
      <3>9. mem'[b][0] = Save /\ mem'[b][c] = Broken /\ q' = <<b, c>>
        BY <3>1, <3>3, <3>4 DEF Writing
      <3>10. ProgressOK'
        BY <3>4, <3>5, <3>6, <3>7, <3>8, <3>9 DEF ProgressOK
      <3> QED
        BY <2>4, <3>10
    <2> QED
      BY <2>1, <2>5, <2>6
  <1>8. CASE LinkBcc
    <2> Translating
      BY <1>8 DEF LinkBcc, Translating
    <2>o. Writing(b, u, n, c) /\ mem[b][c] = Broken
      BY <1>8, <1>q DEF LinkBcc
    <2>1. /\ UNCHANGED <<prog, map, unit>> /\ phase' = "run"
      BY <1>8 DEF LinkBcc, cache, translator, ReturnToStub
    <2>2. After(q) = <<b, c + 1>> /\ c + 1 \in Index
      <3>1. After(q)[1] = b
        BY <1>8, <1>s DEF LinkBcc
      <3> QED
        BY <2>o, <3>1 DEF After, Writing, Block, Index
    <2>3. /\ prog[p].op = "bcc" /\ taken = map[prog[p].to] /\ fall = map[p + 1]
          /\ taken # NoBlock /\ fall # NoBlock
      BY <1>0, <1>8 DEF LinkBcc, CodeInv, CodeOK, NoSpill, ProgressOK, Inv,
                        TranslatorOK
    <2>4. LinkedJcc = Jcc(p, prog[p].eq, taken)
      BY <2>o DEF LinkedJcc, CellAt, Writing
    <2>5. mem' = [mem EXCEPT ![b][c] = Jcc(p, prog[p].eq, taken),
                             ![b][c + 1] = Jmp(fall), ![b][0] = Skip]
      <3>1. q[1] = b /\ q[2] = c
        BY <2>o DEF Writing
      <3>2. After(q)[1] = b /\ After(q)[2] = c + 1
        BY <2>2
      <3>3. mem' = [mem EXCEPT ![q[1]][q[2]] = LinkedJcc,
                               ![After(q)[1]][After(q)[2]] = Jmp(fall),
                               ![map[unit]][0] = Skip]
        BY <1>8 DEF LinkBcc
      <3> HIDE DEF After, LinkedJcc
      <3> QED
        BY <2>4, <3>1, <3>2, <3>3
    <2>6. /\ mem'[b][c] = Jcc(p, prog[p].eq, taken)
          /\ mem'[b][c + 1] = Jmp(fall) /\ mem'[b][0] = Skip
          /\ \A i \in Index : i # c /\ i # c + 1 /\ i # 0 => mem'[b][i] = mem[b][i]
          /\ \A d \in Block : d # b => mem'[d] = mem[d]
      BY <2>o, <2>2, <2>5 DEF Writing
    <2>7. BlockOK(b, u)'
      <3>1. \A i \in 1 .. CodeStart - 1 : mem'[b][i] = mem[b][i]
        <4>1. \A i \in 1 .. CodeStart - 1 :
                 i \in Index /\ i # c /\ i # c + 1 /\ i # 0
          BY <2>o DEF Writing, Index
        <4> QED
          BY <2>6, <4>1
      <3>2. \A i \in CodeStart .. BlockCells - 1 :
               \/ mem'[b][i] = mem[b][i]
               \/ mem'[b][i] = Jcc(p, prog[p].eq, taken)
               \/ mem'[b][i] = Jmp(fall)
        BY <2>6 DEF Index
      <3>3. Jcc(p, prog[p].eq, taken).t = "jcc" /\ Jmp(fall).t = "jmp"
        BY DEF Jcc, Jmp
      <3> QED
        BY <2>o, <2>6, <3>1, <3>2, <3>3, WriteBlockOK DEF Writing
    <2>8. HoldsUnit(b, u)'
      <3>1. HoldsBody(b, u, n)'
        <4>1. ASSUME NEW i \in Index, i # 0, i < c
              PROVE  mem'[b][i] = mem[b][i]
          <5>1. i # c /\ i # c + 1
            BY <2>o, <4>1 DEF Writing, Index
          <5> QED
            BY <2>6, <4>1, <5>1
        <4> QED
          BY <2>1, <2>o, <4>1, BodyFrame
      <3>2. HoldsEnd(b, u, n)'
        <4>1. /\ c + 1 < BlockCells /\ c = CodeStart + n /\ p = u + n
          BY <2>o, <2>2 DEF Writing, Index
        <4> QED
          BY <2>1, <2>3, <2>6, <4>1 DEF HoldsEnd
      <3> QED
        BY <2>o, <3>1, <3>2 DEF HoldsUnit, Writing
    <2>9. BlocksOK' /\ UnmappedOK'
      BY <1>0, <2>1, <2>6, <2>7, <2>8, WriteOwn
    <2> QED
      BY <1>r, <2>1, <2>9
  <1>9. CASE TranslateCrash
    BY <1>9 DEF TranslateCrash, NoSpill
  <1> QED
    BY <1>1, <1>2, <1>3, <1>4, <1>5, <1>6, <1>7, <1>8, <1>9 DEF Translate

\* Where the guest is: in a unit's block, or in one never written.
LEMMA GuestBlock ==
    ASSUME CodeInv, NoSpill, InPool(gp)
    PROVE  /\ gp[1] \in Block /\ gp[2] \in Index
           /\ \/ \E a \in Addr : map[a] = gp[1] /\ BlockOK(gp[1], a)
              \/ mem[gp[1]] = [i \in Index |-> Zero]
  <1>1. gp[1] \in Block /\ gp[2] \in Index
    BY DEF CodeInv, Inv, TypeOK, GuestType, InPool, Block
  <1>2. CASE \E a \in Addr : map[a] = gp[1]
    <2>1. PICK a \in Addr : map[a] = gp[1]
      BY <1>2
    <2>2. map[a] # NoBlock
      BY <1>1, <2>1 DEF Block
    <2>3. BlockOK(gp[1], a)
      BY <2>1, <2>2, CodeInvParts DEF BlocksOK
    <2> QED
      BY <1>1, <2>1, <2>3
  <1>3. CASE ~ \E a \in Addr : map[a] = gp[1]
    BY <1>1, <1>3, CodeInvParts DEF UnmappedOK
  <1> QED
    BY <1>2, <1>3

\* The call of a stub is at cell 1 of its unit's own block, only the save
\* leads to it, and the cell after the call is the restore.
LEMMA CallCell ==
    ASSUME CodeInv, NoSpill, phase = "run", InPool(gp)
    PROVE  /\ CellAt(gp).t = "call" =>
                 /\ gp[2] = 1 /\ mem[gp[1]][0] = Save
                 /\ \E a \in Addr : map[a] = gp[1] /\ CellAt(gp) = Call(a)
           /\ gp[2] = 0 => CellAt(gp) \in {Save, Skip, Zero}
  <1>1. /\ gp[1] \in Block /\ gp[2] \in Index
        /\ \/ \E a \in Addr : map[a] = gp[1] /\ BlockOK(gp[1], a)
           \/ mem[gp[1]] = [i \in Index |-> Zero]
    BY GuestBlock
  <1>2. CASE mem[gp[1]] = [i \in Index |-> Zero]
    BY <1>1, <1>2 DEF CellAt, Zero
  <1>3. ASSUME NEW a \in Addr, map[a] = gp[1], BlockOK(gp[1], a)
        PROVE  /\ CellAt(gp).t = "call" =>
                     /\ gp[2] = 1 /\ mem[gp[1]][0] = Save
                     /\ CellAt(gp) = Call(a)
               /\ gp[2] = 0 => CellAt(gp) \in {Save, Skip, Zero}
    <2>1. gp[2] = 0 => CellAt(gp) \in {Save, Skip}
      BY <1>3 DEF BlockOK, CellAt
    <2>2. ASSUME CellAt(gp).t = "call" PROVE gp[2] = 1
      <3>1. gp[2] # 0
        BY <2>1, <2>2 DEF Save, Skip
      <3>2. gp[2] # 2
        BY <1>3, <2>2 DEF BlockOK, CellAt, Restore
      <3>3. gp[2] \notin 3 .. CodeStart - 1
        BY <1>3, <2>2 DEF BlockOK, CellAt, Nop
      <3>4. gp[2] \notin CodeStart .. BlockCells - 1
        BY <1>3, <2>2 DEF BlockOK, CellAt
      <3> QED
        BY <1>1, <3>1, <3>2, <3>3, <3>4 DEF Index
    <2>3. gp[2] = 1 => ~Finished(gp[1])
      BY <1>1 DEF CodeInv, HeadOK, Executing, NoSpill
    <2>4. gp[2] = 1 => mem[gp[1]][0] = Save /\ CellAt(gp) = Call(a)
      BY <1>1, <1>3, <2>3 DEF BlockOK, CellAt, Finished
    <2> QED
      BY <2>1, <2>2, <2>4
  <1> QED
    BY <1>1, <1>2, <1>3

\* What the guest runs leaves code memory alone, and enters translate_tu()
\* from an unfinished block only.
LEMMA RunGuestCode == ASSUME CodeInv, RunGuest PROVE CodeInv'
  <1>. USE DEF GuestAt
  <1>0. Inv'
    BY RunGuestInv DEF CodeInv
  <1>1. UNCHANGED <<prog, map, nextBlock, mem, faults>> /\ phase = "run"
    BY DEF RunGuest, RunNop, RunSkip, RunIns, RunJcc, RunJmp, RunRet, RunSave,
           RunCall, RunRestore, RunBroken, RunWild, GuestOnly, cache
  <1>2. SUFFICES ASSUME NoSpill
                 PROVE  /\ BlocksOK' /\ UnmappedOK'
                        /\ (Translating => ProgressOK)'
                        /\ HeadOK'
    BY <1>0, <1>1, CodeInvFromParts DEF NoSpill, HeadOK
  <1>3. BlocksOK' /\ UnmappedOK'
    BY <1>1, <1>2, SameCode
  <1>4. CASE RunCall /\ phase' = "translate"
    <2>1. /\ InPool(gp) /\ CellAt(gp).t = "call"
          /\ unit' = CellAt(gp).src /\ p' = unit'
          /\ q' = <<map[unit'], CodeStart>> /\ gp' = gp
      BY <1>1, <1>4 DEF RunCall
    <2>2. gp[2] = 1 /\ mem[gp[1]][0] = Save
      BY <1>1, <1>2, <2>1, CallCell
    <2>3. map[unit'] = gp[1] /\ unit' \in Addr
      <3>1. PICK a \in Addr : map[a] = gp[1] /\ CellAt(gp) = Call(a)
        BY <1>1, <1>2, <2>1, CallCell
      <3>2. CellAt(gp).src = a
        BY <3>1 DEF Call
      <3> QED
        BY <2>1, <3>1, <3>2
    <2>4. gp = <<map[unit'], 1>>
      BY <2>2, <2>3 DEF CodeInv, Inv, TypeOK, GuestType
    <2>5. p' - unit' = 0 /\ unit' <= p'
      BY <2>1, <2>3 DEF Addr
    <2>6. ProgressOK'
      <3>1. HoldsBody(map[unit], unit, 0)'
        BY DEF HoldsBody
      <3> QED
        <4>1. /\ phase' = "translate" /\ CodeStart + 0 = CodeStart
              /\ CodeStart < BlockCells /\ CodeStart <= BlockCells
          BY <1>4
        <4>2. mem'[map'[unit']][0] = Save
          BY <1>1, <2>2, <2>3
        <4>3. q' = <<map'[unit'], CodeStart>>
          BY <1>1, <2>1
        <4> QED
          BY <2>5, <3>1, <4>1, <4>2, <4>3 DEF ProgressOK
    <2>7. HeadOK'
      <3>1. mem'[gp'[1]][0] = Save
        BY <1>1, <2>1, <2>2
      <3> QED
        BY <1>1, <2>1, <2>3, <2>4, <3>1 DEF HeadOK, Finished, Save, Skip
    <2> QED
      BY <1>3, <2>6, <2>7
  <1>5. CASE ~(RunCall /\ phase' = "translate")
    <2>1. ~Translating'
      BY <1>1, <1>5
         DEF RunGuest, RunNop, RunSkip, RunIns, RunJcc, RunJmp, RunRet, RunSave,
             RunCall, RunRestore, RunBroken, RunWild, Translating
    <2>2. HeadOK'
      <3> SUFFICES ASSUME phase' = "run", gp'[2] = 1, InPool(gp')
                   PROVE  mem[gp'[1]][0] # Skip
        BY <1>1, <2>1 DEF HeadOK, Executing, InPool, Finished
      <3>1. CASE gp' = gp
        BY <1>1, <1>2, <3>1 DEF CodeInv, HeadOK, Executing, NoSpill, Finished
      <3>2. CASE RunSave
        <4>1. CASE gp[2] = 0
          <5>1. CellAt(gp) = Save
            BY <1>1, <1>2, <3>2, <4>1, CallCell DEF RunSave, Skip, Zero
          <5> QED
            BY <3>2, <4>1, <5>1 DEF RunSave, After, CellAt, Save, Skip
        <4>2. CASE gp[2] # 0
          BY <1>1, <3>2, <4>2, GuestBlock, <1>2 DEF RunSave, After, Index
        <4> QED
          BY <4>1, <4>2
      <3>3. CASE InPool(gp) /\ gp' = After(gp) /\ ~RunSave
                 /\ CellAt(gp).t \notin {"save", "skip", "zero"}
        <4>1. gp[2] # 0
          BY <1>1, <1>2, <3>3, CallCell DEF Save, Skip, Zero
        <4> QED
          BY <1>2, <3>3, <4>1, GuestBlock DEF After, Index
      <3>4. CASE gp'[2] \in {0, CodeStart}
        BY <3>4
      <3>5. CASE InPool(gp) /\ gp' = After(gp) /\ CellAt(gp).t = "zero"
        <4>1. CASE gp[2] = 0
          <5>1. gp'[1] = gp[1] /\ CellAt(gp) = mem[gp[1]][0]
            BY <3>5, <4>1 DEF After, CellAt
          <5> QED
            BY <3>5, <5>1 DEF Skip
        <4>2. CASE gp[2] # 0
          BY <1>1, <3>5, <4>2, GuestBlock, <1>2 DEF After, Index
        <4> QED
          BY <4>1, <4>2
      <3> QED
        BY <1>5, <3>1, <3>2, <3>3, <3>4, <3>5
           DEF RunGuest, RunNop, RunSkip, RunIns, RunJcc, RunJmp, RunRet,
               RunCall, RunRestore, RunBroken, RunWild, guest, GuestOnly
    <2> QED
      BY <1>3, <2>1, <2>2
  <1> QED
    BY <1>4, <1>5

\* translate_tu() leaves the guest at the call, or puts it behind.
LEMMA TranslateKeepsCode == ASSUME CodeInv, Translate PROVE CodeInv'
  <1>0. Inv'
    BY TranslateInv DEF CodeInv
  <1>1. SUFFICES ASSUME NoSpill'
                 PROVE  /\ BlocksOK' /\ UnmappedOK'
                        /\ (Translating => ProgressOK)'
                        /\ HeadOK'
    BY <1>0, CodeInvFromParts DEF NoSpill, HeadOK
  <1>2. BlocksOK' /\ UnmappedOK' /\ (Translating => ProgressOK)'
    BY <1>1, TranslateCode
  <1>3. NoSpill /\ Translating
    BY <1>1 DEF Translate, TranslatePlain, TranslateRts, TranslateBad,
                TranslateHalf, TranslateBcc, SetupTaken, SetupFall, LinkBcc,
                TranslateCrash, GiveUp, NoSpill, Decoding, Translating
  <1>4. gp = <<map[unit], 1>> /\ map[unit] # NoBlock /\ unit \in Addr
    BY <1>3 DEF CodeInv, HeadOK, NoSpill, Inv, TranslatorOK, TypeOK,
                TranslatorType
  <1>5. CASE phase' = "run" /\ gp' = After(gp)
    <2>1. gp[1] = map[unit] /\ gp[2] = 1 /\ 1 + 1 < BlockCells
      BY <1>4
    <2>2. gp'[2] = 2
      BY <1>5, <2>1 DEF After
    <2> QED
      BY <1>2, <1>5, <2>2 DEF HeadOK, Translating
  <1>6. CASE Translating' /\ gp' = gp /\ unit' = unit
    <2>1. map'[unit] = map[unit]
      <3>1. CASE map' = map
        BY <3>1
      <3>2. CASE SetupTaken
        <4>1. PICK r \in Block \cup {NoBlock} : SetupTU(prog[p].to, r)
          BY <3>2 DEF SetupTaken
        <4>2. prog[p].to \in Addr
          BY <3>2, TranslatorFacts, <1>3 DEF SetupTaken, CodeInv, Inv, TranslatorOK
        <4> QED
          BY <1>4, <4>1, <4>2, SetupTUSound DEF CodeInv, Inv, TypeOK
      <3>3. CASE SetupFall
        <4>1. PICK r \in Block \cup {NoBlock} : SetupTU(p + 1, r)
          BY <3>3 DEF SetupFall
        <4>2. p + 1 \in Addr
          BY <3>3, TranslatorFacts, <1>3 DEF SetupFall, CodeInv, Inv, TranslatorOK
        <4> QED
          BY <1>4, <4>1, <4>2, SetupTUSound DEF CodeInv, Inv, TypeOK
      <3> QED
        BY <3>1, <3>2, <3>3
           DEF Translate, TranslatePlain, TranslateRts, TranslateBad,
               TranslateHalf, TranslateBcc, LinkBcc, TranslateCrash, cache
    <2>2. mem'[map'[unit']][0] = Save
      BY <1>2, <1>6 DEF ProgressOK
    <2>3. gp'[1] = map'[unit'] /\ gp' = <<map'[unit'], 1>>
      BY <1>4, <1>6, <2>1
    <2> QED
      BY <2>2, <2>3, <1>2 DEF HeadOK, Finished, Save, Skip
  <1>7. \/ phase' = "run" /\ gp' = After(gp)
        \/ Translating' /\ gp' = gp /\ unit' = unit
    BY <1>1, <1>3
       DEF Translate, TranslatePlain, TranslateRts, TranslateBad, TranslateHalf,
           TranslateBcc, SetupTaken, SetupFall, LinkBcc, TranslateCrash, GiveUp,
           ReturnToStub, Decoding, Translating, guest, translator, NoSpill
  <1> QED
    BY <1>2, <1>5, <1>6, <1>7

LEMMA BootCode == ASSUME CodeInv, Boot PROVE CodeInv'
  <1>1. PICK r \in Block \cup {NoBlock} :
           /\ SetupTU(0, r)
           /\ \/ phase' = "run" /\ gp' = <<r, 0>>
              \/ phase' = "abort"
    BY DEF Boot
  <1>2. HeadOK' /\ ~Translating'
    BY <1>1 DEF HeadOK, Executing, Translating
  <1>3. ASSUME NoSpill' PROVE BlocksOK' /\ UnmappedOK'
    BY <1>1, <1>3, SetupTUCode DEF Boot, NoSpill, Addr
  <1> QED
    BY <1>2, <1>3, BootInv, CodeInvFromParts DEF CodeInv

LEMMA InitCode == Init => CodeInv
  <1> SUFFICES ASSUME Init PROVE CodeInv
    OBVIOUS
  <1>1. \A a \in Addr : map[a] = NoBlock
    BY DEF Init
  <1>2. \A b \in Block : mem[b] = [i \in Index |-> Zero]
    BY DEF Init
  <1>3. phase = "boot"
    BY DEF Init
  <1> QED
    BY <1>1, <1>2, <1>3, InitInv
       DEF CodeInv, CodeOK, HeadOK, FinishedUnitsComplete, Executing, Translating

LEMMA NextCode == CodeInv /\ [Next]_vars => CodeInv'
  <1> SUFFICES ASSUME CodeInv, [Next]_vars PROVE CodeInv'
    OBVIOUS
  <1>1. CASE UNCHANGED vars
    <2>1. Inv'
      BY <1>1, NextInv DEF CodeInv
    <2>2. CodeOK'
      BY <1>1 DEF vars, cache, guest, translator, CodeInv, CodeOK, BlockOK,
                  Translating, ProgressOK, HoldsBody
    <2>3. HeadOK'
      BY <1>1 DEF vars, cache, guest, translator, CodeInv, HeadOK, Executing,
                  Translating, InPool, Finished
    <2>4. FinishedUnitsComplete'
      BY <1>1 DEF vars, cache, guest, translator, CodeInv,
                  FinishedUnitsComplete, Finished, HoldsUnit, HoldsBody, HoldsEnd
    <2> QED
      BY <2>1, <2>2, <2>3, <2>4 DEF CodeInv
  <1>2. CASE Boot
    BY <1>2, BootCode
  <1>3. CASE RunGuest
    BY <1>3, RunGuestCode
  <1>4. CASE Translate
    BY <1>4, TranslateKeepsCode
  <1> QED
    BY <1>1, <1>2, <1>3, <1>4 DEF Next, Ended

THEOREM CodeInvCorrect == Spec => []CodeInv
  BY InitCode, NextCode, PTL DEF Spec

\* Unless a unit has spilled, a block whose head is patched holds its unit.
THEOREM FinishedUnitsCompleteCorrect == Spec => []FinishedUnitsComplete
  BY CodeInvCorrect, PTL DEF CodeInv

\* Unless a unit has spilled, the blocks hold what the units have written.
THEOREM CodeOKCorrect == Spec => []CodeOK
  BY CodeInvCorrect, PTL DEF CodeInv

-----------------------------------------------------------------------------
(* What a step may never do.                                               *)

\* A finished block belongs to a unit.
LEMMA FinishedMapped ==
    ASSUME CodeInv, NoSpill, NEW b \in Block, Finished(b)
    PROVE  \E a \in Addr : map[a] = b /\ map[a] # NoBlock
  <1>1. mem[b] # [i \in Index |-> Zero]
    BY DEF Finished, Zero, Skip, Index
  <1> QED
    BY <1>1, CodeInvParts DEF UnmappedOK, Block

\* setup_tu() does not touch it.
LEMMA SetupTUStays ==
    ASSUME CodeInv, NoSpill, prog' = prog,
           NEW a \in Addr, NEW r \in Block \cup {NoBlock}, SetupTU(a, r),
           NEW b \in Block, Finished(b)
    PROVE  mem'[b] = mem[b]
  BY FinishedMapped, SetupTUCode

\* Nor does translate_tu(), which writes to a block that is not finished.
LEMMA NextStays ==
    ASSUME CodeInv, [Next]_vars, NoSpill', NEW b \in Block, Finished(b)
    PROVE  mem'[b] = mem[b]
  <1>0. NoSpill
    BY DEF Next, Boot, RunGuest, RunNop, RunSkip, RunIns, RunJcc, RunJmp, RunRet,
           RunSave, RunCall, RunRestore, RunBroken, RunWild, GuestOnly, Ended,
           Translate, TranslatePlain, TranslateRts, TranslateBad, TranslateHalf,
           TranslateBcc, SetupTaken, SetupFall, LinkBcc, TranslateCrash, GiveUp,
           NoSpill, vars
  <1>1. CASE mem' = mem
    BY <1>1
  <1>2. CASE Boot
    BY <1>0, <1>2, SetupTUStays DEF Boot, Addr
  <1>3. CASE SetupTaken
    <2>1. prog[p].to \in Addr
      BY <1>3, TranslatorFacts DEF SetupTaken, CodeInv, Inv, TranslatorOK,
                                   Translating
    <2> QED
      BY <1>0, <1>3, <2>1, SetupTUStays DEF SetupTaken
  <1>4. CASE SetupFall
    <2>1. p + 1 \in Addr
      BY <1>4, TranslatorFacts DEF SetupFall, CodeInv, Inv, TranslatorOK,
                                   Translating
    <2> QED
      BY <1>0, <1>4, <2>1, SetupTUStays DEF SetupFall
  <1>5. CASE TranslatePlain \/ TranslateRts \/ TranslateHalf \/ TranslateBcc
             \/ LinkBcc
    <2>1. Translating
      BY <1>5 DEF TranslatePlain, TranslateRts, TranslateHalf, TranslateBcc,
                  LinkBcc, Decoding, Translating
    <2>2. b # map[unit]
      BY <1>0, <2>1 DEF CodeInv, CodeOK, NoSpill, ProgressOK, Finished, Save, Skip
    <2>3. q[1] = map[unit]
      BY <1>0, <1>5, <2>1
         DEF TranslatePlain, TranslateRts, TranslateHalf, TranslateBcc, LinkBcc,
             NoSpill, Spill, CodeInv, CodeOK, ProgressOK
    <2>4. LinkBcc => After(q)[1] = map[unit]
      BY DEF LinkBcc, NoSpill, Spill
    <2>5. mem \in [Block -> [Index -> Cell]]
      BY DEF CodeInv, Inv, TypeOK, CacheType
    <2>6. CASE LinkBcc
      BY <2>2, <2>3, <2>4, <2>5, <2>6 DEF LinkBcc
    <2> QED
      BY <1>5, <2>2, <2>3, <2>5, <2>6
         DEF TranslatePlain, TranslateRts, TranslateHalf, TranslateBcc
  <1> QED
    BY <1>1, <1>2, <1>3, <1>4, <1>5
       DEF Next, RunGuest, RunNop, RunSkip, RunIns, RunJcc, RunJmp, RunRet,
           RunSave, RunCall, RunRestore, RunBroken, RunWild, GuestOnly, Ended,
           Translate, TranslateBad, TranslateCrash, vars

\* Unless a unit has spilled, a finished unit is never written again.
THEOREM FinishedUnitsStayCorrect == Spec => FinishedUnitsStay
  <1>1. CodeInv /\ [Next]_vars =>
           [ "spill" \notin faults' =>
                \A b \in Block : Finished(b) => mem'[b] = mem[b] ]_mem
    BY NextStays DEF NoSpill
  <1> QED
    BY <1>1, CodeInvCorrect, PTL DEF Spec, FinishedUnitsStay

\* A source address is never mapped to another block.
THEOREM CacheStableCorrect == Spec => CacheStable
  <1>1. Inv /\ [Next]_vars =>
           [\A a \in Addr : map[a] # NoBlock => map'[a] = map[a]]_map
    <2> SUFFICES ASSUME Inv, [Next]_vars, map' # map
                 PROVE  \A a \in Addr : map[a] # NoBlock => map'[a] = map[a]
      OBVIOUS
    <2>1. PICK a \in Addr, r \in Block \cup {NoBlock} : SetupTU(a, r)
      <3>1. CASE Boot
        BY <3>1 DEF Boot, Addr
      <3>2. CASE SetupTaken
        BY <3>2, TranslatorFacts DEF SetupTaken, Inv, TranslatorOK, Translating
      <3>3. CASE SetupFall
        BY <3>3, TranslatorFacts DEF SetupFall, Inv, TranslatorOK, Translating
      <3> QED
        BY <3>1, <3>2, <3>3
           DEF Next, RunGuest, RunNop, RunSkip, RunIns, RunJcc, RunJmp, RunRet,
               RunSave, RunCall, RunRestore, RunBroken, RunWild, GuestOnly,
               Ended, Translate, TranslatePlain, TranslateRts, TranslateBad,
               TranslateHalf, TranslateBcc, LinkBcc, TranslateCrash, cache, vars
    <2> QED
      BY <2>1, SetupTUSound DEF Inv, TypeOK
  <1> QED
    BY <1>1, InvCorrect, PTL DEF Spec, CacheStable
=============================================================================
