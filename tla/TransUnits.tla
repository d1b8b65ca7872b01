----------------------------- MODULE TransUnits -----------------------------
(***************************************************************************)
(* Translation units: setup_tu(), translate_tu() and m68k_bcc() building   *)
(* x86 code in the blocks of the translation cache, and the guest running  *)
(* that code, which calls translate_tu() back through the stub at the head *)
(* of every block.                                                         *)
(*                                                                         *)
(* A code block is BlockCells cells; a cell is one x86 instruction, or one *)
(* of the three parts of the stub.  Blocks lie next to each other, so the  *)
(* position after the last cell of a block is the first of the next one.   *)
(***************************************************************************)
EXTENDS GuestProgram, Sequences

CONSTANTS NBlocks,      \* code blocks in the cache (64 in the code)
          BlockCells,   \* cells of a block (1024 bytes in the code)
          CodeStart,    \* cell of the first translated instruction (128)
          StackDepth,   \* saved flags the guest's stack has room for
          MallocFails,  \* whether malloc() of a cache node may fail
          NoBlock       \* the null pointer

ASSUME SizeAssumption ==
    /\ NBlocks \in Nat \ {0}
    /\ CodeStart \in Nat /\ CodeStart >= 3
    /\ BlockCells \in Nat /\ BlockCells > CodeStart
    /\ StackDepth \in Nat \ {0}
    /\ MallocFails \in BOOLEAN
    /\ NoBlock \notin Nat

Block == 0 .. NBlocks - 1
Index == 0 .. BlockCells - 1

\* What a cell of code memory holds.
Nop      == [t |-> "nop"]
Save     == [t |-> "save"]       \* emit_save_program_state()
Restore  == [t |-> "restore"]    \* emit_restore_program_state()
Skip     == [t |-> "skip"]       \* eb 7e, to CodeStart
Broken   == [t |-> "broken"]     \* an instruction written only in part
Zero     == [t |-> "zero"]       \* never written
Call(a)  == [t |-> "call", src |-> a]
Ins(a)   == [t |-> "ins",  src |-> a]
Ret(a)   == [t |-> "ret",  src |-> a]
Jmp(b)   == [t |-> "jmp",  to |-> b]
Jcc(a, eq, b) == [t |-> "jcc", src |-> a, eq |-> eq, to |-> b]

Cell == {Nop, Save, Restore, Skip, Broken, Zero}
        \cup {Call(a) : a \in Addr} \cup {Ins(a) : a \in Addr}
        \cup {Ret(a) : a \in Addr} \cup {Jmp(b) : b \in Block}
        \cup {Jcc(a, eq, b) : a \in Addr, eq \in BOOLEAN, b \in Block}

VARIABLES
    prog,       \* the guest's program
    map,        \* translation cache: source address -> block, or NoBlock
    nextBlock,  \* p_next_code_block
    mem,        \* contents of the code blocks
    phase,      \* who runs, see Phase
    gp,         \* position of the guest: <<block, index>>
    z,          \* the CPU's zero flag
    saved,      \* flags the stub has saved on the guest's stack
    unit,       \* argument of translate_tu()
    p,          \* source address it has reached
    q,          \* position it writes to
    taken,      \* branch_taken_addr of m68k_bcc()
    fall,       \* branch_not_taken_addr
    retired,    \* history: source address of the last instruction executed
    faults      \* history: what has gone wrong so far

cache      == <<map, nextBlock>>
translator == <<unit, p, q, taken, fall>>
guest      == <<gp, z, saved, retired>>
vars == <<prog, cache, mem, phase, guest, translator, faults>>

Phase == {"boot", "run", "translate", "taken", "fall", "link",
          "halt", "dead", "abort"}

\* Mutant: the index runs one cell too far.
AfterLate(pos) == IF pos[2] + 1 <= BlockCells THEN <<pos[1], pos[2] + 1>>
                                              ELSE <<pos[1] + 1, 0>>

After(pos) == IF pos[2] + 1 < BlockCells THEN <<pos[1], pos[2] + 1>>
                                         ELSE <<pos[1] + 1, 0>>
InPool(pos) == pos[1] < NBlocks
CellAt(pos) == mem[pos[1]][pos[2]]

\* "reject": translate_tu() has given up on a unit.
\* "spill":  a unit has been written past the end of its block.
Fault == {"reject", "spill"}

Init ==
    /\ prog \in Programs
    /\ map = [a \in Addr |-> NoBlock]
    /\ nextBlock = 0
    /\ mem = [b \in Block |-> [i \in Index |-> Zero]]
    /\ phase = "boot"
    /\ gp = <<0, 0>> /\ z \in BOOLEAN /\ saved = <<>> /\ retired = NoAddr
    /\ unit = 0 /\ p = 0 /\ q = <<0, 0>> /\ taken = NoBlock /\ fall = NoBlock
    /\ faults = {}

-----------------------------------------------------------------------------
(* setup_tu(a), with result r                                              *)

\* Mutant: the saved state is left on the stack.
StubWithoutRestore(a) ==
    [i \in Index |-> CASE i = 0 -> Save
                       [] i = 1 -> Call(a)
                       [] OTHER -> Nop]

\* A block filled with NOPs whose head calls translate_tu(a).
StubBlock(a) ==
    [i \in Index |-> CASE i = 0 -> Save
                       [] i = 1 -> Call(a)
                       [] i = 2 -> Restore
                       [] OTHER -> Nop]

\* Mutant: the stub is written again for a unit found in the cache.
CacheHitRestub(a, r) ==
    /\ map[a] # NoBlock
    /\ r = map[a]
    /\ mem' = [mem EXCEPT ![r] = StubBlock(a)]
    /\ UNCHANGED cache

CacheHit(a, r) ==
    /\ map[a] # NoBlock
    /\ r = map[a]
    /\ UNCHANGED <<cache, mem>>

PoolFull(a, r) ==
    /\ map[a] = NoBlock
    /\ nextBlock = NBlocks
    /\ r = NoBlock
    /\ UNCHANGED <<cache, mem>>

\* tc_put_addr() fails; the block it was to map stays handed out.
NodeMallocFails(a, r) ==
    /\ MallocFails
    /\ map[a] = NoBlock
    /\ nextBlock < NBlocks
    /\ r = NoBlock
    /\ nextBlock' = nextBlock + 1
    /\ UNCHANGED <<map, mem>>

\* Mutant: the block is not taken out of the pool.
NewUnitKeepsBlock(a, r) ==
    /\ map[a] = NoBlock
    /\ nextBlock < NBlocks
    /\ r = nextBlock
    /\ map' = [map EXCEPT ![a] = r]
    /\ mem' = [mem EXCEPT ![r] = StubBlock(a)]
    /\ UNCHANGED nextBlock

\* Mutant: a new unit without looking for it in the cache.
NewUnitUnasked(a, r) ==
    /\ nextBlock < NBlocks
    /\ r = nextBlock
    /\ nextBlock' = nextBlock + 1
    /\ map' = [map EXCEPT ![a] = r]
    /\ mem' = [mem EXCEPT ![r] = StubBlock(a)]

NewUnit(a, r) ==
    /\ map[a] = NoBlock
    /\ nextBlock < NBlocks
    /\ r = nextBlock
    /\ nextBlock' = nextBlock + 1
    /\ map' = [map EXCEPT ![a] = r]
    /\ mem' = [mem EXCEPT ![r] = StubBlock(a)]

SetupTU(a, r) ==
    \/ CacheHit(a, r)
    \/ PoolFull(a, r)
    \/ NodeMallocFails(a, r)
    \/ NewUnit(a, r)

-----------------------------------------------------------------------------
(* main(): the first unit, then the guest is started.                      *)

Boot ==
    /\ phase = "boot"
    /\ \E r \in Block \cup {NoBlock} :
          /\ SetupTU(0, r)
          /\ \/ /\ r # NoBlock
                /\ phase' = "run"
                /\ gp' = <<r, 0>>
             \/ /\ r = NoBlock
                /\ phase' = "abort"
                /\ gp' = gp
    /\ UNCHANGED <<prog, z, saved, retired, translator, faults>>

-----------------------------------------------------------------------------
(* The guest executing x86 code.                                           *)

GuestAt(t) ==
    /\ phase = "run"
    /\ InPool(gp)
    /\ CellAt(gp).t = t

GuestOnly == UNCHANGED <<prog, cache, mem, translator, faults>>

RunNop ==
    /\ GuestAt("nop")
    /\ gp' = After(gp)
    /\ GuestOnly /\ UNCHANGED <<phase, z, saved, retired>>

\* Mutant: the displacement counts one cell too many.
RunSkipLate ==
    /\ GuestAt("skip")
    /\ gp' = <<gp[1], CodeStart + 1>>
    /\ GuestOnly /\ UNCHANGED <<phase, z, saved, retired>>

RunSkip ==
    /\ GuestAt("skip")
    /\ gp' = <<gp[1], CodeStart>>
    /\ GuestOnly /\ UNCHANGED <<phase, z, saved, retired>>

RunIns ==
    /\ GuestAt("ins")
    /\ retired' = CellAt(gp).src
    /\ z' \in BOOLEAN
    /\ gp' = After(gp)
    /\ GuestOnly /\ UNCHANGED <<phase, saved>>

RunJcc ==
    /\ GuestAt("jcc")
    /\ retired' = CellAt(gp).src
    /\ \/ CellAt(gp).eq = z /\ gp' = <<CellAt(gp).to, 0>>
       \/ CellAt(gp).eq # z /\ gp' = After(gp)
    /\ GuestOnly /\ UNCHANGED <<phase, z, saved>>

RunJmp ==
    /\ GuestAt("jmp")
    /\ gp' = <<CellAt(gp).to, 0>>
    /\ GuestOnly /\ UNCHANGED <<phase, z, saved, retired>>

\* Back to exec_program(), if the return address is on top of the stack.
RunRet ==
    /\ GuestAt("ret")
    /\ saved = <<>>
    /\ retired' = CellAt(gp).src
    /\ phase' = "halt"
    /\ GuestOnly /\ UNCHANGED <<gp, z, saved>>

RunSave ==
    /\ GuestAt("save")
    /\ Len(saved) < StackDepth
    /\ saved' = Append(saved, z)
    /\ gp' = After(gp)
    /\ GuestOnly /\ UNCHANGED <<phase, z, retired>>

\* Mutant: translated code starts one cell early.
RunCallEarly ==
    /\ GuestAt("call")
    /\ LET a == CellAt(gp).src
       IN  /\ map[a] # NoBlock
           /\ phase' = "translate"
           /\ unit' = a
           /\ p' = a
           /\ q' = <<map[a], CodeStart - 1>>
    /\ z' \in BOOLEAN
    /\ UNCHANGED <<prog, cache, mem, gp, saved, retired, taken, fall, faults>>

\* The C code of translate_tu() leaves the flags in any state.  The guest
\* stays at the call until it returns.
RunCall ==
    /\ GuestAt("call")
    /\ LET a == CellAt(gp).src
       IN  IF map[a] = NoBlock
           THEN /\ gp' = After(gp)
                /\ UNCHANGED <<phase, translator>>
           ELSE /\ phase' = "translate"
                /\ unit' = a
                /\ p' = a
                /\ q' = <<map[a], CodeStart>>
                /\ gp' = gp
                /\ UNCHANGED <<taken, fall>>
    /\ z' \in BOOLEAN
    /\ UNCHANGED <<prog, cache, mem, saved, retired, faults>>

\* Mutant: the flags are popped but not restored.
RunRestoreNoFlags ==
    /\ GuestAt("restore")
    /\ saved # <<>>
    /\ saved' = SubSeq(saved, 1, Len(saved) - 1)
    /\ gp' = After(gp)
    /\ GuestOnly /\ UNCHANGED <<phase, z, retired>>

RunRestore ==
    /\ GuestAt("restore")
    /\ saved # <<>>
    /\ z' = saved[Len(saved)]
    /\ saved' = SubSeq(saved, 1, Len(saved) - 1)
    /\ gp' = After(gp)
    /\ GuestOnly /\ UNCHANGED <<phase, retired>>

\* Bytes of half an instruction, or zeroes: whatever they decode to, the guest
\* crashes or gets past them.
RunBroken ==
    /\ GuestAt("broken") \/ GuestAt("zero")
    /\ \/ phase' = "dead" /\ gp' = gp
       \/ phase' = phase  /\ gp' = After(gp)
    /\ GuestOnly /\ UNCHANGED <<z, saved, retired>>

\* The guest leaves the code memory or its stack, or takes a saved value for a
\* return address.  It may take a while to die of it; nothing more is said of it.
RunWild ==
    /\ phase = "run"
    /\ \/ ~InPool(gp)
       \/ GuestAt("ret") /\ saved # <<>>
       \/ GuestAt("save") /\ Len(saved) = StackDepth
       \/ GuestAt("restore") /\ saved = <<>>
    /\ phase' = "dead"
    /\ GuestOnly /\ UNCHANGED guest

RunGuest ==
    \/ RunNop \/ RunSkip \/ RunIns \/ RunJcc \/ RunJmp \/ RunRet
    \/ RunSave \/ RunCall \/ RunRestore \/ RunBroken \/ RunWild

-----------------------------------------------------------------------------
(* translate_tu() and the handlers it calls                                *)

\* Writing outside the unit's own block is not prevented.
Spill(pos) == IF pos[1] = map[unit] THEN {} ELSE {"spill"}

Decoding(op) ==
    /\ phase = "translate"
    /\ prog[p].op = op

\* Back to the stub, right after its call.
ReturnToStub == phase' = "run" /\ gp' = After(gp)

\* translate_tu() returns NULL and the stub does not look at it.
GiveUp == ReturnToStub /\ faults' = faults \cup {"reject"}

TranslatePlain ==
    /\ Decoding("plain")
    /\ InPool(q)
    /\ mem' = [mem EXCEPT ![q[1]][q[2]] = Ins(p)]
    /\ p' = p + 1
    /\ q' = After(q)
    /\ faults' = faults \cup Spill(q)
    /\ UNCHANGED <<prog, cache, phase, guest, unit, taken, fall>>

\* Mutant: the head of the block is not patched.
TranslateRtsUnpatched ==
    /\ Decoding("rts")
    /\ InPool(q)
    /\ mem' = [mem EXCEPT ![q[1]][q[2]] = Ret(p)]
    /\ faults' = faults \cup Spill(q)
    /\ ReturnToStub
    /\ UNCHANGED <<prog, cache, z, saved, retired, translator>>

\* After a terminal instruction the head of the block is patched to jump to
\* the translated code.
TranslateRts ==
    /\ Decoding("rts")
    /\ InPool(q)
    /\ mem' = [mem EXCEPT ![q[1]][q[2]] = Ret(p), ![map[unit]][0] = Skip]
    /\ faults' = faults \cup Spill(q)
    /\ ReturnToStub
    /\ UNCHANGED <<prog, cache, z, saved, retired, translator>>

\* Mutant: an unknown opcode is looked up over and over.
TranslateBadRetry ==
    /\ Decoding("bad")
    /\ UNCHANGED vars

TranslateBad ==
    /\ Decoding("bad")
    /\ GiveUp
    /\ UNCHANGED <<prog, cache, mem, z, saved, retired, translator>>

TranslateHalf ==
    /\ Decoding("half")
    /\ InPool(q)
    /\ mem' = [mem EXCEPT ![q[1]][q[2]] = Broken]
    /\ ReturnToStub
    /\ faults' = faults \cup {"reject"} \cup Spill(q)
    /\ UNCHANGED <<prog, cache, z, saved, retired, translator>>

\* The opcode of the conditional jump is written before its target is known.
TranslateBcc ==
    /\ Decoding("bcc")
    /\ InPool(q)
    /\ mem' = [mem EXCEPT ![q[1]][q[2]] = Broken]
    /\ phase' = "taken"
    /\ faults' = faults \cup Spill(q)
    /\ UNCHANGED <<prog, cache, guest, translator>>

\* Mutant: the result of setup_tu() is not checked.
SetupTakenUnchecked ==
    /\ phase = "taken"
    /\ \E r \in Block \cup {NoBlock} : SetupTU(prog[p].to, r) /\ taken' = r
    /\ phase' = "fall"
    /\ UNCHANGED <<prog, guest, unit, p, q, fall, faults>>

SetupTaken ==
    /\ phase = "taken"
    /\ \E r \in Block \cup {NoBlock} :
          /\ SetupTU(prog[p].to, r)
          /\ \/ /\ r # NoBlock
                /\ taken' = r
                /\ phase' = "fall"
                /\ UNCHANGED <<gp, faults>>
             \/ /\ r = NoBlock
                /\ GiveUp
                /\ taken' = taken
    /\ UNCHANGED <<prog, z, saved, retired, unit, p, q, fall>>

SetupFall ==
    /\ phase = "fall"
    /\ \E r \in Block \cup {NoBlock} :
          /\ SetupTU(p + 1, r)
          /\ \/ /\ r # NoBlock
                /\ fall' = r
                /\ phase' = "link"
                /\ UNCHANGED <<gp, faults>>
             \/ /\ r = NoBlock
                /\ GiveUp
                /\ fall' = fall
    /\ UNCHANGED <<prog, z, saved, retired, unit, p, q, taken>>

\* Mutant: both jumps lead to the branch not taken.
LinkedJccToFall ==
    IF CellAt(q) = Broken THEN Jcc(p, prog[p].eq, fall) ELSE Broken

\* The opcode may have been wiped meanwhile: by the memset() of a unit that
\* was given the block this one has spilled into.
LinkedJcc ==
    IF CellAt(q) = Broken THEN Jcc(p, prog[p].eq, taken) ELSE Broken

LinkBcc ==
    /\ phase = "link"
    /\ InPool(After(q))
    /\ mem' = [mem EXCEPT ![q[1]][q[2]] = LinkedJcc,
                          ![After(q)[1]][After(q)[2]] = Jmp(fall),
                          ![map[unit]][0] = Skip]
    /\ faults' = faults \cup Spill(After(q))
    /\ ReturnToStub
    /\ UNCHANGED <<prog, cache, z, saved, retired, translator>>

\* The handler writes past the end of the mapped code memory.
TranslateCrash ==
    /\ \/ phase = "translate" /\ ~InPool(q) /\ prog[p].op # "bad"
       \/ phase = "link" /\ ~InPool(After(q))
    /\ phase' = "dead"
    /\ faults' = faults \cup {"spill"}
    /\ UNCHANGED <<prog, cache, mem, guest, translator>>

Translate ==
    \/ TranslatePlain \/ TranslateRts \/ TranslateBad \/ TranslateHalf
    \/ TranslateBcc \/ SetupTaken \/ SetupFall \/ LinkBcc \/ TranslateCrash

-----------------------------------------------------------------------------
\* The process has ended, by exit() or by a signal.
Ended ==
    /\ phase \in {"halt", "dead", "abort"}
    /\ UNCHANGED vars

Next == Boot \/ RunGuest \/ Translate \/ Ended

\* One thread runs boot, guest and translator alike; it always goes on.
Spec     == Init /\ [][Next]_vars
FairSpec == Spec /\ WF_vars(Boot \/ RunGuest \/ Translate)

-----------------------------------------------------------------------------
(* Properties                                                              *)

CacheType ==
    /\ map \in [Addr -> Block \cup {NoBlock}]
    /\ nextBlock \in 0 .. NBlocks
    /\ mem \in [Block -> [Index -> Cell]]
GuestType ==
    /\ gp \in (0 .. NBlocks) \X Index
    /\ z \in BOOLEAN
    /\ saved \in Seq(BOOLEAN)
    /\ retired \in Addr \cup {NoAddr}
TranslatorType ==
    /\ unit \in Addr
    /\ p \in Addr
    /\ q \in (0 .. NBlocks) \X Index
    /\ taken \in Block \cup {NoBlock}
    /\ fall \in Block \cup {NoBlock}
TypeOK ==
    /\ prog \in Programs
    /\ phase \in Phase
    /\ faults \subseteq Fault
    /\ CacheType /\ GuestType /\ TranslatorType

Translating == phase \in {"translate", "taken", "fall", "link"}

\* translate_tu() only runs for a unit in the cache, called from a block, and
\* a branch is linked only if there is a unit for each of its successors.
TranslatorOK ==
    /\ Translating => map[unit] # NoBlock /\ InPool(gp)
    /\ phase \in {"taken", "fall", "link"} => prog[p].op = "bcc"
    /\ phase \in {"fall", "link"} => taken # NoBlock
    /\ phase = "link" => fall # NoBlock

\* The cache never maps two source addresses to one block, nor any to a
\* block it has not handed out: two units would overwrite each other.
CacheSound ==
    /\ \A a \in Addr : map[a] # NoBlock => map[a] < nextBlock
    /\ \A a, b \in Addr : map[a] # NoBlock /\ map[a] = map[b] => a = b

\* A source address is never mapped to another block later on, although
\* tc_put_addr() would overwrite: jumps to the old block have been written.
CacheStable ==
    [][\A a \in Addr : map[a] # NoBlock => map'[a] = map[a]]_map

Finished(b) == mem[b][0] = Skip

\* Block b holds the first n instructions of the unit at a, none terminal;
\* and then the terminal one, a branch joined to the units of its successors.
HoldsBody(b, a, n) ==
    \A k \in 0 .. n - 1 :
        /\ prog[a + k] = Plain
        /\ mem[b][CodeStart + k] = Ins(a + k)
HoldsEnd(b, a, n) ==
    LET i == prog[a + n]
        c == CodeStart + n
    IN  \/ /\ i = Rts
           /\ c < BlockCells
           /\ mem[b][c] = Ret(a + n)
        \/ /\ i.op = "bcc"
           /\ c + 1 < BlockCells
           /\ map[i.to] # NoBlock /\ map[a + n + 1] # NoBlock
           /\ mem[b][c] = Jcc(a + n, i.eq, map[i.to])
           /\ mem[b][c + 1] = Jmp(map[a + n + 1])
HoldsUnit(b, a) ==
    \E n \in 0 .. NAddr - a : HoldsBody(b, a, n) /\ HoldsEnd(b, a, n)

\* Unless a unit has spilled, every block whose head is patched holds its
\* whole unit, whatever was rejected before: translate_tu() patches the head
\* only after a terminal instruction, and both jumps of a branch are linked.
FinishedUnitsComplete ==
    "spill" \notin faults =>
        \A a \in Addr :
            map[a] # NoBlock /\ Finished(map[a]) => HoldsUnit(map[a], a)

\* The parts of a block that its unit may not touch: the stub at its head, up
\* to the patch, and no trace of a stub among the translated code.
BlockOK(b, a) ==
    /\ mem[b][0] \in {Save, Skip}
    /\ mem[b][1] = Call(a)
    /\ mem[b][2] = Restore
    /\ \A i \in 3 .. CodeStart - 1 : mem[b][i] = Nop
    /\ \A i \in CodeStart .. BlockCells - 1 :
          mem[b][i].t \in {"nop", "ins", "ret", "jcc", "jmp", "broken"}

\* How far translate_tu() has come: what it has written is what it has read.
ProgressOK ==
    LET b == map[unit]
        n == p - unit
        c == CodeStart + n
    IN  /\ unit <= p
        /\ c <= BlockCells
        /\ mem[b][0] = Save
        /\ HoldsBody(b, unit, n)
        /\ q = IF c < BlockCells THEN <<b, c>> ELSE <<b + 1, 0>>
        /\ phase # "translate" => c < BlockCells /\ mem[b][c] = Broken
        /\ phase \in {"fall", "link"} => taken = map[prog[p].to]
        /\ phase = "link" => fall = map[p + 1]

\* Code memory is what the units have made of it, and a unit is translated
\* from an unfinished block, that is once.
CodeOK ==
    "spill" \notin faults =>
        /\ \A a \in Addr : map[a] # NoBlock => BlockOK(map[a], a)
        /\ \A b \in Block :
              (\A a \in Addr : map[a] # b) => mem[b] = [i \in Index |-> Zero]
        /\ Translating => ProgressOK

\* Where the guest may be while nothing has failed: behind the call only in a
\* finished block, in it no further than its terminal instruction, and with
\* one saved flag on the stack from the save to the restore of the stub.
Executing == phase = "run" \/ Translating
HeadOK ==
    "spill" \notin faults =>
        /\ Executing /\ InPool(gp) /\ gp[2] = 1 => ~Finished(gp[1])
        /\ Translating => gp = <<map[unit], 1>>
GuestOK ==
    faults = {} /\ Executing =>
        \E a \in Addr :
            /\ map[a] = gp[1]
            /\ Len(saved) = (IF gp[2] \in {1, 2} THEN 1 ELSE 0)
            /\ gp[2] >= 2 => Finished(gp[1])
            /\ gp[2] > CodeStart =>
                  \E n \in 0 .. NAddr - a :
                      /\ HoldsBody(gp[1], a, n) /\ HoldsEnd(gp[1], a, n)
                      /\ \/ gp[2] <= CodeStart + n
                         \/ gp[2] = CodeStart + n + 1 /\ prog[a + n].op = "bcc"

\* Unless a unit has spilled, a finished unit is never written again: not by
\* a second translation nor by the memset() of a new unit.
FinishedUnitsStay ==
    [][ "spill" \notin faults' =>
            \A b \in Block : Finished(b) => mem'[b] = mem[b] ]_mem

\* The guest is never killed unless a unit was rejected or has spilled.
CrashHasCause == phase = "dead" => faults # {}

\* translate_tu() always comes back to the stub, or dies, whatever it reads
\* and however short memory is.
TranslationReturns == Translating ~> ~Translating

\* The 680x0 state the guest's x86 state stands for: the address reached in
\* the unit whose block it is in, and the flag it will find restored.
SrcOf(b) == CHOOSE a \in Addr : map[a] = b
GuestPc ==
    IF phase \in {"boot", "abort"} THEN 0
    ELSE SrcOf(gp[1]) + (IF gp[2] <= CodeStart THEN 0 ELSE gp[2] - CodeStart)
GuestZ == IF saved = <<>> THEN z ELSE saved[Len(saved)]

Guest == INSTANCE M68k WITH pc <- GuestPc, z <- GuestZ,
                            running <- (phase # "halt")

\* With well-formed programs and enough memory the translated program is the
\* program: each instruction is executed in 680x0 order, branches follow the
\* guest's flag although translate_tu() runs in between, nothing is executed
\* twice or left out, and the program goes on until its RTS.
ProgramRuns == Guest!Spec

\* With any program and any shortage the same holds up to the first fault.
InOrderUntilFault ==
    [][faults' = {} => Guest!Next \/ UNCHANGED Guest!vars]_vars

\* The comment in setup_tu() has the call of translate_tu() be completely
\* transparent to the Amiga program: it goes on with the instruction that
\* follows the one executed last, whatever the call has come to.
Successors(a) ==
    CASE a = NoAddr             -> {0}
      [] prog[a].op = "plain"   -> {a + 1}
      [] prog[a].op = "bcc"     -> {prog[a].to, a + 1}
      [] OTHER                  -> {}
InProgramOrder == [][retired' \in Successors(retired)]_retired
=============================================================================
