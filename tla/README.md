# VADM in TLA+

VADM (`src/`) runs Amiga programs on x86-64 Linux by binary translation: it
loads a hunk file, translates the 680x0 code to x86 code *while it runs*, one
translation unit at a time, and executes the result in a child process.  This
directory holds TLA+ models of the program's core, the TLC runs that check them
on small instances, and TLAPS proofs for every program and every size.

## 1. Inventory of the system

Everything runs in one thread of one process, except that `exec_program()`
forks: the child executes the translated guest (and, through the stubs, the
translator), the parent only waits for it.

| Component | State | Operations | Used by / calls |
|---|---|---|---|
| main (`vadm.c`) | none | load, `tc_init`, first `setup_tu`, `exec_program` | calls all others in that order |
| loader (`loader.c`) | `hunk_addresses[]`, `hunk_num`, position in the file, the SIGSEGV handler | one case per block type: HEADER, CODE/DATA, BSS, RELOC32, SYMBOL, DEBUG, END | called by main; leaves code and data at 0x100000.. |
| translation cache (`tlcache.c`) | binary tree over the 21 low bits of a source address; pool of 64 blocks of 1 KB and its next free one | `tc_init`, `tc_get_code_block`, `tc_put_addr`, `tc_get_addr` | called by `setup_tu`, `translate_tu` |
| translation units (`translate.c`: `setup_tu`, `translate_tu`, `m68k_bcc`) | the code blocks; the lookup table built on first use | set up a stub; translate up to a terminal instruction; link a branch | `setup_tu` from main and `m68k_bcc`; `translate_tu` from the stubs, i.e. from the running guest |
| opcode decoding and handlers (`translate.c`) | lookup table of 65536 entries; input and output position | `init_opc_info_lookup_tbl`, `extract_operand`, one handler per instruction, one encoder per operand combination | called by `translate_tu` |
| code generation (`codegen.c`) | output position; register tables | `emit_*` | called by `setup_tu` and the thunks |
| thunks, jump tables (`execute.c`) | one 64 KB jump table per library | `emit_thunk_for_func`, `setup_jump_tables` | the guest calls through them by negative offset from A6 |
| library loading (`execute.c`, `libexec.c`) | static next base address, AbsExecBase | `load_library`, `exec_open_library`, `exec_close_library` (no-op) | `exec_program`, and the guest through OpenLibrary |
| supervisor (`execute.c`: `exec_program`) | child's pid and status | fork, wait, judge the status | called by main |
| DOS library (`libdos.c`) | none | `PutStr` | called by the guest |
| utilities (`util.c`) | none | logging | everybody |

The behaviours that are hard to get right or to test:

* `setup_tu()` is called in the middle of translating another unit, and
  `translate_tu()` in the middle of executing the guest.  Code is written into
  memory that is jumped to from elsewhere, and the head of a unit is patched
  while a return address still points behind it.
* Three resources run out: cells in a block (nothing checks), blocks in the
  pool, heap for tree nodes.  Each can fail between two halves of a branch.
* Nothing looks at the result of `translate_tu()`: a rejected unit is run.
* Uninitialized memory is read (root node of the tree, operands after a failed
  extraction), arithmetic wraps (loader), and table entries are missing.

`PROJECT.json` lists each of these at its line under "hazards", with the
property that watches it, or why none does.

## 2. Plan

Core first.  "Done" is what this directory has.

1. **GuestProgram, M68k, TransUnits** (done): units, stubs, guest; refinement of
   the 680x0; proofs, that well-formed programs have no fault included.
2. **AddressMap, TlCache** (done): the tree as a map; the refinement is proved.
3. **OpcodeDecode** (done): opcode table, `valid_ea_mode`, `extract_operand` with
   the stale operand, every handler up to the code it writes; proofs.
4. **Thunks** (done): stub and thunk as x86 instructions over registers and stack;
   proofs, for every function none of whose argument moves has a target that is a
   later move's source.
5. **Loader** (done): the block loop, blocks in any order; proofs.  To add: sizes
   and relocated sums in 32 bits.
6. **LibraryTables, Execution** (done): main, the supervisor and its child,
   `load_library()`, both jump tables and the calls through them, as one module,
   since the base addresses they hand each other are the point; proofs.
7. **Effects** (done): each translated instruction on registers, memory and flags,
   in step with the 680x0's; proofs.
8. After that: `Effects` inside the units of `TransUnits`, so that the guest's data
   and its path through the code are one refinement.

OpcodeDecode and Effects give GuestProgram's classes of instruction their
meaning: the first says which operands an instruction is translated with, the
second what it then does with them.  Execution has the process around
TransUnits: what TransUnits does between `boot` and `halt` or `dead` is the
guest that `runs` there, and each end of it is an action of Execution.  Thunks
opens a call of a function that is one step of Execution.

## 3. The modules

| Module | Models |
|---|---|
| `GuestProgram` | the guest's code as the translator tells it apart: plain, Bcc, RTS, a Bcc of another condition (`Half`), no handler or no operand for it (`Bad`) |
| `M68k` | abstract: the 680x0 executing that code in order |
| `TransUnits` | `setup_tu`, `translate_tu`, `m68k_bcc`, and the guest running what they write |
| `AddressMap` | abstract: a map from addresses to blocks, and a pool of blocks |
| `TlCache` | `tlcache.c`, one step per loop iteration |
| `OpcodeDecode` | one instruction in `translate_tu()`: lookup, operands, handler, x86 code |
| `Thunks` | the x86 code of a stub, and of a library call, emitted and executed |
| `Loader` | `load_program()`, one step per block, size and relocation |
| `LibraryTables` | the function tables of `libexec.c` and `libdos.c` |
| `Execution` | `main()`, `exec_program()` with parent and child, `load_library()`, the jump tables, the library functions |
| `Effects` | translated instructions next to the 680x0's: registers, flag, memory |
| `MCTransUnits`, `MCTlCache`, `MCOpcodeDecode`, `MCThunks`, `MCExecution` | the sets of programs, root nodes, opcodes, library functions and tables for TLC |
| `TransUnitsProofs` | proofs: types, translator control, cache; what code memory holds |
| `TransUnitsGuestProofs` | proofs: what the guest executes; no faults with enough memory |
| `TlCacheProofs` | proofs: shape of the tree, refinement of `AddressMap` |
| `OpcodeDecodeProofs` | proofs: one row per opcode, every handler's result and code |
| `LoaderProofs` | proofs: image, start address, SIGSEGV handler |
| `ExecutionProofs` | proofs: verdict, jump tables, AbsExecBase, where calls arrive |
| `EffectsProofs` | proofs: registers, memory and flags of the two machines |
| `ThunksProofs` | proofs: what the emitted code does to registers and stack |

### TransUnits

A code block is a sequence of *cells*.  A cell is one x86 instruction, or one of
the three parts of the stub (`save` is `emit_save_program_state()`, `call` the
move of the argument and the call, `restore` the counterpart of `save`).
`CodeStart` is `START_OF_TRANSLATED_CODE`.  Blocks are adjacent, as they are in
the mapping of `tc_init()`, so running or writing past one enters the next.
The conditional jump of a Bcc is one cell that `m68k_bcc()` writes in two goes,
its opcode before its target is known; in between it is `broken`.

| State | In the code |
|---|---|
| `map`, `nextBlock` | the cache: address to block; `p_next_code_block` |
| `mem` | the mapped code memory |
| `phase` | where the thread is: `boot` in main, `run` in guest code, `translate` in the loop of `translate_tu()`, `taken`, `fall`, `link` in `m68k_bcc()` before the first `setup_tu()`, before the second, and after both; `halt`, `dead`, `abort` are the ends of the process |
| `gp`, `z`, `saved` | the guest's instruction pointer, zero flag, and the flags pushed by stubs |
| `unit`, `p`, `q`, `taken`, `fall` | the locals of `translate_tu()` and `m68k_bcc()` |
| `retired`, `faults` | history: the last 680x0 instruction completed; whether a unit was rejected or has spilled |

There is one action per handler or per path of one.  `SetupTU(a, r)` is
`setup_tu(a)` with result `r`: found, pool empty, no node, new unit.  A step that
cannot proceed because memory ends is an action too (`TranslateCrash`,
`RunWild`).  `setup_tu()` and the tree walk inside are one step here; `TlCache`
opens the walk, and its `ImplementsMap` is why that is sound.  The one thing
`TlCache` adds, a crash in an uncleared root node, ends the process before the
guest starts and is left out here.

What is abstracted: data other than the zero flag; an instruction that is
translated may leave the flag either way, on both sides of the refinement, so
whether MOVE sets it is not a question this model asks.  Addresses are
instruction starts.  Calls of library functions are plain instructions.  The
stub's cells do not know registers.  A guest that has lost its stack or its code
memory is `dead` at once, while the real one may run on into whatever is there.

Integers are small and bounded by the constants, so no bound is needed in a
guard; the bounds of the state space are the constants of the configurations.
`StackDepth` bounds the guest's stack: a push beyond it kills the guest, as the
end of the stack does.

### TlCache

An address is its sequence of bits.  `child` is the tree, a slot being null, a
node, a block or `Garbage` (memory never initialized).  A call is `StartGet` or
`StartPut`, then one `Descend` or `PutNewNode` per bit, then its end; `malloc()`
may fail at any node, and must when `MaxNodes` exist.  A put is of the block just
handed out, as in `setup_tu()`.

### OpcodeDecode

The state is that of one pass of the loop of `translate_tu()`: `opcode`, the
handler found, the results of `extract_operand()` for source and destination
(`src`, `dst`, with the operand as the handler has it afterwards), further words
the handler has read, its result `nbytes`, and the code in `out`.  `LookUpHandler`
is the table lookup, `CheckSize`, `ExtractSource` and `ExtractDestination` the
common beginning of the handlers, and one `Write...` action per handler the rest
(`WriteDreg` is SUBQ and TST).  `Return(n)` is what `translate_tu()` makes of the
result.  A failed extraction leaves the operand as the stack has it: any type, and
a value that is either 6, which JSR asks for, or `Junk`, about which nothing is
known.

The comparison is with the 680x0's manual: how many extension words each address
mode has (`InstrWords`) and where each operand is (`Expected`), the registers
taken from `x86_reg_for_m68k_reg`, the table of the *other* module, by which
thunks find them.  `translate.c` has the swap of A4 and A7 on its own.  An x86
instruction is its operation and operands; its bytes are not spelled out.  A
handler may have written something before it returns -1: this is `Half` in
GuestProgram for Bcc and a `Bad` instruction with a harmless rest for others.

### Thunks

`Stub` and `Jsr(f)` are the sequences of x86 instructions that `setup_tu()` and,
for a call of library function `f`, `m68k_jsr()` and `emit_thunk_for_func()`
write, put together by one operator per `emit_` function.  (The relative jump of
the jump table in between changes nothing and is left out.)  The second half
executes them on registers and stack whose contents are tagged by where they come
from.  A C function leaves its result in RAX and changes any subset of the other
registers that the ABI lets it change.  Registers are 64 bits or their low half
in the code; the guest's values have 32, so the model does not tell.  The stack is
off a 16-byte boundary or not at the start.

### Loader

Actions are the cases of the switch, with `ReadSize` one pass of the size loop and
`ApplyReloc` one relocation; each rejection is a branch or an action of its own.
Each step chooses the next block, and `file` is history: the blocks, relocations and
ENDs read so far.  A dword of memory is the block and place it was copied from, and
the hunk addresses that have been added to it.  `Wanted` says from the file alone
what a dword should be; `ImageRight` compares.  Of a hunk's size only the outcome
of its check is modelled, as the code uses it for nothing else: a DATA or BSS block
may be larger than that and larger than the 64 KB of its hunk.  It is then copied
or cleared over the next hunk, as in the code, and so is a code block before its
size is checked; a relocation may be anywhere as well.  What reaches the end of the
hunk area is `BeyondArea`: nothing is mapped there, and the loader's own handler
ends the process (`segv`).  `odd` is where the model stops: an address in
`hunk_addresses[]` that was not stored (a block before the header, an END too many,
`first_hnum` above 0 without an END first), a relocation that is not on a dword's
boundary, a second header, or a truncation inside the last page, where zeroes are
read.  `last_hnum` keeps its value between two passes of the
loop, as it does in the unoptimised build of the Makefile.

A file without a code block is loaded as well, and `*code_address` stays unset:
`main()` then sets up a unit at a pointer that was never assigned.  `EntryIsCode`
has it as the case without code.

### Execution

| State | In the code |
|---|---|
| `main` | the next call of `main()` or `exec_program()`, or how the process ended |
| `entry` | whether `load_program()` has stored a start address: it succeeds without, for a file that has no code block |
| `root` | `gp_tlcache`: NULL, or a cache whose root node `malloc()` returned cleared or not |
| `guest`, `at` | the child: not there, running, its end; guest code or the C function it is in |
| `nextBase` | the static `p_lib_base` of `load_library()`, in slots of 64 KB |
| `mem` | the two tables in each slot: what each offset of the first one jumps to, the functions that the thunks of the second one call |
| `absExecBase` | the word at `ABS_EXEC_BASE` |
| `opened`, `asked` | history: the library opened at each base; the function the guest has called last and has not come back from |

`LoadProgram`, `InitCache`, `SetupFirstUnit`, `LoadExec`, `StoreExecBase`, `Fork`
and `Wait` are the calls in order, each with the ways it can fail.  The first
`setup_tu()` can kill the process: nothing looks at a null cache, the walk follows
what the root node happens to hold (the finding of `tlcache_uncleared`), and a
start address that was never set may have more than 32 bits, which the assertion
in `tc_put_addr()` (`tlcache.c:74`) refuses.  All other addresses that are put lie in
the hunk area or a branch's offset from it, which is why `TlCache` does without that
assertion.  `LoadLibrary`
is `load_library()` for both callers, with its three ends: no such library, no
memory, loaded.  A slot is `LIB_JUMP_TBL_SIZE`, and `AbsExecSlot` is the one that
begins at `ABS_EXEC_BASE`, so mapping tables there replaces that word by the code
of a thunk.  `fork()` copies the static base address and the tables; the parent
does not touch its copy any more, so there is one.  `Execute` is what is at an
entry of the first table: the interrupt, or the jump and its thunk.  Where the
table has no row there are zeroes, which are x86 instructions too: `RunZeroes`.
Names of libraries, and functions that do not exist, are left out.  `MaxSlot`
bounds the slots considered: a guest that wants one more stays in OpenLibrary().

### Effects

`m68k` and `x86` are the two machines, `m68kMem` and `x86Mem` their memories,
`whole` the addresses where both find the same long word, `setter` the
instruction that has set the 680x0's flags last.  There is one action per
combination of operands that a handler accepts.  A long word is two bytes, enough
to have an order, and long words overlap, as those of a 680x0 do at every other
address.  `Little` and `StoreLittle` are the x86 MOV, `Big` and `StoreBig` the
680x0's; `StoredExecBase` is the word that `exec_program()` stores as the host
does.  After a library call flags and result are anything.  When the 680x0 and
the translation are known to part, at `Gap`, the model ends: SUBQ with 0, and
reading a long word that the program has not written itself and whole.

## 4. Runs

| Run | Instance | Shows |
|---|---|---|
| `units_good` | all programs of 4 addresses and the memory behind whose last instruction is RTS and whose branches stay inside; 5 blocks of 9 cells | `ProgramRuns`: TransUnits refines `M68k`, with its fairness |
| `units_limits` | all code of 3 instructions; 3 blocks of 5 cells, 2 of them for code; `malloc()` may fail; stack of 2 | the invariants and action properties below |
| `units_reject` | all code of 3 instructions, enough of everything | finding: a rejected unit is not transparent |
| `tlcache` | 3 bits (the unit test's), 5 nodes of the 7 that all addresses need, 2 blocks, any root node | `ImplementsMap`, `TreeShape`, `CallsEnd` |
| `tlcache_uncleared` | the same with 6 nodes | finding: an absent address need not give NULL |
| `decode` | all 36864 opcodes of lines 0 to 8; extension words 0, 4, 0x4000, 0x8000, 0xfffe | `OneHandler`, `InStep`, `TranslatedRight`, `FailureReported` |
| `decode_errors` | the same | finding: a failed extraction is reported as success |
| `decode_four` | the same | finding: MOVE reads address 4 |
| `thunks` | the stub and the three functions that exist; any changed registers; both alignments | see below |
| `loader` | any file of up to 5 blocks of up to 3 dwords, 2 hunks of 2 dwords, 2 relocations | `ImageRight`, `EntryIsCode`, `HandlerInForce` |
| `execution` | the two libraries with all rows; 5 slots, AbsExecBase in the fourth; calls at every offset up to 1002 | see below |
| `effects` | bytes of 3 values, 3 bytes of memory with any contents, 2 data registers and A6, SUBQ with 0 and 1 | `DataAgrees`, `BranchRight` |

The bounds reach the interesting cases.  In `units_good` a branch can go
backwards, to itself, to its own successor and to a unit inside another one, and
two branches can share a target.  In `units_limits` one block is one short of
what the 3 instructions may need, so a unit spills into the next one, which may be
in the pool still, set up, finished, or the end of memory; the pool is one short
of the addresses; and each failure can come before, between and after the two
halves of a branch.  With 5 nodes a put can fail at both levels below the root and
be repeated.  In `decode`, lines 9 to 15 have no row in the table; the words lie on
both sides of the sign and include the address 4.  In `thunks` the code is finite
and the run is complete for the functions there are.  In `loader` a relocation can
refer to its own hunk, to the one before and to the one not read yet, and be undone
by a later block for the same hunk; a block can be empty, full, and full by the one
dword that code must leave free; with three dwords (`MaxBlockSize`) it is larger
than its hunk, so the first hunk's goes over the second one's place, before or after
the second one's own blocks, and the second hunk's goes beyond the area; hunks can
be numbered from 1.

In `execution` the guest can open two more libraries, or the same one again, with
room for both, a third over AbsExecBase and a fourth behind it, with `mmap()`
failing at any of them.  In `effects` two long words overlap, with bytes of three
values 8 is not 0, and SUBQ reaches every value of a register.

Properties of `OpcodeDecode`: no opcode has two rows to choose from; an accepted
instruction has read exactly its own extension words, so the next opcode is one;
it does what the 680x0 does with its operands, `KnownGap` apart; and which
handlers hide a failed extraction.  `KnownGap` is SUBQ with 0 (which means 8), a
short absolute address from 0x8000 on (sign-extended by the 680x0), and address 4
in MOVE.

Properties of `Thunks`: a stub restores every register and the flags; C functions
are called with an aligned stack; arguments arrive unchanged in C's order; after
the call D2-D7 and A2-A6 and the stack are as before and the result is in its
register; the RET finds its return address.

Properties of `Loader`: memory is what the blocks and relocations read so far call
for (`ImageRight`): each address has what the last block that covers it says, from
its own hunk or from the one before, with the relocations behind that block.  That a
block may go over the next hunk is what the code does; no comment says otherwise, so
it is a hazard and no finding.  The start address is that of the last code block
accepted (`EntryIsCode`), and the SIGSEGV handler is the loader's while it reads and
the previous one once the program is loaded (`HandlerInForce`); after a failed load
the loader's may stay.

Properties of `Execution`: a call of a listed function arrives there or at the
interrupt (`CallsArrive`); tables stay (`TablesStay`); AbsExecBase is right until
one library too many is opened (`ExecBaseRight`: three besides Exec here, sixteen
in the code); success means that the guest has returned, nobody is left running,
and the process is killed itself only before there is a guest and only where the
cache is missing, its root node was not cleared or the start address was never set
(`VerdictRight`); and the process ends if the guest does (`SupervisorEnds`).

Properties of `Effects`: registers, and long words in memory that the program has
written, agree (`DataAgrees`), and the flag agrees when it was set by SUBQ or TST
(`BranchRight`).  MOVE and MOVEQ are not among these: a BEQ right after one of
them reads an older flag.  Neither comment nor test says anything of this, so it
is no finding; the example program tests with TST or SUBQ before it branches.

Properties of `TransUnits`:

* `CacheSound`, `CacheStable`: no two units share a block, and a unit keeps its own.
* `CodeOK`: code memory is what the units have made of it; a unit in translation
  has written what it has read.
* `FinishedUnitsComplete`, `FinishedUnitsStay`: a unit whose head is patched is
  complete, with both jumps to the right units, and is never written again.
* `GuestOK`: the guest passes a stub's call into finished units only, and its
  stack is balanced.
* `CrashHasCause`: the guest is killed only after a unit was rejected or spilled.
* `InOrderUntilFault`: up to then every step is one of the 680x0 or none.
* `TranslatorOK`, `TypeOK`: control and types.
* `TranslationReturns`: `translate_tu()` comes back or dies.

### Fairness

`FairSpec` of `TransUnits` has weak fairness of "some step of main, guest or
translator".  There is one thread and none of its steps waits for anything, so it
always goes on; nothing is assumed about which branch a nondeterministic step
takes.  In `TlCache` weak fairness is on the steps of a call under way, not on
calls being made: a loop that has begun goes on.  `Execution` has weak fairness of the
steps of `main()`, the parent process, which the system schedules; `wait()`
returns when the child has ended.  Nothing is assumed of the guest.

### Findings

* `units_reject`.  `setup_tu()` says the call of `translate_tu()` "needs to be
  completely transparent to the Amiga program"; a TODO at line 639 notes that the
  return value is not checked.  The run's trace: the guest runs what was
  translated before the rejected instruction, falls through the NOPs of the block
  and into the stub of the next one, which translates and runs its unit.
* `tlcache_uncleared`.  `tc_get_addr()` promises NULL for an absent address, but
  the root node is not cleared and the walk follows what `malloc()` has left.

* `decode_errors`.  JSR replaces the -1 of a failed extraction by 2 and MOVE adds
  two results.  The comment on the handlers promises -1.  The trace: a JSR with a
  mode `extract_operand()` does not know becomes a call through A6, since the
  operand of an earlier JSR is still on the stack.
* `decode_four`.  Only MOVEA knows that AbsExecBase has moved; `vadm.h` says why
  address 4 cannot be used.

## 5. Proofs

Every theorem holds for all values of the constants that satisfy the module's
named assumptions, which TLC evaluates in the runs.  No theorem assumes fairness.
Each follows the same pattern: an inductive invariant that the initial states
satisfy and every action keeps, and which implies the property.

Most of the functions the models are built from are plain expressions.  Where one is
recursive (the walk down the tree) or picks the last of several, the proof goes by
the least or greatest number for which something holds, which exists by the
library's well-foundedness of the order on the naturals.

### TransUnits

Assumed: `NAddrAssumption`, `ProgramsAssumption` (a program ends in memory that
is no instruction, which the zeroed hunk area is), `SizeAssumption` (there is a
block, it has room for the stub of three cells and one more).  Neither well-formed
programs nor enough memory is assumed.

The invariant is built in three layers, each inductive relative to the one below.

1. `Inv` = `TypeOK`, `TranslatorOK`, `CacheSound`.  The cache must be sound for
   `setup_tu()` to keep it so (the new block is not yet mapped because mapped
   blocks are below `nextBlock`).
2. `CodeInv` = `Inv`, `CodeOK`, `HeadOK`, `FinishedUnitsComplete`.
   `FinishedUnitsComplete` alone is not inductive: at the patch one must know that
   everything before it was written (`ProgressOK` in `CodeOK`), that blocks do not
   share cells (`CacheSound`), and that translation starts in an unfinished block.
   The last is `HeadOK`: the guest is never at the call of a finished block, since
   it gets there from the save only, which the patch replaces.  `FinishedUnitsStay`
   and `CacheStable` follow step by step.
3. `GuestInv` = `CodeInv`, `GuestOK`, `CrashHasCause`, and the state before the
   start.  From `GuestOK` the lemmas `GuestPlace` and `UnitCell` list the cells the
   guest can be at, and `InstrCell` which instruction each stands for; `RunStep`
   and `TranslateStep` then show for every action that `M68k` takes the
   corresponding step or stutters.  The 680x0's program counter is the source
   address of the block the guest is in plus the distance from `CodeStart`; its
   flag is the one saved while a stub has it.

`Refinement` says that with no fault, `TransUnits` implements the initial states
and steps of `M68k`.  When there is none is a fourth layer, for the instance of
`units_good` at any size.  `WellFormedPrograms` have RTS as their last
instruction, no instruction that the translator rejects, and branches to
instructions of the program only.  `EnoughMemory` is a block for every
instruction, a block in which all of them fit behind the stub, and a `malloc()`
that does not fail.  `RoomInv` counts: as many blocks have been handed out as
there are source addresses with a unit, so one is left for an address without;
and a unit in translation is within the program, so it fits its block
(`NoFaults`).  It was checked with TLC before, on programs of 4 addresses with
exactly 4 blocks of 8 cells: the bounds are tight.  With `Refinement`, such a
program runs as on the 680x0 (`ProgramRunsSafely`).  That it gets on at all is
the liveness in `ProgramRuns`, which TLC checks.

Theorems: `TypeCorrect`, `CacheSoundCorrect`, `TranslatorOKCorrect`,
`FinishedUnitsCompleteCorrect`, `CodeOKCorrect`, `FinishedUnitsStayCorrect`,
`CacheStableCorrect`, `CrashHasCauseCorrect`, `GuestOKCorrect`,
`InOrderUntilFaultCorrect`, `Refinement`, `NoFaults`, `ProgramRunsSafely`.

### TlCache

Assumed: at least 2 bits, a root node, and that null, garbage and pointers differ
(`TlCacheAssumption`, `NullAssumption`).  `Walk` is the walk down the tree for an
address.  The lemmas about it say that steps along it agree with `Descend`, that
storing into a null slot changes only the walks that end in that slot
(`GrowWalk`, `StoreWalk`), and that two walks that meet in a node have come the same
way (`WalkUnique`), each by the least depth at which it could fail.  `TreeShape` is
inductive but not enough for the refinement.  The invariant adds that no slot points
to the root, that what is at full depth is not a node (`LevelInv`), that a call
under way stands where the walk for its address leads in the tree as it is now
(`CallInv`: no other call has come between), and that a block to be put has been
handed out (`BlockInv`).  Then a put changes the map at its own address and no
other, and a get finds what the map has.  Theorems: `TypeCorrect`,
`TreeShapeCorrect`, `CacheImplementsMap`.

### OpcodeDecode

Assumed: opcodes are opcodes, extension words are 16 bits wide, junk is no number
(`OpcodesAssumption`, `WordAssumption`, `JunkAssumption`).  `OneHandler` is a fact
about the table: any two rows name a bit field in which they differ, but for
those that the check of the address mode tells apart.  The
others need the whole history of an instruction: `PhaseInv` has what lookup and
extraction have established when a phase is reached, stale operands included, and
`ResultInv` what each handler returns and has written, one definition per handler
(`DoneBcc` and so on).  From these the properties follow case by case.  Theorems:
`TypeCorrect`, `OneHandlerCorrect`, `InStepCorrect`, `FailureReportedCorrect`,
`TranslatedRightCorrect`.

### Loader

Assumed: there are hunks, neither they nor the largest block are empty, null is no
number (`SizeAssumption`).  The invariant says that before the header nothing has
been stored anywhere, that after it every address in `hunk_addresses[]` is that of
its hunk's own place (`HeaderInv`), and that `hunk_num` is what the ENDs in the file
so far make it (`CountInv`).  `ImageRight` is not inductive without them: a block
copied to another hunk's place than the file says would break it.  Its step goes
address by address.  The block just copied or cleared is the last one for the
addresses it covers, its own hunk's or the next one's, with no relocation after it
(`WantedStored`); a relocation adds to the one address it names
(`WantedRelocated`); and everywhere else neither the last block nor its relocations
change (`WantedKept`).  `TypeCorrect` is about files as far as they are followed: the
code indexes `hunk_addresses[]` and memory unchecked, and the model stops before an
index whose address was not stored.
Theorems: `TypeCorrect`, `HandlerInForceCorrect`,
`EntryIsCodeCorrect`, `ImageRightCorrect`.

### Execution

Assumed: `SlotAssumption`; `LibraryAssumption`; of the function tables that they
are finite sequences with natural offsets (`TableAssumption`), and that a function
listed twice is listed in the same way (`RowsAssumption`), which holds for the
real ones: `libdos.c` has five offsets with several rows (0xe4, 0xf0, 0x1f2, 0x25e,
0x300), but no function behind any of them.  `VerdictRight`
needs that no guest is running before `fork()` or after `wait()` (`VerdictInv`).
`TablesStay` needs that the slots in use are those below the next one
(`Opened(n)`): then a new table is never mapped over an old one, and after a
failed `mmap()` none is mapped at all.  `ExecBaseRight` needs besides that Exec
is in the first slot and that nothing but the table of slot `AbsExecSlot` writes
to its page (`ExecAt(n)`).

`CallsArrive` has two halves.  For one table: `setup_jump_tables()` counts thunks
while it goes over the rows, so the number in a jump is the count of functions up to
its row; counts of different rows differ, since one set of rows contains the other,
so the thunk with that number is the row's own (`ThunkNumbers`, `ThunkCalls`,
`JumpLeads`).  For the memory: the tables behind every base that has been returned
are those of the library opened there (`PlacesInv`), and a base read from
AbsExecBase is the first one or none (`CallInv`): what is written over it when too
many libraries are open is code, which is no base.  Theorems: `TypeCorrect`,
`VerdictRightCorrect`, `TablesStayCorrect`, `ExecBaseRightCorrect`,
`CallsArriveCorrect`.

### Effects

Assumed: a byte has at least two values, memory two bytes, operands fit
(`SizeAssumption`, `OperandAssumption`).  The properties with the types are
inductive as they stand.  What there is to prove is arithmetic and memory: a long
word splits into two bytes and these make it again, in either order (`LongSplits`,
`Stores`), and a store leaves every long word alone that does not overlap its own,
which is why `whole` loses the two neighbours.  Theorems: `TypeCorrect`,
`DataAgreesCorrect`, `BranchRightCorrect`.

### Thunks

Assumed: a function has at most six arguments (`FunctionsAssumption`), and
`RowsAssumption`: no argument move has a target that a later move reads, no
argument is in A6 or A7, the result is in D0, D1, A0 or A1, and no function has
the name of the one that logs.  TLC evaluates it for the three functions there
are.  It is needed: with a row such as InitStruct's, `ArgumentsArrive` is
violated (see section 6), and a result elsewhere would be overwritten when the
registers are restored, or break the promise to keep them.

First, what stands where: the code is put together from sequences, and
`JoinedHolds` says where each part of a concatenation begins, so `StubCode` and
`JsrCode` give the instruction at every `pc`, for any number of arguments.  Then,
what one instruction does (`DoPush` and so on).  Then four segments, each for any
values on entry and any height of the stack: saving, restoring (`PushStep`,
`PopStep`), calling a C function (`CallStep`), and the argument moves (`MoveStep`:
those done are where they should be, those to come still have their values).  Stub
and thunk begin with the same frame of save, call and restore; `FrameStep` is
proved once and used for both, for the stub with the guest's registers, for the
thunk with those that the JSR has left and with A6 and the return address below.
The inductive invariant says in which segment the code is and how far.  Padding
and changed registers need no history: RBP has the position to which the stack is
cut back, and every register that a C function may change is either saved or one
of those the guest does not expect to be kept.  Theorems: `TypeCorrect`,
`CalledAlignedCorrect`, `ArgumentsArriveCorrect`, `StubTransparentCorrect`,
`CallKeepsRegistersCorrect`, `ReturnsToCallerCorrect`.

### Only model-checked

What has liveness in it: the fairness in `ProgramRuns`, `TranslationReturns`,
`CallsEnd`, `SupervisorEnds`.  TLAPS does not prove liveness under fairness.  The
findings are counterexamples that TLC gives.

## 6. Not modelled

* Bytes of encodings, and the size of the stub (the comment in `setup_tu()`
  counts 56).
* Source addresses above 21 bits; addresses of 16 bits from 0x8000 on, which
  `OpcodeDecode` names and leaves out.
* Loader: files are followed up to the first use of an address that was not
  stored, a relocation off a dword's boundary or a second header; sizes and
  relocated sums do not wrap; the RTS that a comment announces but the code does not
  append is no property.
* Library functions read and write the guest's memory (PutStr a string, which has
  no byte order); structures shared with the guest do not occur yet.  Rows without
  a function have no thunk, so no property is about them.  When they get one, eight
  of them break `RowsAssumption`: the thunks of InitStruct, MakeLibrary, AddTask,
  OpenDevice, RawDoFmt and AddMemList (`libexec.c`), DoPkt4 and InternalLoadSeg
  (`libdos.c`) would overwrite an argument before it is moved; DoPkt has seven
  arguments.
* Names of libraries: their length, the extension that is cut off.
* `execution` leaves an unlisted offset to fault or to run on; nothing says what
  it should do.
* `util.c` logs, `libdos.c` prints: output without state.  `loop.s` and the make
  files are not part of the program.
