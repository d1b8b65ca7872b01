------------------------------ MODULE Execution ------------------------------
(***************************************************************************)
(* main() and exec_program() with its two processes, load_library() and the *)
(* jump tables, and the calls of library functions the guest makes.         *)
(*                                                                         *)
(* Memory from LIB_BASE_START_ADDRESS on is divided into slots of           *)
(* LIB_JUMP_TBL_SIZE.  A base address, which is the end of a slot, is the   *)
(* number of the slot behind.  The parent's copy of the memory is of no use *)
(* after fork(); there is one copy here.                                    *)
(***************************************************************************)
EXTENDS Integers, Sequences, FiniteSets

CONSTANTS Libraries,       \* the libraries there are
          Table,           \* g_func_info_tbl of each
          Exec,            \* the Exec library
          NotImplemented,  \* instead of a function, in a row
          AbsExecSlot,     \* slot that begins at ABS_EXEC_BASE, 16 in the code
          MaxSlot,         \* last slot considered
          MaxOffset,       \* largest offset the guest calls
          Null

ASSUME SlotAssumption == AbsExecSlot \in Nat \ {0} /\ MaxSlot \in Nat
ASSUME LibraryAssumption == Exec \in Libraries /\ Null \notin Libraries
ASSUME TableAssumption ==
    \A l \in Libraries :
        /\ Len(Table[l]) \in Nat /\ DOMAIN Table[l] = 1 .. Len(Table[l])
        /\ \A i \in DOMAIN Table[l] :
              Table[l][i].offset \in Nat /\ Table[l][i].offset % 6 = 0
\* A function is listed once, or each time in the same way.
ASSUME RowsAssumption ==
    \A l \in Libraries : \A i, j \in DOMAIN Table[l] :
        Table[l][i].offset = Table[l][j].offset => Table[l][i].func = Table[l][j].func

Slot   == 0 .. MaxSlot
Base   == 1 .. MaxSlot + 1
Failed == -1                    \* MAP_FAILED
Code   == -2                    \* code of a thunk, read as an address

VARIABLES main,         \* where main() is, or how the process has ended
          entry,        \* whether load_program() has stored a start address
          root,         \* slots of the cache's root node, Null with no cache
          guest,        \* the child: not forked, running, or how it has ended
          at,           \* what runs in it: guest code or a library function
          nextBase,     \* p_lib_base in load_library()
          mem,          \* jump tables and thunks in each slot
          absExecBase,  \* the word at ABS_EXEC_BASE
          opened,       \* history: library opened at each base returned
          asked         \* history: library and offset of the call under way

begin  == <<entry, root>>
memory == <<nextBase, mem, absExecBase, opened>>
vars   == <<main, begin, guest, at, memory, asked>>

Init ==
    /\ main = "load" /\ entry = FALSE /\ root = Null
    /\ guest = "none" /\ at = "guest"
    /\ nextBase = 0
    /\ mem = [s \in Slot |-> Null]
    /\ absExecBase = Null
    /\ opened = <<>>
    /\ asked = Null

-----------------------------------------------------------------------------
(* Jump tables                                                             *)

Offsets(rows)     == {rows[i].offset : i \in DOMAIN rows}
Implemented(rows) == {i \in DOMAIN rows : rows[i].func # NotImplemented}

\* Mutant: the place of the next thunk is not moved on.
ThunkNumberFixed(rows, i) == 1

\* The number of the thunk for row i.
ThunkNumber(rows, i) == Cardinality({j \in Implemented(rows) : j <= i})

\* What is at each offset, of several rows for one offset by the last: INT 3,
\* or a jump to a thunk.
Int3 == 0
JumpTable(rows) ==
    [o \in Offsets(rows) |->
        LET i == CHOOSE j \in DOMAIN rows :
                     /\ rows[j].offset = o
                     /\ \A k \in DOMAIN rows : rows[k].offset = o => k <= j
        IN  IF i \in Implemented(rows) THEN ThunkNumber(rows, i) ELSE Int3]

\* The functions that the thunks call, in the order of the thunks.
ThunkTable(rows) ==
    [k \in {ThunkNumber(rows, i) : i \in Implemented(rows)} |->
        rows[CHOOSE i \in Implemented(rows) : ThunkNumber(rows, i) = k].func]

SetupJumpTables ==
    [lib \in Libraries |-> [jumps  |-> JumpTable(Table[lib]),
                            thunks |-> ThunkTable(Table[lib])]]

\* Mutant: the place for the next library is not moved on.
AdvanceNot == nextBase
Advance    == nextBase + 1

\* Mutant: the base address is the start of the tables.
BaseOfStart(slot) == slot
BaseOf(slot)      == slot + 1

\* Mutant: after a failed mmap() the next library starts from the beginning.
AfterFailureAnew == 0
AfterFailure     == Failed

\* load_library() of a file that is a library, or of another or none (Null),
\* with its result.  A failed mmap() leaves MAP_FAILED to start from.
LoadLibrary(file, result) ==
    \/ /\ file = Null
       /\ result = Null
       /\ UNCHANGED memory
    \/ /\ file # Null
       /\ result = Null
       /\ nextBase' = AfterFailure
       /\ UNCHANGED <<mem, absExecBase, opened>>
    \/ /\ file # Null /\ nextBase \in Slot
       /\ result = BaseOf(nextBase)
       /\ mem' = [mem EXCEPT ![nextBase] = SetupJumpTables[file]]
       /\ absExecBase' = IF nextBase = AbsExecSlot THEN Code ELSE absExecBase
       /\ nextBase' = Advance
       /\ opened' = [b \in DOMAIN opened \cup {result} |->
                        IF b = result THEN file ELSE opened[b]]

-----------------------------------------------------------------------------
(* main() and exec_program()                                               *)

MainOnly == UNCHANGED <<guest, at, asked>>

\* load_program() returns false, its signal handler exits, or it succeeds: also
\* for a file without a code block, which leaves p_m68k_code_addr unset (Loader).
LoadProgram ==
    /\ main = "load"
    /\ main' \in {"cache", "exit 1"}
    /\ entry' \in BOOLEAN
    /\ MainOnly /\ UNCHANGED <<root, memory>>

\* tc_init(): a failure is logged, and nothing else.  The root node is not
\* cleared (TlCache).
InitCache ==
    /\ main = "cache"
    /\ root' \in {Null, "cleared", "uncleared"}
    /\ main' = "unit"
    /\ MainOnly /\ UNCHANGED <<entry, memory>>

\* setup_tu() of the start address.  tc_get_addr() follows gp_tlcache, and then
\* what the root node happens to hold: a signal, or a wrong result.  It takes the
\* low bits of any address, but tc_put_addr() asserts that it has no more than
\* 32, which an unset one may have.
SetupFirstUnit ==
    /\ main = "unit"
    /\ \/ root # Null /\ main' \in {"library", "exit 1"}
       \/ (root # "cleared" \/ ~entry) /\ main' = "killed"
    /\ MainOnly /\ UNCHANGED <<begin, memory>>

LoadExec ==
    /\ main = "library"
    /\ \E file \in {Exec, Null}, result \in Base \cup {0, Null} :
          /\ LoadLibrary(file, result)
          /\ main' = IF result = Null THEN "exit 1" ELSE "base"
    /\ MainOnly /\ UNCHANGED begin

StoreExecBase ==
    /\ main = "base"
    /\ \/ main' = "exit 1" /\ absExecBase' = absExecBase
       \/ main' = "fork" /\ absExecBase' \in DOMAIN opened
    /\ MainOnly /\ UNCHANGED <<begin, nextBase, mem, opened>>

Fork ==
    /\ main = "fork"
    /\ \/ main' = "exit 1" /\ guest' = guest
       \/ main' = "wait" /\ guest' = "runs"
    /\ UNCHANGED <<begin, at, memory, asked>>

GuestEnd == {"returned", "trapped", "killed"}

\* Mutant: a signal is not told from an exit.
WaitForAnyEnd ==
    /\ main = "wait" /\ guest \in GuestEnd
    /\ main' = "exit 0"
    /\ MainOnly /\ UNCHANGED <<begin, memory>>

\* Mutant: a signal other than SIGTRAP is waited through.
WaitForTrapOrExit ==
    /\ main = "wait" /\ guest \in GuestEnd
    /\ main' = CASE guest = "returned" -> "exit 0"
                 [] guest = "trapped"  -> "exit 1"
                 [] guest = "killed"   -> "wait"
    /\ MainOnly /\ UNCHANGED <<begin, memory>>

\* wait() returns when the child has ended, by exit(0) or by a signal.
Wait ==
    /\ main = "wait" /\ guest \in GuestEnd
    /\ main' = IF guest = "returned" THEN "exit 0" ELSE "exit 1"
    /\ MainOnly /\ UNCHANGED <<begin, memory>>

Main == LoadProgram \/ InitCache \/ SetupFirstUnit \/ LoadExec
        \/ StoreExecBase \/ Fork \/ Wait

-----------------------------------------------------------------------------
(* The guest                                                               *)

InGuest == guest = "runs" /\ at = "guest"

\* exec_program() calls exit(0) behind the guest's last RTS.
GuestReturns ==
    /\ InGuest
    /\ guest' = "returned"
    /\ UNCHANGED <<main, begin, at, memory, asked>>

\* Anything else that ends the child, in its code (as in TransUnits) or in a
\* library function that it has given a bad address.
GuestKilled ==
    /\ guest = "runs"
    /\ guest' = "killed"
    /\ UNCHANGED <<main, begin, at, memory, asked>>

\* Executing INT 3, or the jump and the thunk for a function.
Execute(slot, jump) ==
    \/ jump = Int3 /\ guest' = "trapped" /\ at' = at
    \/ jump # Int3 /\ at' = mem[slot].thunks[jump] /\ guest' = guest

\* Where no row is, there are zeroes: each pair of them is an instruction that
\* writes to where A0 points.  It faults, or is passed until the next entry in
\* memory, which is the first thunk of the next library behind the last one.
RunZeroes(slot, offset) ==
    LET behind == {o \in DOMAIN mem[slot].jumps : o < offset}
    IN  \/ guest' = "killed" /\ at' = at
        \/ /\ behind # {}
           /\ Execute(slot, mem[slot].jumps[CHOOSE o \in behind :
                                                \A p \in behind : p <= o])
        \/ /\ behind = {} /\ slot + 1 \in Slot
           /\ mem[slot + 1] # Null /\ 1 \in DOMAIN mem[slot + 1].thunks
           /\ at' = mem[slot + 1].thunks[1] /\ guest' = guest

\* JSR -offset(A6) with a base that OpenLibrary() has returned.
CallLibrary ==
    /\ InGuest
    /\ \E b \in DOMAIN opened, offset \in {o \in 6 .. MaxOffset : o % 6 = 0} :
          /\ asked' = [lib |-> opened[b], offset |-> offset]
          /\ IF offset \in DOMAIN mem[b - 1].jumps
             THEN Execute(b - 1, mem[b - 1].jumps[offset])
             ELSE RunZeroes(b - 1, offset)
    /\ UNCHANGED <<main, begin, memory>>

\* The same with what is at ABS_EXEC_BASE.
CallExec ==
    /\ InGuest
    /\ absExecBase \in Base
    /\ \E offset \in Offsets(Table[Exec]) :
          /\ asked' = [lib |-> Exec, offset |-> offset]
          /\ Execute(absExecBase - 1, mem[absExecBase - 1].jumps[offset])
    /\ UNCHANGED <<main, begin, memory>>

\* The same with the NULL of a failed OpenLibrary(), or with what is at
\* ABS_EXEC_BASE when that is no base: a call of an address where nothing is.
CallNowhere ==
    /\ InGuest
    /\ asked' = [lib |-> Null, offset |-> 6]
    /\ guest' = "killed"
    /\ UNCHANGED <<main, begin, at, memory>>

Return == at' = "guest" /\ asked' = Null /\ UNCHANGED <<main, begin, guest>>

\* Which file a name stands for is left to the choice of the file: none if the
\* name is too long.  The version is not looked at.
ExecOpenLibrary ==
    /\ guest = "runs" /\ at = "exec_open_library"
    /\ nextBase <= MaxSlot
    /\ \E file \in Libraries \cup {Null}, result \in Base \cup {0, Null} :
          LoadLibrary(file, result)
    /\ Return

\* CloseLibrary() and PutStr() change nothing here.
ExecOther ==
    /\ guest = "runs" /\ at \in {"exec_close_library", "dos_put_str"}
    /\ UNCHANGED memory
    /\ Return

Guest == GuestReturns \/ GuestKilled \/ CallLibrary \/ CallExec \/ CallNowhere
         \/ ExecOpenLibrary \/ ExecOther

\* main() has ended, or the guest wants one slot more than are considered.
Ended ==
    /\ \/ main \in {"exit 0", "exit 1", "killed"}
       \/ at = "exec_open_library" /\ nextBase > MaxSlot
    /\ UNCHANGED vars

Next == Main \/ Guest \/ Ended

\* main() never stops by itself; wait() returns when the child has ended.
Spec == Init /\ [][Next]_vars /\ WF_vars(Main)

-----------------------------------------------------------------------------
(* Properties                                                              *)

Finished == {"exit 0", "exit 1", "killed"}

TypeOK ==
    /\ main \in Finished \cup {"load", "cache", "unit", "library", "base", "fork",
                             "wait"}
    /\ entry \in BOOLEAN /\ root \in {Null, "cleared", "uncleared"}
    /\ guest \in GuestEnd \cup {"none", "runs"}
    /\ at = "guest" \/ \E l \in Libraries : \E k \in DOMAIN SetupJumpTables[l].thunks :
                         at = SetupJumpTables[l].thunks[k]
    /\ nextBase \in Slot \cup {Failed, MaxSlot + 1}
    /\ \A s \in Slot : mem[s] = Null
                     \/ \E l \in Libraries : mem[s] = SetupJumpTables[l]
    /\ absExecBase \in Base \cup {Null, Code}
    /\ DOMAIN opened \subseteq Base
    /\ asked # Null => asked.lib \in Libraries \cup {Null}

\* Tables that have been mapped are never written or replaced, whatever is
\* opened or fails to be opened later, for guests go on using their bases.
TablesStay ==
    [][\A s \in Slot : mem[s] # Null => mem'[s] = mem[s]]_vars

\* The comment in setup_jump_tables(): a call of a function that the library
\* implements arrives there, through the first table and the second, and a
\* call of any other listed one is an interrupt that ends the guest.
CallsArrive ==
    asked # Null =>
        \A i \in IF asked.lib = Null THEN {} ELSE DOMAIN Table[asked.lib] :
            Table[asked.lib][i].offset = asked.offset =>
                IF Table[asked.lib][i].func = NotImplemented
                THEN guest = "trapped" /\ at = "guest"
                ELSE guest # "trapped" /\ at = Table[asked.lib][i].func

\* As long as no more libraries have been opened than fit below the page of
\* AbsExecBase, a guest finds the base of Exec there, with Exec's functions.
ExecBaseRight ==
    main \in {"fork", "wait"} /\ Cardinality(DOMAIN opened) <= AbsExecSlot =>
        /\ absExecBase \in Base
        /\ mem[absExecBase - 1] = SetupJumpTables[Exec]

\* The process exits with success if and only if the guest has returned, fails
\* for every signal, and does not leave a guest behind.  It dies itself before
\* there is a guest only, in setup_tu(): of a cache that is missing, of a root
\* node that is not cleared, or of a start address that the file has not given.
VerdictRight ==
    /\ main = "exit 0" => guest = "returned"
    /\ main = "exit 1" => guest \in {"none", "trapped", "killed"}
    /\ main = "killed" => guest = "none" /\ ~ (entry /\ root = "cleared")

\* However the guest ends, the process ends, unless the guest runs for ever.
SupervisorEnds == <>(main \in Finished) \/ <>[](guest = "runs")
=============================================================================
