--------------------------- MODULE ExecutionProofs ---------------------------
(***************************************************************************)
(* Proofs about Execution, for all libraries and function tables, any place *)
(* of AbsExecBase and any number of slots.                                  *)
(***************************************************************************)
EXTENDS Execution, FiniteSetTheorems, WellFoundedInduction, TLAPS

Starting == {"load", "cache", "unit", "library", "base", "fork"}

\* VerdictRight is not inductive: no guest may be running when the process ends.
VerdictInv ==
    /\ main \in Starting \cup {"wait"} \cup Finished
    /\ main \in Starting => guest = "none"
    /\ main = "wait" => guest \in {"runs"} \cup GuestEnd
    /\ VerdictRight

\* A step of the guest's, as far as main() is concerned.
LEMMA GuestLeavesMain ==
    ASSUME Guest
    PROVE  /\ guest = "runs" /\ UNCHANGED <<main, begin>>
           /\ guest' \in {"runs"} \cup GuestEnd
  <1>1. CASE GuestReturns
    BY <1>1 DEF GuestReturns, InGuest, GuestEnd
  <1>2. CASE GuestKilled
    BY <1>2 DEF GuestKilled, GuestEnd
  <1>3. CASE CallLibrary
    <2>1. guest = "runs" /\ UNCHANGED <<main, begin>>
      BY <1>3 DEF CallLibrary, InGuest
    <2>2. PICK b \in DOMAIN opened, offset \in {o \in 6 .. MaxOffset : o % 6 = 0} :
              IF offset \in DOMAIN mem[b - 1].jumps
              THEN Execute(b - 1, mem[b - 1].jumps[offset])
              ELSE RunZeroes(b - 1, offset)
      BY <1>3 DEF CallLibrary
    <2>3. \A s, j : Execute(s, j) => guest' \in {"trapped", "runs"}
      BY <2>1 DEF Execute
    <2>4. CASE RunZeroes(b - 1, offset)
      BY <2>1, <2>3, <2>4 DEF RunZeroes, GuestEnd
    <2>. QED  BY <2>1, <2>2, <2>3, <2>4 DEF GuestEnd
  <1>4. CASE CallExec
    BY <1>4 DEF CallExec, InGuest, Execute, GuestEnd
  <1>5. CASE CallNowhere
    BY <1>5 DEF CallNowhere, InGuest, GuestEnd
  <1>6. CASE ExecOpenLibrary
    BY <1>6 DEF ExecOpenLibrary, Return
  <1>7. CASE ExecOther
    BY <1>7 DEF ExecOther, Return
  <1>. QED  BY <1>1, <1>2, <1>3, <1>4, <1>5, <1>6, <1>7 DEF Guest

LEMMA VerdictInit == Init => VerdictInv
  BY DEF Init, VerdictInv, VerdictRight, Starting, Finished

LEMMA VerdictStep == VerdictInv /\ [Next]_vars => VerdictInv'
  <1>. SUFFICES ASSUME VerdictInv, [Next]_vars PROVE VerdictInv'
    OBVIOUS
  <1>. USE DEF VerdictInv, VerdictRight, Starting, Finished, begin
  <1>1. CASE LoadProgram
    BY <1>1 DEF LoadProgram, MainOnly
  <1>2. CASE InitCache
    BY <1>2 DEF InitCache, MainOnly
  <1>3. CASE SetupFirstUnit
    BY <1>3 DEF SetupFirstUnit, MainOnly
  <1>4. CASE LoadExec
    BY <1>4 DEF LoadExec, MainOnly
  <1>5. CASE StoreExecBase
    BY <1>5 DEF StoreExecBase, MainOnly
  <1>6. CASE Fork
    BY <1>6 DEF Fork
  <1>7. CASE Wait
    BY <1>7 DEF Wait, MainOnly, GuestEnd
  <1>8. CASE Guest
    BY <1>8, GuestLeavesMain DEF GuestEnd
  <1>9. CASE UNCHANGED vars
    BY <1>9 DEF vars
  <1>. QED  BY <1>1, <1>2, <1>3, <1>4, <1>5, <1>6, <1>7, <1>8, <1>9 DEF Next, Main, Ended

\* The process exits with success if and only if the guest has returned, never
\* leaves a guest behind, however main(), mmap() and fork() fail, and is killed
\* itself in setup_tu() only, with no cleared root node or no start address.
THEOREM VerdictRightCorrect == Spec => []VerdictRight
  <1>1. VerdictInv => VerdictRight
    BY DEF VerdictInv
  <1>. QED  BY <1>1, VerdictInit, VerdictStep, PTL DEF Spec

-----------------------------------------------------------------------------
(* The jump tables                                                         *)

\* n libraries have been opened, in the first n slots; the next one goes behind
\* them, or nowhere.
Opened(n) ==
    /\ n \in Nat /\ n <= MaxSlot + 1
    /\ DOMAIN opened = 1 .. n
    /\ nextBase = n \/ nextBase = Failed
    /\ \A s \in Slot : mem[s] # Null => s < n

\* With n libraries open, AbsExecBase holds Exec's base as long as the tables
\* have not reached it.
ExecAt(n) ==
    /\ main \in {"load", "cache", "unit", "library"} => n = 0
    /\ main = "base" => n = 1
    /\ main \in {"fork", "wait"} => n > 0 /\ (n <= AbsExecSlot => absExecBase = 1)
    /\ n > 0 => mem[0] = SetupJumpTables[Exec]

TablesInv ==
    /\ DOMAIN mem = Slot
    /\ main = "wait" \/ guest # "runs"
    /\ \E n \in Nat : Opened(n) /\ ExecAt(n)

LEMMA TablesInit == Init => TablesInv
  <1>. SUFFICES ASSUME Init PROVE TablesInv
    OBVIOUS
  <1>. USE DEF Init
  <1>1. DOMAIN opened = 1 .. 0
    OBVIOUS
  <1>2. Opened(0)
    BY <1>1, SlotAssumption DEF Opened, Slot
  <1>3. ExecAt(0)
    BY DEF ExecAt
  <1>. QED  BY <1>2, <1>3 DEF TablesInv

\* What load_library() does to the tables, with the first of them Exec's.
LEMMA LoadLibraryStep ==
    ASSUME NEW n \in Nat, Opened(n), DOMAIN mem = Slot,
           NEW file, NEW result, LoadLibrary(file, result)
    PROVE  /\ DOMAIN mem' = Slot
           /\ \A s \in Slot : s # n \/ mem[s] # Null => mem'[s] = mem[s]
           /\ \/ Opened(n)' /\ UNCHANGED <<mem, absExecBase>> /\ result = Null
              \/ /\ Opened(n + 1)' /\ file # Null /\ n \in Slot
                 /\ mem'[n] = SetupJumpTables[file]
                 /\ n # AbsExecSlot => absExecBase' = absExecBase
  <1>. USE SlotAssumption
  <1>1. CASE file = Null /\ UNCHANGED memory /\ result = Null
    BY <1>1 DEF memory, Opened
  <1>2. CASE /\ result = Null /\ nextBase' = AfterFailure
             /\ UNCHANGED <<mem, absExecBase, opened>>
    BY <1>2 DEF Opened, AfterFailure
  <1>3. CASE /\ file # Null /\ nextBase \in Slot
             /\ result = BaseOf(nextBase)
             /\ mem' = [mem EXCEPT ![nextBase] = SetupJumpTables[file]]
             /\ absExecBase' = IF nextBase = AbsExecSlot THEN Code ELSE absExecBase
             /\ nextBase' = Advance
             /\ opened' = [b \in DOMAIN opened \cup {result} |->
                              IF b = result THEN file ELSE opened[b]]
    <2>1. nextBase = n /\ n \in Slot /\ result = n + 1
      BY <1>3 DEF Opened, Slot, Failed, BaseOf
    <2>2. /\ DOMAIN mem' = Slot
          /\ mem'[n] = SetupJumpTables[file]
          /\ \A s \in Slot : s # n => mem'[s] = mem[s]
      BY <1>3, <2>1
    <2>3. DOMAIN opened' = 1 .. n + 1
      BY <1>3, <2>1 DEF Opened
    <2>4. nextBase' = n + 1
      BY <1>3, <2>1 DEF Advance
    <2>5. \A s \in Slot : mem'[s] # Null => s < n + 1
      BY <2>2 DEF Opened, Slot
    <2>6. Opened(n + 1)'
      BY <2>1, <2>3, <2>4, <2>5 DEF Opened, Slot
    <2>7. \A s \in Slot : s # n \/ mem[s] # Null => mem'[s] = mem[s]
      BY <2>2 DEF Opened, Slot
    <2>. QED  BY <1>3, <2>1, <2>2, <2>6, <2>7
  <1>. QED  BY <1>1, <1>2, <1>3 DEF LoadLibrary

LEMMA TablesStep ==
    TablesInv /\ [Next]_vars =>
        TablesInv' /\ \A s \in Slot : mem[s] # Null => mem'[s] = mem[s]
  <1>. SUFFICES ASSUME TablesInv, [Next]_vars
                PROVE  TablesInv' /\ \A s \in Slot : mem[s] # Null => mem'[s] = mem[s]
    OBVIOUS
  <1>. USE SlotAssumption
  <1>. PICK n \in Nat : Opened(n) /\ ExecAt(n)
    BY DEF TablesInv
  <1>a. DOMAIN mem = Slot /\ (main = "wait" \/ guest # "runs")
    BY DEF TablesInv
  \* A step that leaves memory alone and does not get to "base" or "fork".
  <1>b. ASSUME UNCHANGED memory,
               main' = "wait" \/ guest' # "runs",
               \/ main' = main
               \/ main \in {"load", "cache", "unit"} /\ main' \in {"cache", "unit", "library"}
               \/ main = "fork" /\ main' = "wait"
               \/ main' \in Finished
        PROVE  TablesInv' /\ \A s \in Slot : mem[s] # Null => mem'[s] = mem[s]
    <2>1. Opened(n)'
      BY <1>b DEF Opened, memory
    <2>2. ExecAt(n)'
      BY <1>b DEF ExecAt, memory, Finished
    <2>. QED  BY <1>a, <1>b, <2>1, <2>2 DEF TablesInv, memory
  <1>1. CASE LoadProgram
    BY <1>1, <1>a, <1>b DEF LoadProgram, MainOnly, Finished
  <1>2. CASE InitCache
    BY <1>2, <1>a, <1>b DEF InitCache, MainOnly
  <1>3. CASE SetupFirstUnit
    BY <1>3, <1>a, <1>b DEF SetupFirstUnit, MainOnly, Finished
  <1>4. CASE LoadExec
    <2>1. PICK file \in {Exec, Null}, result \in Base \cup {0, Null} :
              /\ LoadLibrary(file, result)
              /\ main' = IF result = Null THEN "exit 1" ELSE "base"
      BY <1>4 DEF LoadExec
    <2>2. main = "library" /\ n = 0 /\ guest' # "runs"
      BY <1>4, <1>a DEF LoadExec, MainOnly, ExecAt
    <2>3. /\ DOMAIN mem' = Slot
          /\ \A s \in Slot : s # n \/ mem[s] # Null => mem'[s] = mem[s]
          /\ \/ Opened(n)' /\ UNCHANGED <<mem, absExecBase>> /\ result = Null
             \/ /\ Opened(n + 1)' /\ file # Null /\ n \in Slot
                /\ mem'[n] = SetupJumpTables[file]
                /\ n # AbsExecSlot => absExecBase' = absExecBase
      BY <1>a, <2>1, LoadLibraryStep
    <2>4. CASE Opened(n)' /\ UNCHANGED <<mem, absExecBase>> /\ result = Null
      <3>1. ExecAt(n)'
        BY <2>1, <2>2, <2>4 DEF ExecAt
      <3>. QED  BY <2>2, <2>3, <2>4, <3>1 DEF TablesInv
    <2>5. CASE Opened(n + 1)' /\ file # Null /\ mem'[n] = SetupJumpTables[file]
      <3>1. n + 1 = 1
        BY <2>2
      <3>2. file = Exec
        BY <2>5
      <3>3. mem'[0] = SetupJumpTables[Exec]
        BY <2>2, <2>5, <3>2
      <3>4. main' \in {"exit 1", "base"}
        BY <2>1
      <3>5. ExecAt(n + 1)'
        BY <3>1, <3>3, <3>4 DEF ExecAt
      <3>. QED  BY <2>2, <2>3, <2>5, <3>5 DEF TablesInv
    <2>. QED  BY <2>3, <2>4, <2>5
  <1>5. CASE StoreExecBase
    <2>1. /\ main = "base" /\ guest' # "runs"
          /\ UNCHANGED <<nextBase, mem, opened>>
          /\ \/ main' = "exit 1"
             \/ main' = "fork" /\ absExecBase' \in DOMAIN opened
      BY <1>5, <1>a DEF StoreExecBase, MainOnly
    <2>2. n = 1
      BY <2>1 DEF ExecAt
    <2>3. main' = "fork" => absExecBase' = 1
      BY <2>1, <2>2 DEF Opened
    <2>4. Opened(n)'
      BY <2>1 DEF Opened
    <2>5. ExecAt(n)'
      <3>1. main' \in {"exit 1", "fork"}
        BY <2>1
      <3>2. mem[0] = SetupJumpTables[Exec]
        BY <2>2 DEF ExecAt
      <3>3. mem'[0] = mem[0]
        BY <2>1
      <3>4. n > 0 /\ n # 0
        BY <2>2
      <3>5. main' \notin {"load", "cache", "unit", "library", "base", "wait"}
        BY <3>1
      <3>. QED  BY <2>2, <2>3, <3>2, <3>3, <3>4, <3>5 DEF ExecAt
    <2>. QED  BY <1>a, <2>1, <2>4, <2>5 DEF TablesInv
  <1>6. CASE Fork
    BY <1>6, <1>a, <1>b DEF Fork, Finished
  <1>7. CASE Wait
    BY <1>7, <1>a, <1>b DEF Wait, MainOnly, GuestEnd, Finished
  <1>8. CASE Guest
    <2>1. main = "wait" /\ main' = main
      BY <1>8, <1>a, GuestLeavesMain
    <2>2. CASE ExecOpenLibrary
      <3>1. PICK file \in Libraries \cup {Null}, result \in Base \cup {0, Null} :
                LoadLibrary(file, result)
        BY <2>2 DEF ExecOpenLibrary
      <3>2. /\ DOMAIN mem' = Slot
            /\ \A s \in Slot : s # n \/ mem[s] # Null => mem'[s] = mem[s]
            /\ \/ Opened(n)' /\ UNCHANGED <<mem, absExecBase>> /\ result = Null
               \/ /\ Opened(n + 1)' /\ file # Null /\ n \in Slot
                  /\ mem'[n] = SetupJumpTables[file]
                  /\ n # AbsExecSlot => absExecBase' = absExecBase
        BY <1>a, <3>1, LoadLibraryStep
      <3>3. CASE Opened(n)' /\ UNCHANGED <<mem, absExecBase>>
        <4>1. ExecAt(n)'
          BY <2>1, <3>3 DEF ExecAt
        <4>. QED  BY <2>1, <3>2, <3>3, <4>1 DEF TablesInv
      <3>4. CASE Opened(n + 1)' /\ (n # AbsExecSlot => absExecBase' = absExecBase)
        <4>1. n > 0 /\ mem[0] = SetupJumpTables[Exec]
          BY <2>1 DEF ExecAt
        <4>2. mem'[0] = mem[0]
          BY <3>2, <4>1 DEF Slot
        <4>3. ExecAt(n + 1)'
          BY <2>1, <3>4, <4>1, <4>2 DEF ExecAt
        <4>. QED  BY <2>1, <3>2, <3>4, <4>3 DEF TablesInv
      <3>. QED  BY <3>2, <3>3, <3>4
    <2>3. CASE UNCHANGED memory
      BY <2>1, <2>3, <1>b
    <2>. QED  BY <1>8, <2>2, <2>3 DEF Guest, GuestReturns, GuestKilled,
                CallLibrary, CallExec, CallNowhere, ExecOther
  <1>9. CASE UNCHANGED vars
    BY <1>9, <1>a, <1>b DEF vars
  <1>. QED  BY <1>1, <1>2, <1>3, <1>4, <1>5, <1>6, <1>7, <1>8, <1>9 DEF Next, Main, Ended

\* Tables that have been mapped stay, whatever is opened later and fails.
THEOREM TablesStayCorrect == Spec => TablesStay
  <1>1. TablesInv /\ [Next]_vars => [\A s \in Slot : mem[s] # Null => mem'[s] = mem[s]]_vars
    BY TablesStep
  <1>. QED  BY <1>1, TablesInit, TablesStep, PTL DEF Spec, TablesStay

\* A guest finds Exec's base at AbsExecBase until one library too many is opened.
THEOREM ExecBaseRightCorrect == Spec => []ExecBaseRight
  <1>1. TablesInv => ExecBaseRight
    <2>. SUFFICES ASSUME TablesInv, main \in {"fork", "wait"},
                         Cardinality(DOMAIN opened) <= AbsExecSlot
                  PROVE  /\ absExecBase \in Base
                         /\ mem[absExecBase - 1] = SetupJumpTables[Exec]
      BY DEF ExecBaseRight
    <2>1. PICK n \in Nat : Opened(n) /\ ExecAt(n)
      BY DEF TablesInv
    <2>2. Cardinality(1 .. n) = n
      BY FS_Interval
    <2>3. absExecBase = 1 /\ mem[0] = SetupJumpTables[Exec]
      BY <2>1, <2>2 DEF Opened, ExecAt
    <2>. QED  BY <2>3, SlotAssumption DEF Base
  <1>. QED  BY <1>1, TablesInit, TablesStep, PTL DEF Spec

-----------------------------------------------------------------------------
(* A jump of a table leads to the thunk for the function of its row        *)

NatLess == {ss \in Nat \X Nat : ss[1] < ss[2]}

\* The library states it for an operator turned into a relation.
LEMMA NatWF == IsWellFoundedOn(NatLess, Nat)
<1>1. IsWellFoundedOn(OpToRel(<, Nat), Nat)
  BY NatLessThanWellFounded, Zenon
<1>. QED  BY <1>1, Zenon DEF OpToRel, NatLess

\* A nonempty set of naturals up to n has a greatest element: the least distance
\* from n is its.
LEMMA GreatestNat ==
    ASSUME NEW n \in Nat, NEW T \in SUBSET (0 .. n), T # {}
    PROVE  \E x \in T : \A y \in T : y <= x
  <1>1. PICK D : D = {d \in Nat : n - d \in T}
    OBVIOUS
  <1>2. D \subseteq Nat /\ \A x \in T : n - x \in D /\ n - (n - x) = x
    BY <1>1
  <1>3. D # {}
    BY <1>2
  <1>4. PICK d \in D : \A e \in D : ~ (<<e, d>> \in NatLess)
    BY <1>2, <1>3, WFMin, NatWF
  <1>5. d \in Nat /\ n - d \in T
    BY <1>1
  <1>6. ASSUME NEW y \in T PROVE y <= n - d
    <2>1. n - y \in D /\ y \in 0 .. n
      BY <1>2
    <2>2. <<n - y, d>> \notin NatLess
      BY <1>4, <2>1
    <2>3. n - y \in Nat
      BY <1>2, <2>1
    <2>4. n - y < d => <<n - y, d>> \in NatLess
      BY <1>5, <2>3 DEF NatLess
    <2>. QED  BY <1>5, <2>1, <2>2, <2>4
  <1>. QED  BY <1>5, <1>6

\* What is assumed of the rows of one table.
Rows(rows) ==
    /\ Len(rows) \in Nat /\ DOMAIN rows = 1 .. Len(rows)
    /\ \A i, j \in DOMAIN rows :
          rows[i].offset = rows[j].offset => rows[i].func = rows[j].func

LEMMA TableRows == \A l \in Libraries : Rows(Table[l])
  BY TableAssumption, RowsAssumption DEF Rows

\* Thunks are numbered from 1 on, each row's is another, and as many as there are
\* thunks.
LEMMA ThunkNumbers ==
    ASSUME NEW rows, Rows(rows), NEW i \in Implemented(rows)
    PROVE  /\ ThunkNumber(rows, i) \in Nat \ {0}
           /\ \A j \in Implemented(rows) :
                 ThunkNumber(rows, j) = ThunkNumber(rows, i) => j = i
  <1>1. PICK n \in Nat : n = Len(rows) /\ DOMAIN rows = 1 .. n
    BY DEF Rows
  <1>2. IsFiniteSet(1 .. n)
    BY <1>1, FS_Interval
  <1>3. Implemented(rows) \subseteq 1 .. n
    BY <1>1 DEF Implemented
  <1>. DEFINE Upto(k) == {j \in Implemented(rows) : j <= k}
  <1>4. \A k : IsFiniteSet(Upto(k))
    <2>1. \A k : Upto(k) \in SUBSET (1 .. n)
      BY <1>3
    <2>. QED  BY <1>2, <2>1, FS_Subset
  <1>5. \A k : Cardinality(Upto(k)) \in Nat
    BY <1>4, FS_CardinalityType
  <1>6. \A j, k \in Implemented(rows) :
            j < k => Cardinality(Upto(j)) < Cardinality(Upto(k))
    <2>. SUFFICES ASSUME NEW j \in Implemented(rows), NEW k \in Implemented(rows), j < k
                  PROVE  Cardinality(Upto(j)) < Cardinality(Upto(k))
      OBVIOUS
    <2>1. j \in 1 .. n /\ k \in 1 .. n
      BY <1>3
    <2>2. Upto(j) \subseteq Upto(k)
      BY <1>3, <2>1
    <2>3. k \in Upto(k) /\ k \notin Upto(j)
      BY <2>1
    <2>4. Upto(j) # Upto(k)
      BY <2>3
    <2>5. IsFiniteSet(Upto(k)) /\ Cardinality(Upto(j)) \in Nat /\ Cardinality(Upto(k)) \in Nat
      BY <1>4, <1>5
    <2>. HIDE DEF Upto
    <2>6. /\ Cardinality(Upto(j)) <= Cardinality(Upto(k))
          /\ Cardinality(Upto(k)) = Cardinality(Upto(j)) => Upto(k) = Upto(j)
      BY <2>2, <2>5, FS_Subset
    <2>. QED  BY <2>4, <2>5, <2>6
  <1>7. i \in Upto(i)
    BY <1>3
  <1>8. Cardinality(Upto(i)) # 0
    <2>1. IsFiniteSet(Upto(i))
      BY <1>4
    <2>. HIDE DEF Upto
    <2>. QED  BY <1>7, <2>1, FS_EmptySet
  <1>9. \A k : ThunkNumber(rows, k) = Cardinality(Upto(k))
    BY DEF ThunkNumber
  <1>10. ASSUME NEW j \in Implemented(rows), ThunkNumber(rows, j) = ThunkNumber(rows, i)
         PROVE  j = i
    <2>1. Cardinality(Upto(j)) = Cardinality(Upto(i))
      BY <1>9, <1>10
    <2>2. j \in Nat /\ i \in Nat
      BY <1>3
    <2>3. Cardinality(Upto(j)) \in Nat /\ Cardinality(Upto(i)) \in Nat
      BY <1>5
    <2>. HIDE DEF Upto
    <2>. QED  BY <1>6, <1>10, <2>1, <2>2, <2>3
  <1>11. ThunkNumber(rows, i) \in Nat \ {0}
    <2>1. ThunkNumber(rows, i) = Cardinality(Upto(i))
      BY <1>9
    <2>2. Cardinality(Upto(i)) \in Nat
      BY <1>5
    <2>. HIDE DEF Upto
    <2>. QED  BY <1>8, <2>1, <2>2
  <1>. QED  BY <1>10, <1>11

\* The thunk of a row's number calls the row's function.
LEMMA ThunkCalls ==
    ASSUME NEW rows, Rows(rows), NEW i \in Implemented(rows)
    PROVE  /\ ThunkNumber(rows, i) \in DOMAIN ThunkTable(rows)
           /\ ThunkTable(rows)[ThunkNumber(rows, i)] = rows[i].func
  <1>1. PICK m : m = ThunkNumber(rows, i)
    OBVIOUS
  <1>2. \A j \in Implemented(rows) : ThunkNumber(rows, j) = m => j = i
    BY <1>1, ThunkNumbers
  <1>3. (CHOOSE j \in Implemented(rows) : ThunkNumber(rows, j) = m) = i
    BY <1>1, <1>2
  <1>4. m \in {ThunkNumber(rows, j) : j \in Implemented(rows)}
    BY <1>1
  <1>5. m \in DOMAIN ThunkTable(rows)
    BY <1>4 DEF ThunkTable
  <1>6. ThunkTable(rows)[m] = rows[CHOOSE j \in Implemented(rows) : ThunkNumber(rows, j) = m].func
    BY <1>4 DEF ThunkTable
  <1>. QED  BY <1>1, <1>3, <1>5, <1>6

\* At the offset of a row is an INT 3 or a jump to a thunk, as the row says.
LEMMA JumpLeads ==
    ASSUME NEW rows, Rows(rows), NEW i \in DOMAIN rows
    PROVE  /\ rows[i].offset \in DOMAIN JumpTable(rows)
           /\ LET jump == JumpTable(rows)[rows[i].offset]
              IN  IF rows[i].func = NotImplemented THEN jump = Int3
                  ELSE /\ jump # Int3 /\ jump \in DOMAIN ThunkTable(rows)
                       /\ ThunkTable(rows)[jump] = rows[i].func
  <1>1. PICK o : o = rows[i].offset
    OBVIOUS
  <1>2. PICK n \in Nat : DOMAIN rows = 1 .. n
    BY DEF Rows
  <1>3. PICK T : T = {j \in DOMAIN rows : rows[j].offset = o}
    OBVIOUS
  <1>4. T \in SUBSET (0 .. n) /\ T # {}
    BY <1>1, <1>2, <1>3
  <1>5. \E x \in T : \A y \in T : y <= x
    BY <1>4, GreatestNat
  <1>6. PICK last : last = CHOOSE j \in DOMAIN rows :
                               /\ rows[j].offset = o
                               /\ \A k \in DOMAIN rows : rows[k].offset = o => k <= j
    OBVIOUS
  <1>7. \E j \in DOMAIN rows : /\ rows[j].offset = o
                               /\ \A k \in DOMAIN rows : rows[k].offset = o => k <= j
    BY <1>3, <1>5
  <1>8. last \in DOMAIN rows /\ rows[last].offset = o
    BY <1>6, <1>7
  <1>9. rows[last].func = rows[i].func
    BY <1>1, <1>8 DEF Rows
  <1>10. o \in Offsets(rows)
    BY <1>1 DEF Offsets
  <1>11. /\ o \in DOMAIN JumpTable(rows)
         /\ JumpTable(rows)[o] =
                IF last \in Implemented(rows) THEN ThunkNumber(rows, last) ELSE Int3
    BY <1>6, <1>10 DEF JumpTable
  <1>12. CASE rows[i].func = NotImplemented
    <2>1. last \notin Implemented(rows)
      BY <1>9, <1>12 DEF Implemented
    <2>. QED  BY <1>1, <1>11, <1>12, <2>1
  <1>13. CASE rows[i].func # NotImplemented
    <2>1. last \in Implemented(rows)
      BY <1>8, <1>9, <1>13 DEF Implemented
    <2>2. JumpTable(rows)[o] = ThunkNumber(rows, last)
      BY <1>11, <2>1
    <2>3. /\ ThunkNumber(rows, last) \in DOMAIN ThunkTable(rows)
          /\ ThunkTable(rows)[ThunkNumber(rows, last)] = rows[i].func
      BY <1>9, <2>1, ThunkCalls
    <2>4. ThunkNumber(rows, last) # Int3
      BY <2>1, ThunkNumbers DEF Int3
    <2>. QED  BY <1>1, <1>11, <1>13, <2>2, <2>3, <2>4
  <1>. QED  BY <1>12, <1>13

\* A jump that is not an INT 3 leads to a thunk, whatever its offset.
LEMMA JumpsInTable ==
    ASSUME NEW rows, Rows(rows), NEW o \in DOMAIN JumpTable(rows),
           JumpTable(rows)[o] # Int3
    PROVE  JumpTable(rows)[o] \in DOMAIN ThunkTable(rows)
  <1>1. PICK i \in DOMAIN rows : rows[i].offset = o
    BY DEF JumpTable, Offsets
  <1>. QED  BY <1>1, JumpLeads

LEMMA JumpDomain == \A rows : DOMAIN JumpTable(rows) = Offsets(rows)
  BY DEF JumpTable

-----------------------------------------------------------------------------
(* Where the guest's calls arrive                                          *)

\* Guest code, or a function that a thunk of some library calls.
Place(p) ==
    p = "guest" \/ \E l \in Libraries : \E k \in DOMAIN SetupJumpTables[l].thunks :
                       p = SetupJumpTables[l].thunks[k]

\* The tables in a slot are those of the library opened at the base behind it.
PlacesInv ==
    /\ \A b \in DOMAIN opened :
          opened[b] \in Libraries /\ mem[b - 1] = SetupJumpTables[opened[b]]
    /\ \A s \in Slot : mem[s] = Null \/ \E l \in Libraries : mem[s] = SetupJumpTables[l]

\* What main() begins with.
BeginOK == entry \in BOOLEAN /\ root \in {Null, "cleared", "uncleared"}

\* Before the fork nothing has been called; after it AbsExecBase holds the first
\* base, or the code of the thunk that was written over it.
CallInv ==
    /\ BeginOK
    /\ Place(at)
    /\ guest = "none" => asked = Null
    /\ asked # Null => asked.lib \in Libraries \cup {Null}
    /\ absExecBase \in Base \cup {Null, Code}
    /\ main \in {"fork", "wait"} => absExecBase \in {1, Code}
    /\ CallsArrive

\* The tables of a library, by their definitions.
LEMMA Setup ==
    ASSUME NEW l \in Libraries
    PROVE  /\ SetupJumpTables[l].jumps = JumpTable(Table[l])
           /\ SetupJumpTables[l].thunks = ThunkTable(Table[l])
  BY DEF SetupJumpTables

\* What load_library() does to the bases and to the word at AbsExecBase.
LEMMA LoadLibraryPlaces ==
    ASSUME NEW n \in Nat, Opened(n), DOMAIN mem = Slot, PlacesInv,
           NEW file \in Libraries \cup {Null}, NEW result, LoadLibrary(file, result)
    PROVE  PlacesInv' /\ absExecBase' \in {absExecBase, Code}
  <1>1. CASE UNCHANGED <<mem, absExecBase, opened>>
    BY <1>1 DEF PlacesInv
  <1>2. CASE /\ file # Null /\ nextBase \in Slot
             /\ result = BaseOf(nextBase)
             /\ mem' = [mem EXCEPT ![nextBase] = SetupJumpTables[file]]
             /\ absExecBase' = IF nextBase = AbsExecSlot THEN Code ELSE absExecBase
             /\ opened' = [b \in DOMAIN opened \cup {result} |->
                              IF b = result THEN file ELSE opened[b]]
    <2>1. nextBase = n /\ n \in Slot /\ result = n + 1 /\ file \in Libraries
      BY <1>2, SlotAssumption DEF Opened, Slot, Failed, BaseOf
    <2>2. /\ mem'[n] = SetupJumpTables[file]
          /\ \A s \in Slot : s # n => mem'[s] = mem[s]
      BY <1>2, <2>1
    <2>3. DOMAIN opened = 1 .. n
      BY DEF Opened
    <2>4. /\ DOMAIN opened' = DOMAIN opened \cup {n + 1}
          /\ opened'[n + 1] = file
          /\ \A b \in DOMAIN opened : b # n + 1 => opened'[b] = opened[b]
      BY <1>2, <2>1
    <2>5. ASSUME NEW b \in DOMAIN opened'
          PROVE  opened'[b] \in Libraries /\ mem'[b - 1] = SetupJumpTables[opened'[b]]
      <3>1. CASE b = n + 1
        BY <2>1, <2>2, <2>4, <3>1
      <3>2. CASE b # n + 1
        <4>1. b \in 1 .. n
          BY <2>3, <2>4, <3>2
        <4>2. b - 1 \in Slot /\ b - 1 # n
          BY <2>1, <4>1, SlotAssumption DEF Slot
        <4>3. opened'[b] = opened[b] /\ mem'[b - 1] = mem[b - 1]
          BY <2>2, <2>3, <2>4, <3>2, <4>1, <4>2
        <4>. QED  BY <2>3, <4>1, <4>3 DEF PlacesInv
      <3>. QED  BY <3>1, <3>2
    <2>6. ASSUME NEW s \in Slot
          PROVE  mem'[s] = Null \/ \E l \in Libraries : mem'[s] = SetupJumpTables[l]
      BY <2>1, <2>2, <2>6 DEF PlacesInv
    <2>7. absExecBase' \in {absExecBase, Code}
      BY <1>2
    <2>8. \A l : SetupJumpTables[l]' = SetupJumpTables[l]
      BY DEF SetupJumpTables, JumpTable, ThunkTable
    <2>. QED  BY <2>5, <2>6, <2>7 DEF PlacesInv
  <1>. QED  BY <1>1, <1>2 DEF LoadLibrary, memory

LEMMA CallInit == Init => PlacesInv /\ CallInv
  <1>. SUFFICES ASSUME Init PROVE PlacesInv /\ CallInv
    OBVIOUS
  <1>1. DOMAIN opened = {}
    BY DEF Init
  <1>2. PlacesInv
    BY <1>1 DEF Init, PlacesInv
  <1>3. CallInv
    BY DEF Init, CallInv, BeginOK, CallsArrive, Place
  <1>. QED  BY <1>2, <1>3

\* Executing an entry of the tables of a library: the listed function, or the
\* interrupt, at the offset of a row, and some function otherwise.
LEMMA ExecuteArrives ==
    ASSUME NEW s \in Slot, NEW l \in Libraries, mem[s] = SetupJumpTables[l],
           NEW o \in DOMAIN mem[s].jumps, Execute(s, mem[s].jumps[o]),
           guest = "runs", at = "guest"
    PROVE  /\ Place(at')
           /\ guest' # "none"
           /\ \A i \in DOMAIN Table[l] : Table[l][i].offset = o =>
                  IF Table[l][i].func = NotImplemented
                  THEN guest' = "trapped" /\ at' = "guest"
                  ELSE guest' # "trapped" /\ at' = Table[l][i].func
  <1>. PICK rows : rows = Table[l]
    OBVIOUS
  <1>1. Rows(rows)
    BY TableRows
  <1>2. mem[s].jumps = JumpTable(rows) /\ mem[s].thunks = ThunkTable(rows)
    BY Setup
  <1>3. PICK jump : jump = mem[s].jumps[o]
    OBVIOUS
  <1>4. \/ jump = Int3 /\ guest' = "trapped" /\ at' = at
        \/ jump # Int3 /\ at' = ThunkTable(rows)[jump] /\ guest' = guest
    BY <1>2, <1>3 DEF Execute
  <1>5. jump # Int3 => jump \in DOMAIN ThunkTable(rows)
    BY <1>1, <1>2, <1>3, JumpsInTable
  <1>6. Place(at')
    BY <1>4, <1>5, Setup DEF Place
  <1>7. ASSUME NEW i \in DOMAIN rows, rows[i].offset = o
        PROVE  IF rows[i].func = NotImplemented
               THEN guest' = "trapped" /\ at' = "guest"
               ELSE guest' # "trapped" /\ at' = rows[i].func
    <2>1. IF rows[i].func = NotImplemented THEN jump = Int3
          ELSE /\ jump # Int3 /\ ThunkTable(rows)[jump] = rows[i].func
      BY <1>1, <1>2, <1>3, <1>7, JumpLeads
    <2>. QED  BY <1>4, <2>1
  <1>. QED  BY <1>4, <1>6, <1>7

\* A call with a base that is in force.
LEMMA CallStep ==
    ASSUME NEW s \in Slot, NEW l \in Libraries, mem[s] = SetupJumpTables[l],
           PlacesInv, guest = "runs", at = "guest", NEW o \in Nat,
           asked' = [lib |-> l, offset |-> o],
           IF o \in DOMAIN mem[s].jumps THEN Execute(s, mem[s].jumps[o])
           ELSE RunZeroes(s, o)
    PROVE  Place(at') /\ guest' # "none" /\ CallsArrive'
  <1>1. asked'.lib = l /\ asked'.offset = o /\ l # Null
    BY LibraryAssumption
  <1>2. CASE o \in DOMAIN mem[s].jumps
    <2>1. Execute(s, mem[s].jumps[o])
      BY <1>2
    <2>2. /\ Place(at') /\ guest' # "none"
          /\ \A i \in DOMAIN Table[l] : Table[l][i].offset = o =>
                 IF Table[l][i].func = NotImplemented
                 THEN guest' = "trapped" /\ at' = "guest"
                 ELSE guest' # "trapped" /\ at' = Table[l][i].func
      BY <1>2, <2>1, ExecuteArrives
    <2>. QED  BY <1>1, <2>2 DEF CallsArrive
  <1>3. CASE o \notin DOMAIN mem[s].jumps
    <2>1. RunZeroes(s, o)
      BY <1>3
    <2>2. \A i \in DOMAIN Table[l] : Table[l][i].offset # o
      BY <1>3, Setup, JumpDomain DEF Offsets
    <2>3. CallsArrive'
      BY <1>1, <2>2 DEF CallsArrive
    <2>. PICK behind : behind = {p \in DOMAIN mem[s].jumps : p < o}
      OBVIOUS
    <2>4. CASE guest' = "killed" /\ at' = at
      BY <2>3, <2>4 DEF Place
    <2>5. CASE /\ behind # {}
               /\ Execute(s, mem[s].jumps[CHOOSE p \in behind : \A q \in behind : q <= p])
      <3>1. PICK nearest : nearest = CHOOSE p \in behind : \A q \in behind : q <= p
        OBVIOUS
      <3>2. DOMAIN mem[s].jumps = Offsets(Table[l])
        BY Setup, JumpDomain
      <3>3. Offsets(Table[l]) \subseteq Nat
        BY TableAssumption DEF Offsets
      <3>4. behind \in SUBSET (0 .. o)
        BY <3>2, <3>3
      <3>5. \E p \in behind : \A q \in behind : q <= p
        BY <2>5, <3>4, GreatestNat
      <3>6. nearest \in DOMAIN mem[s].jumps
        BY <3>1, <3>5
      <3>7. Execute(s, mem[s].jumps[nearest])
        BY <2>5, <3>1
      <3>8. Place(at') /\ guest' # "none"
        BY <3>6, <3>7, ExecuteArrives
      <3>. QED  BY <2>3, <3>8
    <2>6. CASE /\ s + 1 \in Slot
               /\ mem[s + 1] # Null /\ 1 \in DOMAIN mem[s + 1].thunks
               /\ at' = mem[s + 1].thunks[1] /\ guest' = guest
      <3>1. PICK k \in Libraries : mem[s + 1] = SetupJumpTables[k]
        BY <2>6 DEF PlacesInv
      <3>2. Place(at')
        BY <2>6, <3>1 DEF Place
      <3>. QED  BY <2>3, <2>6, <3>2
    <2>. QED  BY <2>1, <2>4, <2>5, <2>6 DEF RunZeroes
  <1>. QED  BY <1>2, <1>3

\* A step of the guest's, other than to be trapped, in the same call or in none.
LEMMA SameCall ==
    ASSUME CallsArrive, at' = at, asked' = asked,
           asked # Null => guest' = guest \/ (guest = "runs" /\ guest' # "trapped")
    PROVE  CallsArrive'
  <1>1. CASE asked = Null
    BY <1>1 DEF CallsArrive
  <1>2. CASE asked # Null
    BY <1>2 DEF CallsArrive
  <1>. QED  BY <1>1, <1>2

LEMMA CallInvStep ==
    TablesInv /\ VerdictInv /\ PlacesInv /\ CallInv /\ [Next]_vars
        => PlacesInv' /\ CallInv'
  <1>. SUFFICES ASSUME TablesInv, VerdictInv, PlacesInv, CallInv, [Next]_vars
                PROVE  PlacesInv' /\ CallInv'
    OBVIOUS
  <1>. USE LibraryAssumption, SlotAssumption
  <1>. PICK n \in Nat : Opened(n) /\ ExecAt(n)
    BY DEF TablesInv
  <1>a. /\ DOMAIN mem = Slot /\ DOMAIN opened = 1 .. n /\ n <= MaxSlot + 1
        /\ (main \in Starting => guest = "none") /\ (main = "wait" \/ guest # "runs")
    BY DEF TablesInv, VerdictInv, Opened
  <1>b. ASSUME UNCHANGED <<mem, opened>>
        PROVE  PlacesInv'
    <2>1. \A l : SetupJumpTables[l]' = SetupJumpTables[l]
      BY DEF SetupJumpTables, JumpTable, ThunkTable
    <2>. QED  BY <1>b, <2>1 DEF PlacesInv
  <1>e. CallsArrive
    BY DEF CallInv
  <1>c. ASSUME at' = at PROVE Place(at)'
    BY <1>c DEF CallInv, Place
  <1>f. BeginOK /\ (UNCHANGED begin => BeginOK')
    BY DEF CallInv, BeginOK, begin
  \* A step of main() that leaves memory alone.
  <1>d. ASSUME MainOnly, UNCHANGED memory, BeginOK',
               main' \in {"fork", "wait"} => main \in {"fork", "wait"}
        PROVE  PlacesInv' /\ CallInv'
    <2>1. CallsArrive'
      BY <1>d, <1>e, SameCall DEF MainOnly
    <2>. QED  BY <1>b, <1>c, <1>d, <2>1 DEF CallInv, MainOnly, memory
  <1>1. CASE LoadProgram
    BY <1>1, <1>d, <1>f DEF LoadProgram, BeginOK
  <1>2. CASE InitCache
    BY <1>2, <1>d, <1>f DEF InitCache, BeginOK
  <1>3. CASE SetupFirstUnit
    BY <1>3, <1>d, <1>f DEF SetupFirstUnit
  <1>4. CASE LoadExec
    <2>1. PICK file \in {Exec, Null}, result \in Base \cup {0, Null} :
              LoadLibrary(file, result)
      BY <1>4 DEF LoadExec
    <2>2. PlacesInv' /\ absExecBase' \in {absExecBase, Code}
      BY <1>a, <2>1, LoadLibraryPlaces
    <2>3. MainOnly /\ UNCHANGED begin /\ main' \in {"exit 1", "base"}
      BY <1>4 DEF LoadExec
    <2>4. CallsArrive'
      BY <2>3, <1>e, SameCall DEF MainOnly
    <2>. QED  BY <1>c, <1>f, <2>2, <2>3, <2>4 DEF CallInv, MainOnly
  <1>5. CASE StoreExecBase
    <2>1. /\ main = "base" /\ MainOnly /\ UNCHANGED <<begin, mem, opened>>
          /\ \/ main' = "exit 1" /\ absExecBase' = absExecBase
             \/ main' = "fork" /\ absExecBase' \in DOMAIN opened
      BY <1>5 DEF StoreExecBase
    <2>2. absExecBase' \in DOMAIN opened => absExecBase' = 1
      <3>1. n = 1
        BY <2>1 DEF ExecAt
      <3>. QED  BY <1>a, <3>1
    <2>3. CallsArrive'
      BY <2>1, <1>e, SameCall DEF MainOnly
    <2>4. 1 \in Base
      BY DEF Base
    <2>. QED  BY <1>b, <1>c, <1>f, <2>1, <2>2, <2>3, <2>4 DEF CallInv, MainOnly
  <1>6. CASE Fork
    <2>1. /\ main = "fork" /\ UNCHANGED <<begin, at, memory, asked>>
          /\ guest' \in {guest, "runs"}
      BY <1>6 DEF Fork
    <2>2. guest = "none" /\ asked = Null
      BY <1>a, <2>1 DEF CallInv, Starting
    <2>3. CallsArrive'
      BY <2>1, <2>2, <1>e, SameCall
    <2>. QED  BY <1>b, <1>c, <1>f, <2>1, <2>2, <2>3 DEF CallInv, memory
  <1>7. CASE Wait
    BY <1>7, <1>d, <1>f DEF Wait
  <1>8. CASE Guest
    <2>1. guest = "runs" /\ main = "wait" /\ main' = main /\ BeginOK'
      BY <1>8, <1>a, <1>f, GuestLeavesMain
    <2>2. CASE GuestReturns \/ GuestKilled
      <3>1. UNCHANGED <<at, memory, asked>> /\ guest' \in {"returned", "killed"}
        BY <2>2 DEF GuestReturns, GuestKilled
      <3>2. CallsArrive'
        BY <2>1, <3>1, <1>e, SameCall
      <3>. QED  BY <1>b, <1>c, <2>1, <3>1, <3>2 DEF CallInv, memory
    <2>3. CASE CallLibrary
      <3>1. PICK b \in DOMAIN opened, o \in {k \in 6 .. MaxOffset : k % 6 = 0} :
                /\ asked' = [lib |-> opened[b], offset |-> o]
                /\ IF o \in DOMAIN mem[b - 1].jumps
                   THEN Execute(b - 1, mem[b - 1].jumps[o])
                   ELSE RunZeroes(b - 1, o)
        BY <2>3 DEF CallLibrary
      <3>2. at = "guest" /\ UNCHANGED memory
        BY <2>3 DEF CallLibrary, InGuest
      <3>3. b - 1 \in Slot /\ opened[b] \in Libraries /\ mem[b - 1] = SetupJumpTables[opened[b]]
        BY <1>a DEF PlacesInv, Slot
      <3>4. o \in Nat
        BY <3>1
      <3>5. Place(at') /\ guest' # "none" /\ CallsArrive'
        BY <2>1, <3>1, <3>2, <3>3, <3>4, CallStep
      <3>6. asked'.lib \in Libraries
        BY <3>1, <3>3
      <3>. QED  BY <1>b, <2>1, <3>2, <3>5, <3>6 DEF CallInv, memory, Place
    <2>4. CASE CallExec
      <3>1. PICK o \in Offsets(Table[Exec]) :
                /\ asked' = [lib |-> Exec, offset |-> o]
                /\ Execute(absExecBase - 1, mem[absExecBase - 1].jumps[o])
        BY <2>4 DEF CallExec
      <3>2. at = "guest" /\ absExecBase \in Base /\ UNCHANGED memory
        BY <2>4 DEF CallExec, InGuest
      <3>3. absExecBase = 1
        BY <2>1, <3>2 DEF CallInv, Base, Code
      <3>4. mem[0] = SetupJumpTables[Exec] /\ 0 \in Slot
        BY <2>1 DEF ExecAt, Slot
      <3>5. o \in DOMAIN mem[0].jumps /\ o \in Nat
        BY <3>4, Setup, JumpDomain, TableAssumption DEF Offsets
      <3>6. Execute(0, mem[0].jumps[o])
        BY <3>1, <3>3
      <3>7. Place(at') /\ guest' # "none" /\ CallsArrive'
        BY <2>1, <3>1, <3>2, <3>4, <3>5, <3>6, CallStep
      <3>8. asked'.lib \in Libraries
        BY <3>1
      <3>. QED  BY <1>b, <2>1, <3>2, <3>7, <3>8 DEF CallInv, memory, Place
    <2>5. CASE CallNowhere
      <3>1. /\ asked' = [lib |-> Null, offset |-> 6]
            /\ guest' = "killed" /\ UNCHANGED <<at, memory>>
        BY <2>5 DEF CallNowhere
      <3>2. asked'.lib = Null
        BY <3>1
      <3>3. CallsArrive'
        BY <3>2 DEF CallsArrive
      <3>. QED  BY <1>b, <1>c, <2>1, <3>1, <3>2, <3>3 DEF CallInv, memory
    <2>6. CASE ExecOpenLibrary
      <3>1. PICK file \in Libraries \cup {Null}, result \in Base \cup {0, Null} :
                LoadLibrary(file, result)
        BY <2>6 DEF ExecOpenLibrary
      <3>2. PlacesInv' /\ absExecBase' \in {absExecBase, Code}
        BY <1>a, <3>1, LoadLibraryPlaces
      <3>3. at' = "guest" /\ asked' = Null /\ guest' = guest
        BY <2>6 DEF ExecOpenLibrary, Return
      <3>4. CallsArrive'
        BY <3>3 DEF CallsArrive
      <3>. QED  BY <2>1, <3>2, <3>3, <3>4 DEF CallInv, Place
    <2>7. CASE ExecOther
      <3>1. at' = "guest" /\ asked' = Null /\ guest' = guest /\ UNCHANGED memory
        BY <2>7 DEF ExecOther, Return
      <3>2. CallsArrive'
        BY <3>1 DEF CallsArrive
      <3>. QED  BY <1>b, <2>1, <3>1, <3>2 DEF CallInv, memory, Place
    <2>. QED  BY <1>8, <2>2, <2>3, <2>4, <2>5, <2>6, <2>7 DEF Guest
  <1>9. CASE UNCHANGED vars
    <2>1. CallsArrive'
      BY <1>9, <1>e, SameCall DEF vars
    <2>. QED  BY <1>9, <1>b, <1>c, <1>f, <2>1 DEF CallInv, vars, memory
  <1>. QED  BY <1>1, <1>2, <1>3, <1>4, <1>5, <1>6, <1>7, <1>8, <1>9 DEF Next, Main, Ended

\* Every call of a function that a library lists arrives at that function, or at
\* the interrupt that ends the guest, with any function tables and whichever
\* libraries have been opened or could not be.
THEOREM CallsArriveCorrect == Spec => []CallsArrive
  <1>1. CallInv => CallsArrive
    BY DEF CallInv
  <1>. QED  BY <1>1, TablesInit, TablesStep, VerdictInit, VerdictStep,
               CallInit, CallInvStep, PTL DEF Spec

\* The variables have their types: what runs is guest code or a function of some
\* library, and a slot is empty or holds the tables of one.
THEOREM TypeCorrect == Spec => []TypeOK
  <1>1. TablesInv /\ VerdictInv /\ PlacesInv /\ CallInv => TypeOK
    <2>. SUFFICES ASSUME TablesInv, VerdictInv, PlacesInv, CallInv PROVE TypeOK
      OBVIOUS
    <2>1. PICK n \in Nat : Opened(n)
      BY DEF TablesInv
    <2>2. nextBase \in Slot \cup {Failed, MaxSlot + 1} /\ DOMAIN opened \subseteq Base
      BY <2>1, SlotAssumption DEF Opened, Slot, Base
    <2>3. main \in Finished \cup {"load", "cache", "unit", "library", "base", "fork", "wait"}
      BY DEF VerdictInv, Starting
    <2>4. guest \in GuestEnd \cup {"none", "runs"}
      BY DEF VerdictInv, VerdictRight, Starting, Finished, GuestEnd
    <2>5. at = "guest" \/ \E l \in Libraries : \E k \in DOMAIN SetupJumpTables[l].thunks :
                              at = SetupJumpTables[l].thunks[k]
      BY DEF CallInv, Place
    <2>. QED  BY <2>2, <2>3, <2>4, <2>5 DEF TypeOK, CallInv, BeginOK, PlacesInv
  <1>. QED  BY <1>1, TablesInit, TablesStep, VerdictInit, VerdictStep,
               CallInit, CallInvStep, PTL DEF Spec
=============================================================================
