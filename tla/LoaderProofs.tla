---------------------------- MODULE LoaderProofs ----------------------------
(***************************************************************************)
(* Proofs about Loader, for any number and size of hunks, any number of    *)
(* blocks and any file.                                                    *)
(***************************************************************************)
EXTENDS Loader, FiniteSetTheorems, SequenceTheorems, TLAPS

-----------------------------------------------------------------------------
(* Places in the hunk area                                                 *)

\* Products of natural numbers, which the SMT solver is not sure of.
LEMMA ProductNat ==
    ASSUME NEW a \in Nat, NEW b \in Nat
    PROVE  a * b \in Nat
  OBVIOUS

LEMMA ProductMinusOne ==
    ASSUME NEW a \in Int, NEW b \in Int, NEW m \in Int
    PROVE  /\ (a - b) * m = a * m - b * m
           /\ (a - b - 1) * m = (a * m - b * m) - m
  OBVIOUS

\* Every hunk of the area has an address.
LEMMA HunkInArea ==
    ASSUME NEW a \in Hunk
    PROVE  a * MaxHunkSize \in Address
<1>1. MaxHunks \in Nat /\ MaxHunkSize \in Nat \ {0} /\ a \in Nat
  BY SizeAssumption DEF Hunk
<1>2. MaxHunks - a - 1 \in Nat
  BY <1>1 DEF Hunk
<1>3. (MaxHunks - a - 1) * MaxHunkSize \in Nat /\ a * MaxHunkSize \in Nat
  BY <1>1, <1>2, ProductNat
<1>4. (MaxHunks - a - 1) * MaxHunkSize
        = (MaxHunks * MaxHunkSize - a * MaxHunkSize) - MaxHunkSize
  BY <1>1, ProductMinusOne
<1>5. MaxHunks * MaxHunkSize \in Nat
  BY <1>1, ProductNat
<1> HIDE DEF Hunk
<1> QED
  BY <1>1, <1>3, <1>4, <1>5 DEF Address, AreaSize

-----------------------------------------------------------------------------
(* The inductive invariant                                                 *)

\* What the header has said: hunks that have an address have the right one, and
\* before the header nothing has been read but END.
HeaderInv ==
    /\ firstHnum = Null <=> lastHnum = Null
    /\ firstHnum = Null =>
          /\ phase # "sizes"
          /\ \A h \in Hunk : hunkAddresses[h] = Null
          /\ \A a \in Address : mem[a] = Zero
          /\ codeAddress = Null
          /\ \A i \in DOMAIN file : file[i].kind = "end"
    /\ firstHnum # Null =>
          /\ lastHnum - firstHnum + 1 \in 0 .. MaxHunks
          /\ \A h \in Hunk : hunkAddresses[h] # Null =>
                /\ h \in firstHnum .. lastHnum
                /\ hunkAddresses[h] = StartOf(h)
    /\ phase = "sizes" => nextHnum \in firstHnum .. lastHnum

\* hunk_num counts the ENDs.
CountInv == hunkNum = HunkOf(Len(file) + 1) /\ hunkNum + left <= MaxBlocks

Inv == TypeOK /\ HeaderInv /\ CountInv

-----------------------------------------------------------------------------
(* The file read so far                                                    *)

\* Entries keep their places when one is added behind them.
LEMMA FileAppended ==
    ASSUME NEW e \in Entry, file \in Seq(Entry), file' = Append(file, e)
    PROVE  /\ file' \in Seq(Entry)
           /\ Len(file) \in Nat /\ Len(file') = Len(file) + 1
           /\ DOMAIN file = 1 .. Len(file) /\ DOMAIN file' = 1 .. Len(file) + 1
           /\ \A i \in 1 .. Len(file) : file'[i] = file[i]
           /\ file'[Len(file) + 1] = e
  BY AppendProperties, LenProperties

\* An entry stays with its hunk.
LEMMA HunkOfKept ==
    ASSUME NEW e \in Entry, file \in Seq(Entry), file' = Append(file, e)
    PROVE  \A i \in 1 .. Len(file) + 1 : HunkOf(i)' = HunkOf(i)
<1> TAKE i \in 1 .. Len(file) + 1
<1>1. \A j \in 1 .. i - 1 : file'[j] = file[j]
  BY FileAppended
<1>2. {j \in 1 .. i - 1 : file'[j].kind = "end"} = {j \in 1 .. i - 1 : file[j].kind = "end"}
  BY <1>1
<1> QED
  BY <1>2 DEF HunkOf

\* The ENDs among the first n entries are finitely many.
LEMMA EndsFinite ==
    ASSUME file \in Seq(Entry), NEW n \in Nat
    PROVE  IsFiniteSet({j \in 1 .. n : file[j].kind = "end"})
<1>1. IsFiniteSet(1 .. n)
  BY FS_Interval
<1> QED
  BY <1>1, FS_Subset

\* The next entry is for the same hunk, or behind an END for the next one.
LEMMA HunkOfNext ==
    ASSUME NEW e \in Entry, file \in Seq(Entry), file' = Append(file, e)
    PROVE  HunkOf(Len(file) + 1)'
             = HunkOf(Len(file) + 1) + (IF e.kind = "end" THEN 1 ELSE 0)
<1> DEFINE n == Len(file)
           E == {j \in 1 .. n : file[j].kind = "end"}
           F == {j \in 1 .. n + 1 : file'[j].kind = "end"}
<1>1. HunkOf(n + 1) = Cardinality(E)
  BY FileAppended DEF HunkOf
<1>2. HunkOf(n + 1)' = Cardinality(F)
  <2>1. HunkOf(n + 1)' = Cardinality({j \in 1 .. (Len(file') + 1) - 1 : file'[j].kind = "end"})
    BY DEF HunkOf
  <2>2. (Len(file') + 1) - 1 = n + 1
    BY FileAppended
  <2>3. {j \in 1 .. (Len(file') + 1) - 1 : file'[j].kind = "end"} = F
    BY <2>2
  <2> QED
    BY <2>1, <2>3
<1>3. F = IF e.kind = "end" THEN E \cup {n + 1} ELSE E
  BY FileAppended
<1>4. IsFiniteSet(E) /\ n \in Nat
  BY EndsFinite, FileAppended
<1>5. n + 1 \notin E
  BY <1>4
<1>6. Cardinality(E) \in Nat
  BY <1>4, FS_CardinalityType
<1>7. Cardinality(E \cup {n + 1}) = Cardinality(E) + 1
  BY <1>4, <1>5, FS_AddElement
<1> HIDE DEF E, F
<1> QED
  BY <1>1, <1>2, <1>3, <1>6, <1>7

-----------------------------------------------------------------------------
(* Types, header and hunk numbers                                          *)

LEMMA InitInv == Init => Inv
<1> SUFFICES ASSUME Init PROVE Inv
  OBVIOUS
<1>1. Len(file) = 0 /\ file \in Seq(Entry) /\ DOMAIN file = {}
  BY EmptySeq DEF Init
<1>2. TypeOK
  <2>1. Hunk \subseteq Nat /\ 0 \in Hunk /\ 0 \in Place
    BY SizeAssumption DEF Hunk, Place
  <2>2. mem \in [Address -> [of : (0 .. Len(file)) \X Place,
                             added : SUBSET ((1 .. Len(file)) \X Address)]]
    BY <1>1, <2>1 DEF Init, Zero
  <2> QED
    BY <1>1, <2>1, <2>2, SizeAssumption DEF Init, TypeOK, Phase
<1>3. HeaderInv
  BY <1>1 DEF Init, HeaderInv
<1>4. CountInv
  <2>1. {j \in 1 .. (Len(file) + 1) - 1 : file[j].kind = "end"} = {}
    BY <1>1
  <2>2. HunkOf(Len(file) + 1) = 0
    BY <2>1, FS_EmptySet DEF HunkOf
  <2> QED
    BY <2>2, SizeAssumption DEF Init, CountInv
<1> QED
  BY <1>2, <1>3, <1>4 DEF Inv

\* A step that neither stores anything nor reads a header or an END.
Quiet ==
    /\ phase' \in Phase /\ phase' # "sizes"
    /\ left' \in 0 .. left
    /\ handler' \in {"previous", "loader"}
    /\ UNCHANGED <<header, hunkNum, mem, codeAddress, file>>

LEMMA QuietInv == Inv /\ Quiet => Inv'
<1> SUFFICES ASSUME Inv, Quiet PROVE Inv'
  OBVIOUS
<1>1. TypeOK'
  <2>1. TypeOK
    BY DEF Inv
  <2>2. UNCHANGED <<hunkAddresses, nextHnum, lastHnum, firstHnum, hunkNum, mem, codeAddress, file>>
    BY DEF Quiet, header
  <2>3. left' \in 0 .. MaxBlocks
    BY <2>1, SizeAssumption DEF Quiet, TypeOK
  <2> QED
    BY <2>1, <2>2, <2>3 DEF Quiet, TypeOK
<1>2. HeaderInv'
  BY DEF Inv, Quiet, HeaderInv, header, StartOf
<1>3. CountInv'
  <2>1. HunkOf(Len(file) + 1)' = HunkOf(Len(file) + 1)
    BY DEF Quiet, HunkOf
  <2>2. hunkNum \in Nat /\ left \in Nat /\ MaxBlocks \in Nat
    BY SizeAssumption DEF Inv, TypeOK
  <2> QED
    BY <2>1, <2>2 DEF Inv, Quiet, CountInv
<1> QED
  BY <1>1, <1>2, <1>3 DEF Inv

\* Most actions are of this kind.
LEMMA QuietActions ==
    ASSUME TypeOK,
           \/ Start \/ RejectHeader \/ StartRelocs \/ RejectReloc \/ EndRelocs
           \/ SkipBlock \/ UnknownBlock \/ BeyondArea \/ OddBlock \/ Truncated
           \/ EndOfFile
           \/ Ended \/ UNCHANGED vars
    PROVE  Quiet \/ UNCHANGED vars
<1>1. left \in Nat /\ phase \in Phase /\ handler \in {"previous", "loader"}
  BY DEF TypeOK
<1>2. CASE Start
  BY <1>1, <1>2 DEF Start, Fails, Quiet, Phase
<1>3. CASE RejectHeader \/ UnknownBlock
  BY <1>1, <1>3 DEF RejectHeader, UnknownBlock, NextBlock, Fails, Quiet, Phase
<1>4. CASE StartRelocs \/ SkipBlock \/ Truncated
  BY <1>1, <1>4 DEF StartRelocs, SkipBlock, Truncated, NextBlock, Quiet, Phase
<1>5. CASE RejectReloc \/ EndRelocs
  BY <1>1, <1>5 DEF RejectReloc, EndRelocs, Fails, Quiet, Phase
<1>6. CASE BeyondArea \/ OddBlock
  BY <1>1, <1>6 DEF BeyondArea, OddBlock, NextBlock, Quiet, Phase
<1>7. CASE EndOfFile
  BY <1>1, <1>7 DEF EndOfFile, Fails, Quiet, Phase
<1>8. CASE Ended
  BY <1>8 DEF Ended
<1> QED
  BY <1>2, <1>3, <1>4, <1>5, <1>6, <1>7, <1>8

\* Where a hunk of the header is.
LEMMA StartOfInArea ==
    ASSUME Inv, firstHnum # Null, NEW h \in firstHnum .. lastHnum
    PROVE  /\ h \in Hunk /\ firstHnum \in Nat /\ lastHnum \in Hunk
           /\ StartOf(h) \in Address
<1>1. firstHnum \in Nat /\ lastHnum \in Hunk /\ lastHnum - firstHnum + 1 \in 0 .. MaxHunks
  BY DEF Inv, TypeOK, HeaderInv
<1>2. h \in Hunk /\ h - firstHnum \in Hunk
  BY <1>1, SizeAssumption DEF Hunk
<1> QED
  BY <1>1, <1>2, HunkInArea DEF StartOf

\* The current hunk's address, once it has one.
LEMMA HereIsStart ==
    ASSUME Inv, Here # Null
    PROVE  /\ firstHnum # Null
           /\ hunkNum \in firstHnum .. lastHnum
           /\ Here = StartOf(hunkNum) /\ Here \in Address
<1>1. hunkNum \in Hunk /\ Here = hunkAddresses[hunkNum]
  BY DEF Here
<1>2. firstHnum # Null /\ hunkNum \in firstHnum .. lastHnum /\ Here = StartOf(hunkNum)
  BY <1>1 DEF Inv, HeaderInv
<1> QED
  BY <1>2, StartOfInArea

\* HUNK_CODE, HUNK_DATA and HUNK_BSS.
Stores(kind, n) ==
    /\ n \in 0 .. MaxBlockSize
    /\ kind \in {"code", "data", "bss"}
    /\ NewBlock(kind, n)
    /\ mem' = IF kind = "bss" THEN Cleared(n) ELSE Copied(n)
    /\ phase' \in {phase, "failed"}
    /\ UNCHANGED <<handler, header, hunkNum>>

\* What such a block leaves in memory.
LEMMA StoresMem ==
    ASSUME Inv, NEW kind, NEW n, Stores(kind, n)
    PROVE  /\ DOMAIN mem' = Address
           /\ \A b \in Address :
                mem'[b] = IF b - Here \in 0 .. n - 1
                          THEN IF kind = "bss" THEN Zero ELSE Dword(Len(file) + 1, b - Here)
                          ELSE mem[b]
<1>1. CASE kind = "bss"
  <2>1. mem' = Written([k \in 0 .. n - 1 |-> Zero])
    BY <1>1 DEF Stores, Cleared
  <2>2. mem' = [b \in Address |-> IF b - Here \in 0 .. n - 1 THEN Zero ELSE mem[b]]
    BY <2>1 DEF Written
  <2> QED
    BY <1>1, <2>2
<1>2. CASE kind # "bss"
  <2>1. mem' = Written([k \in 0 .. n - 1 |-> Dword(Len(file) + 1, k)])
    BY <1>2 DEF Stores, Copied
  <2>2. mem' = [b \in Address |-> IF b - Here \in 0 .. n - 1
                                  THEN Dword(Len(file) + 1, b - Here) ELSE mem[b]]
    BY <2>1 DEF Written
  <2> QED
    BY <1>2, <2>2
<1> QED
  BY <1>1, <1>2

\* A block with contents or zeroes is an entry of the file.
LEMMA StoresEntry ==
    ASSUME Inv, NEW kind, NEW n, Stores(kind, n)
    PROVE  /\ [kind |-> kind, n |-> n] \in Entry
           /\ file' = Append(file, [kind |-> kind, n |-> n])
           /\ file \in Seq(Entry)
  BY DEF Stores, NewBlock, Entry, Inv, TypeOK

LEMMA StoresInv ==
    ASSUME Inv, NEW kind, NEW n, Stores(kind, n), codeAddress' \in {codeAddress, Here}
    PROVE  Inv'
<1> DEFINE e == [kind |-> kind, n |-> n]
<1>1. /\ firstHnum # Null /\ Here \in Address
      /\ n \in Nat /\ n <= MaxBlockSize /\ MaxBlockSize \in Nat /\ MaxBlocks \in Nat
      /\ left' = left - 1 /\ left > 0
  BY HereIsStart, SizeAssumption DEF Stores, NewBlock, NextBlock
<1>2. e \in Entry /\ file \in Seq(Entry) /\ file' = Append(file, e) /\ e.kind # "end"
  BY StoresEntry DEF Stores
<1>3. Len(file) \in Nat /\ Len(file') = Len(file) + 1 /\ file' \in Seq(Entry)
  BY <1>2, FileAppended
<1>4. UNCHANGED <<hunkAddresses, nextHnum, lastHnum, firstHnum, hunkNum, handler>>
  BY DEF Stores, header
<1>5. TypeOK'
  <2>1. TypeOK
    BY DEF Inv
  <2>2. ASSUME NEW b \in Address
        PROVE  mem'[b] \in [of : (0 .. Len(file')) \X Place,
                            added : SUBSET ((1 .. Len(file')) \X Address)]
    <3>1. mem[b] \in [of : (0 .. Len(file)) \X Place,
                      added : SUBSET ((1 .. Len(file)) \X Address)]
      BY <2>1 DEF TypeOK
    <3>2. mem[b] \in [of : (0 .. Len(file')) \X Place,
                      added : SUBSET ((1 .. Len(file')) \X Address)]
      BY <3>1, <1>3
    <3>3. Zero \in [of : (0 .. Len(file')) \X Place,
                    added : SUBSET ((1 .. Len(file')) \X Address)]
      BY <1>3, SizeAssumption DEF Zero, Place
    <3>4. ASSUME b - Here \in 0 .. n - 1
          PROVE  Dword(Len(file) + 1, b - Here) \in
                     [of : (0 .. Len(file')) \X Place,
                      added : SUBSET ((1 .. Len(file')) \X Address)]
      <4>1. b - Here \in Place
        BY <3>4, <1>1 DEF Place
      <4> QED
        BY <4>1, <1>3 DEF Dword
    <3> QED
      BY <3>2, <3>3, <3>4, StoresMem
  <2>3. mem' \in [Address -> [of : (0 .. Len(file')) \X Place,
                              added : SUBSET ((1 .. Len(file')) \X Address)]]
    <3>1. mem' = [b \in Address |-> mem'[b]]
      BY StoresMem DEF Stores, Copied, Cleared, Written
    <3> QED
      BY <3>1, <2>2
  <2>4. left' \in 0 .. MaxBlocks /\ phase' \in Phase
    BY <2>1, <1>1 DEF TypeOK, Stores, Phase
  <2>5. codeAddress' \in Address \cup {Null}
    BY <2>1, <1>1 DEF TypeOK
  <2> QED
    BY <2>1, <2>3, <2>4, <2>5, <1>3, <1>4 DEF TypeOK
<1>6. HeaderInv'
  <2>1. HeaderInv /\ phase # "sizes"
    BY DEF Inv, Stores, NewBlock, NextBlock
  <2>2. phase' # "sizes"
    BY <2>1 DEF Stores
  <2> QED
    BY <2>1, <2>2, <1>1, <1>4 DEF HeaderInv, StartOf
<1>7. CountInv'
  <2>1. HunkOf(Len(file) + 1)' = HunkOf(Len(file) + 1) + 0
    BY <1>2, HunkOfNext
  <2>2. hunkNum \in Nat /\ left \in Nat
    BY DEF Inv, TypeOK
  <2> QED
    BY <2>1, <2>2, <1>1, <1>4 DEF Inv, CountInv
<1> QED
  BY <1>5, <1>6, <1>7 DEF Inv

\* An entry of HUNK_RELOC32: the dword is one of the hunk area, the hunk referred
\* to has an address.
Relocates(ref, k) ==
    /\ phase = "relocs" /\ Here # Null /\ k \in Place /\ Here + k < AreaSize
    /\ ref \in 0 .. lastHnum /\ hunkAddresses[ref] # Null
    /\ mem' = [mem EXCEPT ![Here + k].added =
                              @ \cup {<<Len(file) + 1, hunkAddresses[ref]>>}]
    /\ file' = Append(file, [kind |-> "reloc", at |-> k, ref |-> ref])
    /\ UNCHANGED <<phase, left, handler, header, hunkNum, codeAddress>>

LEMMA RelocIsRelocates == ApplyReloc => \E ref \in 0 .. lastHnum, k \in Place : Relocates(ref, k)
  BY DEF ApplyReloc, Relocates, Added

LEMMA RelocatesEntry ==
    ASSUME Inv, NEW ref, NEW k, Relocates(ref, k)
    PROVE  /\ [kind |-> "reloc", at |-> k, ref |-> ref] \in Entry
           /\ file \in Seq(Entry)
           /\ ref \in firstHnum .. lastHnum
           /\ hunkAddresses[ref] = StartOf(ref) /\ StartOf(ref) \in Address
           /\ Here + k \in Address
<1>1. firstHnum # Null /\ hunkNum \in firstHnum .. lastHnum /\ Here = StartOf(hunkNum)
  BY HereIsStart DEF Relocates
<1>2. lastHnum \in Hunk /\ firstHnum \in Nat
  BY <1>1, StartOfInArea
<1>3. ref \in Hunk
  <2>1. ref \in 0 .. lastHnum
    BY DEF Relocates
  <2> QED
    BY <1>2, <2>1, SizeAssumption DEF Hunk
<1>4. ref \in firstHnum .. lastHnum /\ hunkAddresses[ref] = StartOf(ref)
  BY <1>1, <1>3 DEF Relocates, Inv, HeaderInv
<1>5. StartOf(ref) \in Address /\ Here + k \in Address
  <2>1. StartOf(ref) \in Address /\ Here \in Address
    BY <1>1, <1>4, StartOfInArea
  <2>2. k \in Place /\ Here + k < AreaSize
    BY DEF Relocates
  <2>3. MaxBlockSize \in Nat /\ AreaSize \in Nat
    BY SizeAssumption, ProductNat DEF AreaSize
  <2> QED
    BY <2>1, <2>2, <2>3 DEF Address, Place
<1>6. [kind |-> "reloc", at |-> k, ref |-> ref] \in Entry
  BY <1>3 DEF Entry, Relocates
<1> QED
  BY <1>4, <1>5, <1>6 DEF Inv, TypeOK

\* What the relocation does to memory.
MoreAdded(added, ref) == added \cup {<<Len(file) + 1, StartOf(ref)>>}

LEMMA RelocatesMem ==
    ASSUME Inv, NEW ref, NEW k, Relocates(ref, k), NEW b \in Address
    PROVE  /\ mem'[b].of = mem[b].of
           /\ b = Here + k => mem'[b].added = MoreAdded(mem[b].added, ref)
           /\ b # Here + k => mem'[b].added = mem[b].added
           /\ mem'[b] = [of |-> mem'[b].of, added |-> mem'[b].added]
<1>1. mem \in [Address -> [of : (0 .. Len(file)) \X Place,
                           added : SUBSET ((1 .. Len(file)) \X Address)]]
  BY DEF Inv, TypeOK
<1>2. mem' = [mem EXCEPT ![Here + k] =
                 [mem[Here + k] EXCEPT !.added = @ \cup {<<Len(file) + 1, StartOf(ref)>>}]]
  BY RelocatesEntry DEF Relocates
<1> QED
  BY <1>1, <1>2, RelocatesEntry DEF MoreAdded

LEMMA RelocatesInv ==
    ASSUME Inv, NEW ref, NEW k, Relocates(ref, k)
    PROVE  Inv'
<1> DEFINE e == [kind |-> "reloc", at |-> k, ref |-> ref]
<1>1. e \in Entry /\ file \in Seq(Entry) /\ file' = Append(file, e) /\ e.kind # "end"
  BY RelocatesEntry DEF Relocates
<1>2. Len(file) \in Nat /\ Len(file') = Len(file) + 1 /\ file' \in Seq(Entry)
  BY <1>1, FileAppended
<1>3. UNCHANGED <<hunkAddresses, nextHnum, lastHnum, firstHnum, hunkNum, handler, phase,
                  left, codeAddress>>
  BY DEF Relocates, header
<1>4. firstHnum # Null /\ StartOf(ref) \in Address
  BY HereIsStart, RelocatesEntry DEF Relocates
<1>5. TypeOK'
  <2>1. TypeOK
    BY DEF Inv
  <2>2. ASSUME NEW b \in Address
        PROVE  mem'[b] \in [of : (0 .. Len(file')) \X Place,
                            added : SUBSET ((1 .. Len(file')) \X Address)]
    <3>1. /\ mem[b].of \in (0 .. Len(file)) \X Place
          /\ mem[b].added \in SUBSET ((1 .. Len(file)) \X Address)
      BY <2>1 DEF TypeOK
    <3>2. /\ mem'[b].of = mem[b].of
          /\ \/ mem'[b].added = mem[b].added
             \/ mem'[b].added = MoreAdded(mem[b].added, ref)
          /\ mem'[b] = [of |-> mem'[b].of, added |-> mem'[b].added]
      BY RelocatesMem
    <3>3. mem'[b].of \in (0 .. Len(file')) \X Place
      BY <3>1, <3>2, <1>2
    <3>4. mem'[b].added \in SUBSET ((1 .. Len(file')) \X Address)
      <4>1. Len(file) + 1 \in 1 .. Len(file')
        BY <1>2
      <4>2. (1 .. Len(file)) \X Address \subseteq (1 .. Len(file')) \X Address
        BY <1>2
      <4>3. <<Len(file) + 1, StartOf(ref)>> \in (1 .. Len(file')) \X Address
        BY <4>1, <1>4
      <4> QED
        BY <3>1, <3>2, <4>2, <4>3 DEF MoreAdded
    <3> QED
      BY <3>2, <3>3, <3>4
  <2>3. mem' \in [Address -> [of : (0 .. Len(file')) \X Place,
                              added : SUBSET ((1 .. Len(file')) \X Address)]]
    <3>1. mem' = [b \in Address |-> mem'[b]]
      BY <2>1 DEF TypeOK, Relocates
    <3> QED
      BY <2>2, <3>1
  <2> QED
    BY <2>1, <2>3, <1>2, <1>3 DEF TypeOK
<1>6. HeaderInv'
  BY <1>3, <1>4 DEF HeaderInv, StartOf, Inv
<1>7. CountInv'
  <2>1. HunkOf(Len(file) + 1)' = HunkOf(Len(file) + 1) + 0
    BY <1>1, HunkOfNext
  <2>2. hunkNum \in Nat /\ left \in Nat
    BY DEF Inv, TypeOK
  <2> QED
    BY <2>1, <2>2, <1>3 DEF Inv, CountInv
<1> QED
  BY <1>5, <1>6, <1>7 DEF Inv

LEMMA EndHunkInv == Inv /\ EndHunk => Inv'
<1> SUFFICES ASSUME Inv, EndHunk PROVE Inv'
  OBVIOUS
<1> DEFINE e == [kind |-> "end"]
<1>1. e \in Entry /\ file \in Seq(Entry) /\ file' = Append(file, e) /\ e.kind = "end"
  BY DEF EndHunk, Entry, Inv, TypeOK
<1>2. /\ Len(file) \in Nat /\ Len(file') = Len(file) + 1 /\ file' \in Seq(Entry)
      /\ DOMAIN file' = 1 .. Len(file) + 1 /\ DOMAIN file = 1 .. Len(file)
      /\ \A i \in 1 .. Len(file) : file'[i] = file[i]
      /\ file'[Len(file) + 1] = e
  BY <1>1, FileAppended
<1>3. UNCHANGED <<hunkAddresses, nextHnum, lastHnum, firstHnum, handler, phase,
                  mem, codeAddress>>
  BY DEF EndHunk, header
<1>4. left' = left - 1 /\ left > 0 /\ hunkNum' = hunkNum + 1 /\ phase = "blocks"
  BY DEF EndHunk, NextBlock
<1>5. CountInv'
  <2>1. HunkOf(Len(file) + 1)' = HunkOf(Len(file) + 1) + 1
    BY <1>1, HunkOfNext
  <2>2. hunkNum \in Nat /\ left \in Nat /\ MaxBlocks \in Nat
    BY SizeAssumption DEF Inv, TypeOK
  <2> QED
    BY <2>1, <2>2, <1>4 DEF Inv, CountInv
<1>6. TypeOK'
  <2>1. TypeOK /\ MaxBlocks \in Nat
    BY SizeAssumption DEF Inv
  <2>2. mem' \in [Address -> [of : (0 .. Len(file')) \X Place,
                              added : SUBSET ((1 .. Len(file')) \X Address)]]
    <3>1. /\ (0 .. Len(file)) \X Place \subseteq (0 .. Len(file')) \X Place
          /\ SUBSET ((1 .. Len(file)) \X Address) \subseteq
                 SUBSET ((1 .. Len(file')) \X Address)
      BY <1>2
    <3> QED
      BY <2>1, <1>3, <3>1 DEF TypeOK
  <2>3. left' \in 0 .. MaxBlocks /\ hunkNum' \in 0 .. MaxBlocks
    BY <2>1, <1>4 DEF Inv, TypeOK, CountInv
  <2> QED
    BY <2>1, <2>2, <2>3, <1>2, <1>3 DEF TypeOK
<1>7. HeaderInv'
  BY <1>2, <1>3, <1>4 DEF HeaderInv, StartOf, Inv
<1> QED
  BY <1>5, <1>6, <1>7 DEF Inv

LEMMA ReadHeaderInv == Inv /\ ReadHeader => Inv'
<1> SUFFICES ASSUME Inv, ReadHeader PROVE Inv'
  OBVIOUS
<1>1. /\ phase = "blocks" /\ left > 0 /\ left' = left - 1 /\ lastHnum = Null
      /\ UNCHANGED <<handler, hunkAddresses, hunkNum, mem, codeAddress, file>>
  BY DEF ReadHeader, NextBlock
<1>2. left \in Nat /\ left' \in 0 .. left /\ handler \in {"previous", "loader"}
  BY <1>1 DEF Inv, TypeOK
<1>3. CASE Fails /\ UNCHANGED <<firstHnum, nextHnum, lastHnum>>
  <2>1. Quiet
    BY <1>1, <1>2, <1>3 DEF Quiet, Fails, Phase, header
  <2> QED
    BY <2>1, QuietInv
<1>4. ASSUME NEW first \in 0 .. MaxHunks, NEW last \in Hunk,
             last - first + 1 \in 0 .. MaxHunks,
             phase' = (IF first <= last THEN "sizes" ELSE "blocks"),
             firstHnum' = first, nextHnum' = first, lastHnum' = last
      PROVE  Inv'
  <2>1. TypeOK /\ MaxBlocks \in Nat /\ MaxHunks \in Nat /\ Null \notin Nat
    BY SizeAssumption DEF Inv
  <2>2. first \in Nat /\ last \in Nat
    BY <2>1, SizeAssumption DEF Hunk
  <2>3. TypeOK'
    <3>1. left' \in 0 .. MaxBlocks /\ phase' \in Phase
      BY <2>1, <1>2, <1>4 DEF TypeOK, Phase
    <3> QED
      BY <2>1, <3>1, <1>1, <1>4 DEF TypeOK
  <2>4. HeaderInv'
    <3>1. firstHnum = Null /\ \A h \in Hunk : hunkAddresses[h] = Null
      BY <1>1 DEF Inv, HeaderInv
    <3>2. firstHnum' # Null /\ lastHnum' # Null
      BY <2>1, <2>2, <1>4
    <3>3. phase' = "sizes" => nextHnum' \in firstHnum' .. lastHnum'
      BY <2>2, <1>4
    <3> QED
      BY <3>1, <3>2, <3>3, <1>1, <1>4 DEF HeaderInv
  <2>5. CountInv'
    <3>1. HunkOf(Len(file) + 1)' = HunkOf(Len(file) + 1)
      BY <1>1 DEF HunkOf
    <3>2. hunkNum \in Nat
      BY <2>1 DEF TypeOK
    <3> QED
      BY <3>1, <3>2, <2>1, <1>1, <1>2 DEF Inv, CountInv
  <2> QED
    BY <2>3, <2>4, <2>5 DEF Inv
<1> QED
  BY <1>3, <1>4 DEF ReadHeader

LEMMA ReadSizeInv == Inv /\ ReadSize => Inv'
<1> SUFFICES ASSUME Inv, ReadSize PROVE Inv'
  OBVIOUS
<1>1. phase = "sizes" /\ UNCHANGED <<left, handler, hunkNum, mem, codeAddress, file>>
  BY DEF ReadSize
<1>2. left \in Nat /\ handler \in {"previous", "loader"} /\ TypeOK
  BY DEF Inv, TypeOK
<1>3. CASE Fails /\ UNCHANGED header
  <2>1. Quiet
    BY <1>1, <1>2, <1>3 DEF Quiet, Fails, Phase
  <2> QED
    BY <2>1, QuietInv
<1>4. CASE /\ hunkAddresses' = [hunkAddresses EXCEPT
                                   ![nextHnum] = (nextHnum - firstHnum) * MaxHunkSize]
           /\ nextHnum' = nextHnum + 1
           /\ phase' = (IF LastSize THEN "blocks" ELSE "sizes")
           /\ UNCHANGED <<lastHnum, firstHnum>>
  <2>1. firstHnum # Null /\ nextHnum \in firstHnum .. lastHnum
    BY <1>1 DEF Inv, HeaderInv
  <2>2. /\ nextHnum \in Hunk /\ firstHnum \in Nat /\ lastHnum \in Hunk
        /\ StartOf(nextHnum) \in Address
    BY <2>1, StartOfInArea
  <2>3. hunkAddresses' = [hunkAddresses EXCEPT ![nextHnum] = StartOf(nextHnum)]
    BY <1>4 DEF StartOf
  <2>4. nextHnum \in Nat /\ lastHnum \in Nat /\ lastHnum < MaxHunks /\ MaxHunks \in Nat
    BY <2>2, SizeAssumption DEF Hunk
  <2>5. phase' = "sizes" => nextHnum' \in firstHnum .. lastHnum
    BY <2>1, <2>2, <2>4, <1>4 DEF LastSize
  <2>6. TypeOK'
    <3>1. hunkAddresses' \in [Hunk -> Address \cup {Null}]
      BY <1>2, <2>2, <2>3 DEF TypeOK
    <3>2. nextHnum' \in 0 .. MaxHunks /\ phase' \in Phase
      BY <2>1, <2>2, <2>4, <1>4 DEF Phase
    <3> QED
      BY <3>1, <3>2, <1>1, <1>2, <1>4 DEF TypeOK
  <2>7. HeaderInv'
    <3>1. \A h \in Hunk : hunkAddresses'[h] # Null =>
             h \in firstHnum .. lastHnum /\ hunkAddresses'[h] = StartOf(h)
      BY <2>1, <2>2, <2>3, <1>2 DEF Inv, HeaderInv, TypeOK
    <3> QED
      BY <3>1, <2>1, <2>5, <1>4 DEF Inv, HeaderInv, StartOf
  <2>8. CountInv'
    <3>1. HunkOf(Len(file) + 1)' = HunkOf(Len(file) + 1)
      BY <1>1 DEF HunkOf
    <3> QED
      BY <3>1, <1>1 DEF Inv, CountInv
  <2> QED
    BY <2>6, <2>7, <2>8 DEF Inv
<1> QED
  BY <1>3, <1>4 DEF ReadSize

\* The three cases of the switch that store a block.
LEMMA BlockStores ==
    ASSUME Inv, LoadCode \/ LoadData \/ ClearBss
    PROVE  \E kind \in {"code", "data", "bss"}, n \in 0 .. MaxBlockSize :
              /\ Stores(kind, n)
              /\ \/ /\ kind = "code" /\ n < MaxHunkSize
                    /\ codeAddress' = Here /\ phase' = phase
                 \/ /\ kind = "code" => n >= MaxHunkSize
                    /\ codeAddress' = codeAddress
<1>0. MaxHunkSize \in Nat /\ MaxBlockSize \in Nat
  BY SizeAssumption
<1>1. CASE LoadCode
  <2>1. PICK n \in 0 .. MaxBlockSize :
           /\ NewBlock("code", n)
           /\ mem' = Copied(n)
           /\ \/ n > MaxHunkSize - 1  /\ Fails /\ codeAddress' = codeAddress
              \/ n <= MaxHunkSize - 1 /\ phase' = phase /\ codeAddress' = Here
    BY <1>1 DEF LoadCode
  <2>2. Stores("code", n)
    BY <2>1, <1>1 DEF LoadCode, Stores, Fails
  <2>3. \/ n >= MaxHunkSize /\ codeAddress' = codeAddress
        \/ n < MaxHunkSize /\ phase' = phase /\ codeAddress' = Here
    BY <2>1, <1>0
  <2> QED
    BY <2>2, <2>3
<1>2. CASE LoadData
  <2>1. PICK n \in 0 .. MaxBlockSize : NewBlock("data", n) /\ mem' = Copied(n)
    BY <1>2 DEF LoadData
  <2>2. Stores("data", n) /\ codeAddress' = codeAddress
    BY <2>1, <1>2 DEF LoadData, Stores
  <2> QED
    BY <2>2
<1>3. CASE ClearBss
  <2>1. PICK n \in 0 .. MaxBlockSize : NewBlock("bss", n) /\ mem' = Cleared(n)
    BY <1>3 DEF ClearBss
  <2>2. Stores("bss", n) /\ codeAddress' = codeAddress
    BY <2>1, <1>3 DEF ClearBss, Stores
  <2> QED
    BY <2>2
<1> QED
  BY <1>1, <1>2, <1>3

\* What a step can be.
LEMMA StepCases ==
    ASSUME Inv, [Next]_vars
    PROVE  \/ Quiet
           \/ UNCHANGED vars
           \/ ReadHeader
           \/ ReadSize
           \/ LoadCode \/ LoadData \/ ClearBss
           \/ ApplyReloc
           \/ EndHunk
  BY QuietActions DEF Inv, Next, Blocks

LEMMA StepInv == Inv /\ [Next]_vars => Inv'
<1> SUFFICES ASSUME Inv, [Next]_vars PROVE Inv'
  OBVIOUS
<1>1. CASE UNCHANGED vars
  <2>1. /\ phase' = phase /\ left' = left /\ handler' = handler /\ hunkNum' = hunkNum
        /\ hunkAddresses' = hunkAddresses /\ nextHnum' = nextHnum /\ lastHnum' = lastHnum
        /\ firstHnum' = firstHnum /\ mem' = mem /\ codeAddress' = codeAddress
        /\ file' = file
    BY <1>1 DEF vars, header
  <2>2. TypeOK' /\ HeaderInv' /\ CountInv'
    BY <2>1 DEF Inv, TypeOK, HeaderInv, CountInv, HunkOf, StartOf
  <2> QED
    BY <2>2 DEF Inv
<1>2. CASE LoadCode \/ LoadData \/ ClearBss
  BY <1>2, BlockStores, StoresInv
<1>3. CASE ApplyReloc
  BY <1>3, RelocIsRelocates, RelocatesInv
<1> QED
  BY <1>1, <1>2, <1>3, StepCases, QuietInv, ReadHeaderInv, ReadSizeInv, EndHunkInv

LEMMA InvCorrect == Spec => []Inv
  BY InitInv, StepInv, PTL DEF Spec

-----------------------------------------------------------------------------
\* Types, whatever the file and as far as the model follows it, that is up to a
\* hunk whose address is not stored: every address stored in hunk_addresses[] or
\* added by a relocation is one of the hunk area, and so is every dword written.
\* hunk_num itself is only bounded by the blocks of the file.
THEOREM TypeCorrect == Spec => []TypeOK
<1>1. Inv => TypeOK
  BY DEF Inv
<1> QED
  BY <1>1, InvCorrect, PTL

\* The loader's own SIGSEGV handler is in force while load_program() reads the
\* file and when a read beyond it ends the process, and the previous one when it
\* has returned true.  After a failure nothing is said: the loader's may stay.
THEOREM HandlerInForceCorrect == Spec => []HandlerInForce
<1>1. Init => HandlerInForce
  BY DEF Init, HandlerInForce
<1>2. HandlerInForce /\ [Next]_vars => HandlerInForce'
  <2> SUFFICES ASSUME HandlerInForce, [Next]_vars PROVE HandlerInForce'
    OBVIOUS
  <2>1. CASE UNCHANGED vars \/ Ended
    BY <2>1 DEF HandlerInForce, Ended, vars
  <2>2. CASE Start
    BY <2>2 DEF HandlerInForce, Start, Fails
  <2>3. CASE ReadHeader \/ RejectHeader \/ UnknownBlock
    BY <2>3 DEF HandlerInForce, ReadHeader, RejectHeader, UnknownBlock, NextBlock, Fails
  <2>4. CASE ReadSize
    BY <2>4 DEF HandlerInForce, ReadSize, Fails
  <2>5. CASE LoadCode
    BY <2>5 DEF HandlerInForce, LoadCode, NewBlock, NextBlock, Fails
  <2>6. CASE LoadData \/ ClearBss
    BY <2>6 DEF HandlerInForce, LoadData, ClearBss, NewBlock, NextBlock
  <2>7. CASE StartRelocs \/ SkipBlock \/ EndHunk \/ Truncated
    BY <2>7 DEF HandlerInForce, StartRelocs, SkipBlock, EndHunk, Truncated, NextBlock
  <2>8. CASE ApplyReloc \/ RejectReloc \/ EndRelocs
    BY <2>8 DEF HandlerInForce, ApplyReloc, RejectReloc, EndRelocs, Fails
  <2>9. CASE BeyondArea \/ OddBlock
    BY <2>9 DEF HandlerInForce, BeyondArea, OddBlock, NextBlock
  <2>10. CASE EndOfFile
    BY <2>10 DEF HandlerInForce, EndOfFile, Fails
  <2> QED
    BY <2>1, <2>2, <2>3, <2>4, <2>5, <2>6, <2>7, <2>8, <2>9, <2>10 DEF Next, Blocks
<1> QED
  BY <1>1, <1>2, PTL DEF Spec

-----------------------------------------------------------------------------
(* The start address                                                       *)

\* What a store or a relocation says of the entry it adds.
LEMMA EntryHunk ==
    ASSUME Inv, NEW e \in Entry, file' = Append(file, e), NEW l, l = Len(file)
    PROVE  /\ l \in Nat /\ DOMAIN file = 1 .. l /\ DOMAIN file' = 1 .. l + 1
           /\ \A i \in 1 .. l : file'[i] = file[i]
           /\ file'[l + 1] = e
           /\ \A i \in 1 .. l + 1 : HunkOf(i)' = HunkOf(i)
           /\ HunkOf(l + 1) = hunkNum
<1>1. file \in Seq(Entry)
  BY DEF Inv, TypeOK
<1> QED
  BY <1>1, FileAppended, HunkOfKept DEF Inv, CountInv

\* Only an accepted code block moves the start address.
LEMMA EntryKept ==
    ASSUME Inv, EntryIsCode, NEW e \in Entry, file' = Append(file, e),
           ~ (e.kind = "code" /\ e.n < MaxHunkSize),
           UNCHANGED <<codeAddress, firstHnum>>
    PROVE  EntryIsCode'
<1> DEFINE code == {i \in DOMAIN file : file[i].kind = "code" /\ file[i].n < MaxHunkSize}
<1>1. PICK l : l = Len(file)
  OBVIOUS
<1>2. /\ l \in Nat /\ DOMAIN file = 1 .. l /\ DOMAIN file' = 1 .. l + 1
      /\ \A i \in 1 .. l : file'[i] = file[i]
      /\ file'[l + 1] = e
      /\ \A i \in 1 .. l + 1 : HunkOf(i)' = HunkOf(i)
  BY <1>1, EntryHunk
<1>3. code' = code
  BY <1>2
<1>4. \A i \in code : StartOf(HunkOf(i))' = StartOf(HunkOf(i))
  BY <1>2 DEF StartOf
<1>5. EntryIsCode <=> IF code = {} THEN codeAddress = Null
                      ELSE \E i \in code : /\ \A j \in code : j <= i
                                           /\ codeAddress = StartOf(HunkOf(i))
  BY DEF EntryIsCode
<1>6. EntryIsCode' <=> IF code' = {} THEN codeAddress' = Null
                       ELSE \E i \in code' : /\ \A j \in code' : j <= i
                                             /\ codeAddress' = StartOf(HunkOf(i))'
  BY DEF EntryIsCode
<1> HIDE DEF code
<1> QED
  BY <1>3, <1>4, <1>5, <1>6

LEMMA EntryMoved ==
    ASSUME Inv, NEW n \in 0 .. MaxBlockSize, Stores("code", n), n < MaxHunkSize,
           codeAddress' = Here
    PROVE  EntryIsCode'
<1> DEFINE e == [kind |-> "code", n |-> n]
           code == {i \in DOMAIN file : file[i].kind = "code" /\ file[i].n < MaxHunkSize}
<1>1. e \in Entry /\ file' = Append(file, e)
  BY StoresEntry
<1>2. PICK l : l = Len(file)
  OBVIOUS
<1>3. /\ l \in Nat /\ DOMAIN file' = 1 .. l + 1
      /\ file'[l + 1] = e
      /\ HunkOf(l + 1)' = hunkNum
  BY <1>1, <1>2, EntryHunk
<1>4. l + 1 \in code' /\ \A j \in code' : j <= l + 1
  BY <1>3
<1>5. codeAddress' = StartOf(HunkOf(l + 1))'
  <2>1. codeAddress' = StartOf(hunkNum)
    BY HereIsStart DEF Stores, NewBlock
  <2>2. firstHnum' = firstHnum
    BY DEF Stores, header
  <2> QED
    BY <2>1, <2>2, <1>3 DEF StartOf
<1>6. EntryIsCode' <=> IF code' = {} THEN codeAddress' = Null
                       ELSE \E i \in code' : /\ \A j \in code' : j <= i
                                             /\ codeAddress' = StartOf(HunkOf(i))'
  BY DEF EntryIsCode
<1> HIDE DEF code
<1> QED
  BY <1>4, <1>5, <1>6

\* The start address is that of the last accepted code block, whatever else the
\* file has, however often, and in whatever order.
THEOREM EntryIsCodeCorrect == Spec => []EntryIsCode
<1>1. Init => EntryIsCode
  <2> SUFFICES ASSUME Init PROVE EntryIsCode
    OBVIOUS
  <2>1. DOMAIN file = {} /\ codeAddress = Null
    BY EmptySeq DEF Init
  <2> QED
    BY <2>1 DEF EntryIsCode
<1>2. Inv /\ EntryIsCode /\ [Next]_vars => EntryIsCode'
  <2> SUFFICES ASSUME Inv, EntryIsCode, [Next]_vars PROVE EntryIsCode'
    OBVIOUS
  <2>1. CASE Quiet \/ UNCHANGED vars \/ ReadSize
    <3>1. UNCHANGED <<firstHnum, codeAddress, file>>
      BY <2>1 DEF Quiet, vars, header, ReadSize
    <3> QED
      BY <3>1 DEF EntryIsCode, StartOf, HunkOf
  <2>2. CASE ReadHeader
    <3>1. lastHnum = Null /\ codeAddress' = codeAddress /\ file' = file
      BY <2>2 DEF ReadHeader
    <3>2. codeAddress = Null /\ \A i \in DOMAIN file : file[i].kind = "end"
      BY <3>1 DEF Inv, HeaderInv
    <3> QED
      BY <3>1, <3>2 DEF EntryIsCode
  <2>3. CASE LoadCode \/ LoadData \/ ClearBss
    <3>1. PICK kind \in {"code", "data", "bss"}, n \in 0 .. MaxBlockSize :
              /\ Stores(kind, n)
              /\ \/ kind = "code" /\ n < MaxHunkSize /\ codeAddress' = Here
                 \/ (kind = "code" => n >= MaxHunkSize) /\ codeAddress' = codeAddress
      BY <2>3, BlockStores
    <3>2. CASE kind = "code" /\ n < MaxHunkSize /\ codeAddress' = Here
      BY <3>1, <3>2, EntryMoved
    <3>3. CASE (kind = "code" => n >= MaxHunkSize) /\ codeAddress' = codeAddress
      <4> DEFINE e == [kind |-> kind, n |-> n]
      <4>1. e \in Entry /\ file' = Append(file, e)
        BY <3>1, StoresEntry
      <4>2. ~ (e.kind = "code" /\ e.n < MaxHunkSize)
        BY <3>3, SizeAssumption
      <4>3. UNCHANGED <<codeAddress, firstHnum>>
        BY <3>1, <3>3 DEF Stores, header
      <4> HIDE DEF e
      <4> QED
        BY <4>1, <4>2, <4>3, EntryKept
    <3> QED
      BY <3>1, <3>2, <3>3
  <2>4. CASE ApplyReloc
    <3>1. PICK ref \in 0 .. lastHnum, k \in Place : Relocates(ref, k)
      BY <2>4, RelocIsRelocates
    <3> DEFINE e == [kind |-> "reloc", at |-> k, ref |-> ref]
    <3>2. /\ e \in Entry /\ file' = Append(file, e) /\ e.kind # "code"
          /\ UNCHANGED <<codeAddress, firstHnum>>
      BY <3>1, RelocatesEntry DEF Relocates, header
    <3> HIDE DEF e
    <3> QED
      BY <3>2, EntryKept
  <2>5. CASE EndHunk
    <3> DEFINE e == [kind |-> "end"]
    <3>1. /\ e \in Entry /\ file' = Append(file, e) /\ e.kind # "code"
          /\ UNCHANGED <<codeAddress, firstHnum>>
      BY <2>5 DEF EndHunk, Entry, header
    <3> HIDE DEF e
    <3> QED
      BY <3>1, EntryKept
  <2> QED
    BY <2>1, <2>2, <2>3, <2>4, <2>5, StepCases
<1> QED
  BY <1>1, <1>2, InvCorrect, PTL DEF Spec
-----------------------------------------------------------------------------
(* The memory image                                                        *)

\* Entries stay where they are when one is added for the current hunk.
LEMMA BaseOfKept ==
    ASSUME Inv, NEW e \in Entry, file' = Append(file, e), UNCHANGED firstHnum,
           NEW l, l = Len(file)
    PROVE  /\ l \in Nat /\ DOMAIN file = 1 .. l /\ DOMAIN file' = 1 .. l + 1
           /\ \A i \in 1 .. l : file'[i] = file[i]
           /\ file'[l + 1] = e
           /\ \A i \in 1 .. l : BaseOf(i)' = BaseOf(i)
           /\ BaseOf(l + 1)' = StartOf(hunkNum)
           /\ \A h : StartOf(h)' = StartOf(h)
  BY EntryHunk DEF BaseOf, StartOf

\* An entry that neither covers nor relocates a dword leaves right what was.
LEMMA WantedKept ==
    ASSUME Inv, NEW e \in Entry, file' = Append(file, e), UNCHANGED firstHnum,
           NEW a, NEW d, Wanted(d, a), NEW s, s = StartOf(hunkNum),
           ~ (e.kind \in {"code", "data", "bss"} /\ s <= a /\ a < s + e.n),
           ~ (e.kind = "reloc" /\ s + e.at = a)
    PROVE  Wanted(d, a)'
<1>1. PICK l : l = Len(file)
  OBVIOUS
<1>2. /\ l \in Nat /\ DOMAIN file = 1 .. l /\ DOMAIN file' = 1 .. l + 1
      /\ \A i \in 1 .. l : file'[i] = file[i]
      /\ file'[l + 1] = e
      /\ \A i \in 1 .. l : BaseOf(i)' = BaseOf(i)
      /\ BaseOf(l + 1)' = s
      /\ \A h : StartOf(h)' = StartOf(h)
  BY <1>1, BaseOfKept
<1>3. Covering(a)' = Covering(a)
  BY <1>2 DEF Covering
<1>4. PICK last \in Covering(a) \cup {0} :
        /\ \A i \in Covering(a) : i <= last
        /\ d.of = IF last = 0 \/ file[last].kind = "bss"
                  THEN <<0, 0>> ELSE <<last, a - BaseOf(last)>>
        /\ d.added = {<<j, StartOf(file[j].ref)>> : j \in RelocsAfter(last, a)}
  BY DEF Wanted
<1>5. last = 0 \/ last \in 1 .. l
  BY <1>2, <1>4 DEF Covering
<1>6. RelocsAfter(last, a)' = RelocsAfter(last, a)
  BY <1>2 DEF RelocsAfter
<1>7. \A j \in RelocsAfter(last, a) : StartOf(file[j].ref)' = StartOf(file[j].ref)
  BY <1>2 DEF RelocsAfter, StartOf
<1>8. d.added = {<<j, StartOf(file[j].ref)'>> : j \in RelocsAfter(last, a)'}
  BY <1>4, <1>6, <1>7
<1>9. d.of = IF last = 0 \/ file'[last].kind = "bss"
             THEN <<0, 0>> ELSE <<last, a - BaseOf(last)'>>
  BY <1>2, <1>4, <1>5
<1> QED
  BY <1>3, <1>4, <1>8, <1>9 DEF Wanted

\* A block that covers a dword is what the dword has to be.
LEMMA WantedStored ==
    ASSUME Inv, NEW kind, NEW n, Stores(kind, n), NEW a,
           Here <= a, a < Here + n, NEW d,
           d = IF kind = "bss" THEN Zero ELSE Dword(Len(file) + 1, a - Here)
    PROVE  Wanted(d, a)'
<1> DEFINE e == [kind |-> kind, n |-> n]
<1>1. e \in Entry /\ file' = Append(file, e) /\ firstHnum' = firstHnum
  BY StoresEntry DEF Stores, header
<1>2. PICK l : l = Len(file)
  OBVIOUS
<1>3. PICK s : s = StartOf(hunkNum) /\ s = Here
  BY HereIsStart DEF Stores, NewBlock
<1>4. /\ l \in Nat /\ DOMAIN file' = 1 .. l + 1
      /\ file'[l + 1] = e
      /\ BaseOf(l + 1)' = s
  BY <1>1, <1>2, <1>3, BaseOfKept
<1>5. l + 1 \in Covering(a)' /\ \A i \in Covering(a)' : i <= l + 1
  BY <1>3, <1>4 DEF Covering, Stores
<1>6. RelocsAfter(l + 1, a)' = {}
  BY <1>4 DEF RelocsAfter
<1>7. d.of = IF l + 1 = 0 \/ file'[l + 1].kind = "bss"
             THEN <<0, 0>> ELSE <<l + 1, a - BaseOf(l + 1)'>>
  BY <1>2, <1>3, <1>4 DEF Zero, Dword
<1>8. d.added = {}
  BY DEF Zero, Dword
<1>9. d.added = {<<j, StartOf(file[j].ref)'>> : j \in RelocsAfter(l + 1, a)'}
  BY <1>6, <1>8
<1> QED
  BY <1>5, <1>7, <1>9 DEF Wanted

\* A relocation adds the start of its hunk to what the dword was.
LEMMA WantedRelocated ==
    ASSUME Inv, NEW ref, NEW k, Relocates(ref, k), NEW a, a = Here + k,
           NEW d, Wanted(d, a), NEW c,
           c.of = d.of, c.added = MoreAdded(d.added, ref)
    PROVE  Wanted(c, a)'
<1> DEFINE e == [kind |-> "reloc", at |-> k, ref |-> ref]
<1>1. e \in Entry /\ file' = Append(file, e) /\ firstHnum' = firstHnum
  BY RelocatesEntry DEF Relocates, header
<1>2. PICK l : l = Len(file)
  OBVIOUS
<1>3. PICK s : s = StartOf(hunkNum) /\ s = Here
  BY HereIsStart DEF Relocates
<1>4. /\ l \in Nat /\ DOMAIN file = 1 .. l /\ DOMAIN file' = 1 .. l + 1
      /\ \A i \in 1 .. l : file'[i] = file[i]
      /\ file'[l + 1] = e
      /\ \A i \in 1 .. l : BaseOf(i)' = BaseOf(i)
      /\ BaseOf(l + 1)' = s
      /\ \A h : StartOf(h)' = StartOf(h)
  BY <1>1, <1>2, <1>3, BaseOfKept
<1>5. Covering(a)' = Covering(a)
  BY <1>4 DEF Covering
<1>6. PICK last \in Covering(a) \cup {0} :
        /\ \A i \in Covering(a) : i <= last
        /\ d.of = IF last = 0 \/ file[last].kind = "bss"
                  THEN <<0, 0>> ELSE <<last, a - BaseOf(last)>>
        /\ d.added = {<<j, StartOf(file[j].ref)>> : j \in RelocsAfter(last, a)}
  BY DEF Wanted
<1>7. last = 0 \/ last \in 1 .. l
  BY <1>4, <1>6 DEF Covering
<1>8. RelocsAfter(last, a)' = RelocsAfter(last, a) \cup {l + 1}
  BY <1>3, <1>4, <1>7 DEF RelocsAfter
<1>9. \A j \in RelocsAfter(last, a) : StartOf(file[j].ref)' = StartOf(file[j].ref)
  BY <1>1, <1>4 DEF RelocsAfter, StartOf
<1>10. StartOf(file[l + 1].ref)' = StartOf(ref)
  BY <1>1, <1>4 DEF StartOf
<1>11. c.added = {<<j, StartOf(file[j].ref)'>> : j \in RelocsAfter(last, a)'}
  BY <1>2, <1>6, <1>8, <1>9, <1>10 DEF MoreAdded
<1>12. c.of = IF last = 0 \/ file'[last].kind = "bss"
              THEN <<0, 0>> ELSE <<last, a - BaseOf(last)'>>
  BY <1>4, <1>6, <1>7
<1> QED
  BY <1>5, <1>6, <1>11, <1>12 DEF Wanted

\* ImageRight step by step.
LEMMA ImageStored ==
    ASSUME Inv, ImageRight, NEW kind, NEW n, Stores(kind, n)
    PROVE  ImageRight'
<1> DEFINE e == [kind |-> kind, n |-> n]
<1>1. e \in Entry /\ file' = Append(file, e) /\ firstHnum' = firstHnum
  BY StoresEntry DEF Stores, header
<1>2. firstHnum # Null /\ Here = StartOf(hunkNum) /\ Here \in Int
  BY HereIsStart DEF Stores, NewBlock, Address
<1>3. n \in Nat
  BY DEF Stores
<1> SUFFICES ASSUME NEW a \in Address PROVE Wanted(mem[a], a)'
  BY DEF ImageRight
<1>4. PICK d : d = mem'[a]
  OBVIOUS
<1>5. a \in Int
  BY DEF Address
<1>6. CASE Here <= a /\ a < Here + n
  <2>1. a - Here \in 0 .. n - 1
    BY <1>2, <1>3, <1>5, <1>6
  <2>2. d = IF kind = "bss" THEN Zero ELSE Dword(Len(file) + 1, a - Here)
    BY <1>4, <2>1, StoresMem
  <2>3. Wanted(d, a)'
    BY <1>6, <2>2, WantedStored
  <2> QED
    BY <1>4, <2>3 DEF Wanted
<1>7. CASE ~ (Here <= a /\ a < Here + n)
  <2>1. a - Here \notin 0 .. n - 1
    BY <1>2, <1>3, <1>5, <1>7
  <2>2. d = mem[a]
    BY <1>4, <2>1, StoresMem
  <2>3. Wanted(d, a)
    BY <2>2, <1>2 DEF ImageRight
  <2>4. e.kind # "reloc" /\ e.n = n
    BY DEF Stores
  <2>5. Wanted(d, a)'
    BY <1>1, <1>2, <1>7, <2>3, <2>4, WantedKept
  <2> QED
    BY <1>4, <2>5 DEF Wanted
<1> QED
  BY <1>6, <1>7

LEMMA ImageRelocated ==
    ASSUME Inv, ImageRight, NEW ref, NEW k, Relocates(ref, k)
    PROVE  ImageRight'
<1> DEFINE e == [kind |-> "reloc", at |-> k, ref |-> ref]
<1>1. e \in Entry /\ file' = Append(file, e) /\ firstHnum' = firstHnum
  BY RelocatesEntry DEF Relocates, header
<1>2. firstHnum # Null /\ Here = StartOf(hunkNum)
  BY HereIsStart DEF Relocates
<1> SUFFICES ASSUME NEW a \in Address PROVE Wanted(mem[a], a)'
  BY DEF ImageRight
<1>3. PICK c, d : c = mem'[a] /\ d = mem[a]
  OBVIOUS
<1>4. /\ c.of = d.of
      /\ a = Here + k => c.added = MoreAdded(d.added, ref)
      /\ a # Here + k => c.added = d.added
  BY <1>3, RelocatesMem
<1>5. Wanted(d, a)
  BY <1>2, <1>3 DEF ImageRight
<1>6. Wanted(c, a)'
  <2>1. CASE a = Here + k
    BY <1>4, <1>5, <2>1, WantedRelocated
  <2>2. CASE a # Here + k
    <3>1. Wanted(c, a)
      BY <1>4, <1>5, <2>2 DEF Wanted
    <3> QED
      BY <1>1, <1>2, <2>2, <3>1, WantedKept
  <2> QED
    BY <2>1, <2>2
<1> QED
  BY <1>3, <1>6 DEF Wanted

LEMMA ImageAtEnd == Inv /\ ImageRight /\ EndHunk => ImageRight'
<1> SUFFICES ASSUME Inv, ImageRight, EndHunk PROVE ImageRight'
  OBVIOUS
<1> DEFINE e == [kind |-> "end"]
<1>1. /\ e \in Entry /\ file' = Append(file, e) /\ e.kind = "end"
      /\ UNCHANGED <<firstHnum, mem>>
  BY DEF EndHunk, Entry, header
<1> HIDE DEF e
<1> SUFFICES ASSUME firstHnum # Null, NEW a \in Address PROVE Wanted(mem[a], a)'
  BY <1>1 DEF ImageRight
<1>2. PICK d : d = mem[a]
  OBVIOUS
<1>3. Wanted(d, a)
  BY <1>2 DEF ImageRight
<1>4. Wanted(d, a)'
  BY <1>1, <1>3, WantedKept
<1> QED
  BY <1>1, <1>2, <1>4 DEF Wanted

LEMMA ImageAtHeader == Inv /\ ReadHeader => ImageRight'
<1> SUFFICES ASSUME Inv, ReadHeader, NEW a \in Address PROVE Wanted(mem[a], a)'
  BY DEF ImageRight
<1>1. lastHnum = Null /\ mem' = mem /\ file' = file
  BY DEF ReadHeader
<1>2. mem[a] = Zero /\ \A i \in DOMAIN file : file[i].kind = "end"
  BY <1>1 DEF Inv, HeaderInv
<1>3. Covering(a)' = {} /\ RelocsAfter(0, a)' = {}
  BY <1>1, <1>2 DEF Covering, RelocsAfter
<1>4. Zero.added = {<<j, StartOf(file[j].ref)'>> : j \in RelocsAfter(0, a)'}
  BY <1>3 DEF Zero
<1>5. Wanted(Zero, a)'
  BY <1>3, <1>4 DEF Wanted, Zero
<1> QED
  BY <1>1, <1>2, <1>5 DEF Wanted

LEMMA ImageSame ==
    ASSUME ImageRight, UNCHANGED <<firstHnum, file, mem>>
    PROVE  ImageRight'
<1>1. /\ \A i : BaseOf(i)' = BaseOf(i)
      /\ \A h : StartOf(h)' = StartOf(h)
  BY DEF BaseOf, HunkOf, StartOf
<1>2. ASSUME NEW a
      PROVE  /\ Covering(a)' = Covering(a)
             /\ \A i : RelocsAfter(i, a)' = RelocsAfter(i, a)
  BY <1>1 DEF Covering, RelocsAfter
<1>3. ASSUME firstHnum # Null, NEW a \in Address PROVE Wanted(mem[a], a)'
  <2>1. Wanted(mem[a], a)
    BY <1>3 DEF ImageRight
  <2> QED
    BY <2>1, <1>1, <1>2 DEF Wanted
<1> QED
  BY <1>3 DEF ImageRight

\* At any time the hunk area is what the file read so far calls for, with blocks
\* and relocations of any size and place.
THEOREM ImageRightCorrect == Spec => []ImageRight
<1>1. Init => ImageRight
  BY DEF Init, ImageRight
<1>2. Inv /\ ImageRight /\ [Next]_vars => ImageRight'
  <2> SUFFICES ASSUME Inv, ImageRight, [Next]_vars PROVE ImageRight'
    OBVIOUS
  <2>1. CASE Quiet \/ UNCHANGED vars \/ ReadSize
    <3>1. firstHnum' = firstHnum /\ file' = file /\ mem' = mem
      BY <2>1 DEF Quiet, vars, header, ReadSize
    <3> QED
      BY <3>1, ImageSame
  <2>2. CASE LoadCode \/ LoadData \/ ClearBss
    BY <2>2, BlockStores, ImageStored
  <2>3. CASE ApplyReloc
    BY <2>3, RelocIsRelocates, ImageRelocated
  <2> QED
    BY <2>1, <2>2, <2>3, StepCases, ImageAtHeader, ImageAtEnd
<1> QED
  BY <1>1, <1>2, InvCorrect, PTL DEF Spec
=============================================================================
