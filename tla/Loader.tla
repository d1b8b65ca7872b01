------------------------------- MODULE Loader -------------------------------
(***************************************************************************)
(* load_program(): reading a hunk file block by block into the hunk area.  *)
(*                                                                         *)
(* The file is made up while it is read: any blocks in any order, also ones *)
(* that are larger than a hunk's place.  Sizes, places and addresses count  *)
(* dwords; address 0 is HUNK_START_ADDRESS.  The model stops ("odd") where   *)
(* the loader uses a hunk's address that it has not stored, at a relocation *)
(* that is not on a dword's boundary, and at a second header.               *)
(***************************************************************************)
EXTENDS Integers, Sequences, FiniteSets

CONSTANTS MaxHunks,      \* MAX_HUNKS
          MaxHunkSize,   \* MAX_HUNK_SIZE in dwords
          MaxBlockSize,  \* largest block of a file in dwords
          MaxBlocks,     \* blocks of a file
          MaxRelocs,     \* relocations of a file
          Null           \* a pointer or hunk there is not

ASSUME SizeAssumption ==
    /\ MaxHunks \in Nat \ {0} /\ MaxHunkSize \in Nat \ {0}
    /\ MaxBlockSize \in Nat \ {0}
    /\ MaxBlocks \in Nat /\ MaxRelocs \in Nat
    /\ Null \notin Nat

\* Places count from the start of a hunk; they may be beyond its end.
Hunk     == 0 .. MaxHunks - 1
Place    == 0 .. MaxBlockSize - 1
AreaSize == MaxHunks * MaxHunkSize
Address  == 0 .. AreaSize - 1

\* A dword of memory: what the n-th block of the file has at place k, and the
\* addresses that relocations have added to it, each with its place in the file;
\* or zero.
Dword(n, k) == [of |-> <<n, k>>, added |-> {}]
Zero        == [of |-> <<0, 0>>, added |-> {}]

VARIABLES phase,          \* where load_program() is
          left,           \* blocks of the file that are not read yet
          handler,        \* whose handler of SIGSEGV is installed
          hunkAddresses,  \* hunk_addresses[]
          nextHnum,       \* i in the loop that reads the hunks' sizes
          hunkNum,        \* hunk_num
          lastHnum,       \* last_hnum, or Null before the header
          mem,            \* the hunk area
          codeAddress,    \* *code_address
          firstHnum,      \* history: first_hnum
          file            \* history: blocks, relocations and ENDs read

header == <<hunkAddresses, nextHnum, lastHnum, firstHnum>>
vars   == <<phase, left, handler, header, hunkNum, mem, codeAddress, file>>

Phase == {"start", "blocks", "sizes", "relocs", "loaded", "failed", "segv", "odd"}

Init ==
    /\ phase = "start"
    /\ left \in 0 .. MaxBlocks
    /\ handler = "previous"
    /\ hunkAddresses = [h \in Hunk |-> Null]
    /\ nextHnum = 0
    /\ hunkNum = 0
    /\ lastHnum = Null
    /\ mem = [a \in Address |-> Zero]
    /\ codeAddress = Null
    /\ firstHnum = Null
    /\ file = <<>>

\* load_program() returns false.
Fails == phase' = "failed"

-----------------------------------------------------------------------------
\* sigaction(), open(), fstat() and mmap() of the file: each may fail, the last
\* one always does for an empty file.
Start ==
    /\ phase = "start"
    /\ \/ Fails /\ handler' = handler
       \/ Fails /\ handler' = "loader"
       \/ left > 0 /\ phase' = "blocks" /\ handler' = "loader"
    /\ UNCHANGED <<left, header, hunkNum, mem, codeAddress, file>>

NextBlock == phase = "blocks" /\ left > 0 /\ left' = left - 1

\* The number of hunks is unsigned: less than none are too many.
ReadHeader ==
    /\ NextBlock
    /\ lastHnum = Null
    /\ \E first \in 0 .. MaxHunks, last \in 0 .. MaxHunks :
          \/ /\ last - first + 1 \notin 0 .. MaxHunks
             /\ Fails
             /\ UNCHANGED <<firstHnum, nextHnum, lastHnum>>
          \/ /\ last - first + 1 \in 0 .. MaxHunks /\ last \in Hunk
             /\ phase' = IF first <= last THEN "sizes" ELSE "blocks"
             /\ firstHnum' = first /\ nextHnum' = first /\ lastHnum' = last
    /\ UNCHANGED <<handler, hunkAddresses, hunkNum, mem, codeAddress, file>>

\* Resident libraries, or no memory for the hunk area.
RejectHeader ==
    /\ NextBlock
    /\ lastHnum = Null
    /\ Fails
    /\ UNCHANGED <<handler, header, hunkNum, mem, codeAddress, file>>

\* Mutant: one size too many is read.
LastSizeLate == nextHnum > lastHnum
LastSize     == nextHnum = lastHnum

\* The size of the next hunk, which is given its place in the hunk area.  The
\* size itself is used for nothing else.
ReadSize ==
    /\ phase = "sizes"
    /\ \/ /\ Fails
          /\ UNCHANGED header
       \/ /\ hunkAddresses' = [hunkAddresses EXCEPT
                                  ![nextHnum] = (nextHnum - firstHnum) * MaxHunkSize]
          /\ nextHnum' = nextHnum + 1
          /\ phase' = IF LastSize THEN "blocks" ELSE "sizes"
          /\ UNCHANGED <<lastHnum, firstHnum>>
    /\ UNCHANGED <<left, handler, hunkNum, mem, codeAddress, file>>

\* The address of the current hunk, if it has been stored.
Here == IF hunkNum \in Hunk THEN hunkAddresses[hunkNum] ELSE Null

\* The next block is one of n dwords for the current hunk.  Whether they fit its
\* place is not asked, but behind the last hunk nothing is mapped.
NewBlock(kind, n) ==
    /\ NextBlock
    /\ Here # Null
    /\ Here + n <= AreaSize
    /\ file' = Append(file, [kind |-> kind, n |-> n])

\* Memory with these dwords, counted from 0, written from the current hunk on.
Written(dwords) ==
    [b \in Address |-> IF b - Here \in DOMAIN dwords THEN dwords[b - Here] ELSE mem[b]]
Copied(n)  == Written([k \in 0 .. n - 1 |-> Dword(Len(file) + 1, k)])
Cleared(n) == Written([k \in 0 .. n - 1 |-> Zero])

\* The size is checked after the copy: there is no room for an RTS behind it.
LoadCode ==
    /\ \E n \in 0 .. MaxBlockSize :
          /\ NewBlock("code", n)
          /\ mem' = Copied(n)
          /\ \/ n > MaxHunkSize - 1  /\ Fails /\ codeAddress' = codeAddress
             \/ n <= MaxHunkSize - 1 /\ phase' = phase /\ codeAddress' = Here
    /\ UNCHANGED <<handler, header, hunkNum>>

\* Mutant: the start address is set for every block that is copied.
LoadDataSetsEntry ==
    /\ \E n \in 0 .. MaxBlockSize : NewBlock("data", n) /\ mem' = Copied(n)
    /\ codeAddress' = Here
    /\ UNCHANGED <<phase, handler, header, hunkNum>>

LoadData ==
    /\ \E n \in 0 .. MaxBlockSize : NewBlock("data", n) /\ mem' = Copied(n)
    /\ UNCHANGED <<phase, handler, header, hunkNum, codeAddress>>

ClearBss ==
    /\ \E n \in 0 .. MaxBlockSize : NewBlock("bss", n) /\ mem' = Cleared(n)
    /\ UNCHANGED <<phase, handler, header, hunkNum, codeAddress>>

StartRelocs ==
    /\ NextBlock
    /\ phase' = "relocs"
    /\ UNCHANGED <<handler, header, hunkNum, mem, codeAddress, file>>

\* Mutant: the address added is that of the hunk being relocated.
AddedOwnHunk(ref) == Here
Added(ref)        == hunkAddresses[ref]

\* The next entry: the dword at place k refers to hunk ref.  The place is not
\* checked.
ApplyReloc ==
    /\ phase = "relocs"
    /\ Here # Null
    /\ Cardinality({i \in DOMAIN file : file[i].kind = "reloc"}) < MaxRelocs
    /\ \E ref \in 0 .. lastHnum, k \in Place :
          /\ hunkAddresses[ref] # Null /\ Here + k < AreaSize
          /\ mem' = [mem EXCEPT ![Here + k].added =
                                   @ \cup {<<Len(file) + 1, Added(ref)>>}]
          /\ file' = Append(file, [kind |-> "reloc", at |-> k, ref |-> ref])
    /\ UNCHANGED <<phase, left, handler, header, hunkNum, codeAddress>>

\* The hunk referred to is beyond the last, or the dword is too large.
RejectReloc ==
    /\ phase = "relocs"
    /\ Fails
    /\ UNCHANGED <<left, handler, header, hunkNum, mem, codeAddress, file>>

EndRelocs ==
    /\ phase = "relocs"
    /\ phase' = "blocks"
    /\ UNCHANGED <<left, handler, header, hunkNum, mem, codeAddress, file>>

\* HUNK_SYMBOL, HUNK_DEBUG
SkipBlock ==
    /\ NextBlock
    /\ UNCHANGED <<phase, handler, header, hunkNum, mem, codeAddress, file>>

EndHunk ==
    /\ NextBlock
    /\ hunkNum' = hunkNum + 1
    /\ file' = Append(file, [kind |-> "end"])
    /\ UNCHANGED <<phase, handler, header, mem, codeAddress>>

UnknownBlock ==
    /\ NextBlock
    /\ Fails
    /\ UNCHANGED <<handler, header, hunkNum, mem, codeAddress, file>>

\* memcpy(), memset() or a relocation reaches the end of the hunk area: the
\* loader's own handler ends the process, with the memory written so far.
BeyondArea ==
    /\ \/ NextBlock
       \/ phase = "relocs" /\ left' = left
    /\ Here # Null /\ Here + MaxBlockSize > AreaSize
    /\ phase' = "segv"
    /\ UNCHANGED <<handler, header, hunkNum, mem, codeAddress, file>>

\* The file is not followed any further.
OddBlock ==
    /\ \/ NextBlock
       \/ phase = "relocs" /\ left' = left
    /\ phase' = "odd"
    /\ UNCHANGED <<handler, header, hunkNum, mem, codeAddress, file>>

\* The last block goes beyond the end of the file: beyond its last page the
\* loader's own handler ends the process, before that there are zeroes.
Truncated ==
    /\ NextBlock /\ left' = 0
    /\ phase' \in {"segv", "odd"}
    /\ UNCHANGED <<handler, header, hunkNum, mem, codeAddress, file>>

\* Mutant: the handler stays.
EndOfFileKeepsHandler ==
    /\ phase = "blocks" /\ left = 0
    /\ phase' = "loaded"
    /\ UNCHANGED <<left, handler, header, hunkNum, mem, codeAddress, file>>

EndOfFile ==
    /\ phase = "blocks" /\ left = 0
    /\ \/ phase' = "loaded" /\ handler' = "previous"
       \/ Fails /\ handler' = handler
    /\ UNCHANGED <<left, header, hunkNum, mem, codeAddress, file>>

Blocks == ReadHeader \/ RejectHeader \/ LoadCode \/ LoadData \/ ClearBss
          \/ StartRelocs \/ SkipBlock \/ EndHunk \/ UnknownBlock \/ BeyondArea
          \/ OddBlock \/ Truncated

Ended == phase \in {"loaded", "failed", "segv", "odd"} /\ UNCHANGED vars

Next == Start \/ Blocks \/ ReadSize \/ ApplyReloc \/ RejectReloc \/ EndRelocs
        \/ EndOfFile \/ Ended

Spec == Init /\ [][Next]_vars

-----------------------------------------------------------------------------
(* What the file says                                                      *)

\* The hunk that the i-th entry of the file is for.
HunkOf(i) == Cardinality({j \in 1 .. i - 1 : file[j].kind = "end"})

\* Where the header puts a hunk: the first one at the start of the hunk area.
StartOf(h) == (h - firstHnum) * MaxHunkSize

\* Where the i-th entry of the file counts its places from.
BaseOf(i) == StartOf(HunkOf(i))

\* The blocks with contents or zeroes for an address, in their own hunk's place
\* or in that of another hunk which they reach into.
Covering(a) ==
    {i \in DOMAIN file : /\ file[i].kind \in {"code", "data", "bss"}
                         /\ BaseOf(i) <= a /\ a < BaseOf(i) + file[i].n}

\* The relocations of the dword there behind the i-th entry of the file.
RelocsAfter(i, a) ==
    {j \in DOMAIN file : /\ j > i /\ file[j].kind = "reloc"
                         /\ BaseOf(j) + file[j].at = a}

\* The dword has to be that of the last block which covers its address, with the
\* start of each hunk added that a later relocation calls for.
Wanted(d, a) ==
    \E last \in Covering(a) \cup {0} :
        /\ \A i \in Covering(a) : i <= last
        /\ d.of = IF last = 0 \/ file[last].kind = "bss"
                  THEN <<0, 0>> ELSE <<last, a - BaseOf(last)>>
        /\ d.added = {<<j, StartOf(file[j].ref)>> : j \in RelocsAfter(last, a)}

-----------------------------------------------------------------------------
(* Properties                                                              *)

Entry == [kind : {"code", "data", "bss"}, n : 0 .. MaxBlockSize]
         \cup [kind : {"reloc"}, at : Place, ref : Hunk] \cup [kind : {"end"}]

\* Types.
TypeOK ==
    /\ phase \in Phase
    /\ left \in 0 .. MaxBlocks
    /\ handler \in {"previous", "loader"}
    /\ hunkAddresses \in [Hunk -> Address \cup {Null}]
    /\ nextHnum \in 0 .. MaxHunks
    /\ hunkNum \in 0 .. MaxBlocks
    /\ lastHnum \in Hunk \cup {Null} /\ firstHnum \in (0 .. MaxHunks) \cup {Null}
    /\ mem \in [Address -> [of : (0 .. Len(file)) \X Place,
                            added : SUBSET ((1 .. Len(file)) \X Address)]]
    /\ codeAddress \in Address \cup {Null}
    /\ file \in Seq(Entry)

\* At any time, and so when load_program() returns, the hunk area is what the
\* file read so far calls for: each block is where its hunk begins, whatever the
\* hunks are numbered from and however many blocks they have; each relocation
\* has the address of the hunk it refers to, read or not.  A block or relocation
\* that does not fit its hunk is in the next one, over what was there before and
\* under what is read later, for nothing checks it (memcpy, memset, the
\* relocation loop).
ImageRight == firstHnum # Null => \A a \in Address : Wanted(mem[a], a)

\* The start address given to main() is that of the hunk of the last code block
\* that was accepted, which leaves room for an RTS; none is given without one.
EntryIsCode ==
    LET code == {i \in DOMAIN file : file[i].kind = "code" /\ file[i].n < MaxHunkSize}
    IN  IF code = {} THEN codeAddress = Null
        ELSE \E i \in code : /\ \A j \in code : j <= i
                             /\ codeAddress = StartOf(HunkOf(i))

\* Reading beyond the file always meets the loader's own handler, and a program
\* that has been loaded never runs under it: the supervisor must see the signal
\* of a guest that reads where nothing is mapped.
HandlerInForce ==
    /\ phase \in {"blocks", "sizes", "relocs", "segv"} => handler = "loader"
    /\ phase = "loaded" => handler = "previous"
=============================================================================
