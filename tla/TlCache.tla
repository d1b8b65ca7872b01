------------------------------ MODULE TlCache -------------------------------
(***************************************************************************)
(* The translation cache of tlcache.c: a binary tree whose path from the   *)
(* root to a slot spells the bits of a source address, most significant    *)
(* bit first.  One step is one iteration of the loop of tc_put_addr() or   *)
(* tc_get_addr(), so that a put can fail half-way down.                    *)
(***************************************************************************)
EXTENDS Naturals, Sequences

CONSTANTS Bits,       \* NUM_SOURCE_ADDR_BITS (21; 3 in the unit test)
          MaxNodes,   \* nodes the heap has room for, the root included
          NBlocks,    \* MAX_CODE_SIZE / MAX_CODE_BLOCK_SIZE
          RootSlots,  \* what the slots of a node fresh from malloc() may hold
          Null,       \* the null pointer
          Garbage     \* any other value of uninitialized memory

ASSUME TlCacheAssumption ==
    /\ Bits \in Nat /\ Bits >= 2
    /\ MaxNodes \in Nat \ {0}
    /\ NBlocks \in Nat
    /\ RootSlots \subseteq {Null, Garbage}
    /\ Null # Garbage

Node  == 1 .. MaxNodes
Root  == 1
Block == 0 .. NBlocks - 1

\* An address is the sequence of its bits; TRUE goes left, FALSE right.
SrcAddr == [1 .. Bits -> BOOLEAN]

\* A slot holds a pointer to a node or, at the last level, to a code block.
ToNode(n)  == [node |-> n]
ToBlock(b) == [block |-> b]
ToNodes    == {ToNode(n) : n \in Node}
ToBlocks   == {ToBlock(b) : b \in Block}
Slot       == {Null, Garbage} \cup ToNodes \cup ToBlocks

ASSUME NullAssumption == {Null, Garbage} \cap (ToNodes \cup ToBlocks) = {}

VARIABLES
    child,      \* [node -> [bit -> slot]]: p_left_node (TRUE), p_right_node
    nodes,      \* nodes allocated
    nextBlock,  \* p_next_code_block
    op,         \* the call in progress: "get", "put", "idle", or "crashed"
    addr, dst,  \* its arguments
    node,       \* node reached
    depth,      \* bit to look at: 1 for the most significant
    done        \* the last call completed and its result

call == <<addr, dst, node, depth>>
vars == <<child, nodes, nextBlock, op, call, done>>

\* The bit selected and the slot pp_curr_node points to.
Bit  == addr[depth]
Here == child[node][Bit]

\* Between calls the local variables have no value; it is kept at this one.
NoCall == <<[d \in 1 .. Bits |-> FALSE], Null, Root, 1>>

\* tc_init(): the root node comes from malloc() and is not cleared; memory
\* not yet allocated may hold anything.
Init ==
    /\ \E l, r \in RootSlots :
          child = [n \in Node |-> [b \in BOOLEAN |->
                      IF n # Root THEN Garbage ELSE IF b THEN l ELSE r]]
    /\ nodes = 1
    /\ nextBlock = 0
    /\ op = "idle"
    /\ addr = NoCall[1] /\ dst = NoCall[2] /\ node = NoCall[3] /\ depth = NoCall[4]
    /\ done = [op |-> "init"]

-----------------------------------------------------------------------------
\* Mutant: one block too many.
BlockLeftOffByOne == nextBlock <= NBlocks

BlockLeft == nextBlock < NBlocks

TcGetCodeBlock ==
    /\ op = "idle"
    /\ \/ /\ BlockLeft
          /\ nextBlock' = nextBlock + 1
          /\ done' = [op |-> "block", r |-> nextBlock]
       \/ /\ ~BlockLeft
          /\ done' = [op |-> "block", r |-> Null]
          /\ UNCHANGED nextBlock
    /\ UNCHANGED <<child, nodes, op, call>>

Start(name, a, b) ==
    /\ op = "idle"
    /\ op' = name
    /\ addr' = a /\ dst' = b
    /\ node' = Root /\ depth' = 1
    /\ UNCHANGED <<child, nodes, nextBlock, done>>

\* setup_tu() puts a block right after tc_get_code_block() has handed it out.
StartGet == \E a \in SrcAddr : Start("get", a, Null)
StartPut ==
    /\ done.op = "block" /\ done.r # Null
    /\ \E a \in SrcAddr : Start("put", a, done.r)

Finish(r) ==
    /\ op' = "idle"
    /\ done' = [op |-> op, a |-> addr, r |-> r]
    /\ addr' = NoCall[1] /\ dst' = NoCall[2] /\ node' = NoCall[3] /\ depth' = NoCall[4]
    /\ UNCHANGED <<nodes, nextBlock>>

\* One level down an existing node.
Descend ==
    /\ op \in {"get", "put"}
    /\ depth < Bits
    /\ \E n \in Node : Here = ToNode(n) /\ node' = n
    /\ depth' = depth + 1
    /\ UNCHANGED <<child, nodes, nextBlock, op, addr, dst, done>>

\* Following an uninitialized pointer.
Crash ==
    /\ op \in {"get", "put"}
    /\ depth < Bits
    /\ Here = Garbage
    /\ op' = "crashed"
    /\ UNCHANGED <<child, nodes, nextBlock, call, done>>

-----------------------------------------------------------------------------
(* tc_get_addr()                                                           *)

\* Mutant: NULL only looked for in the last slot.
GetMissLate ==
    /\ op = "get"
    /\ depth = Bits
    /\ Here = Null
    /\ Finish(Null)
    /\ UNCHANGED child

GetMiss ==
    /\ op = "get"
    /\ Here = Null
    /\ Finish(Null)
    /\ UNCHANGED child

GetHit ==
    /\ op = "get"
    /\ depth = Bits
    /\ \E b \in Block : Here = ToBlock(b) /\ Finish(b)
    /\ UNCHANGED child

-----------------------------------------------------------------------------
(* tc_put_addr()                                                           *)

\* Mutant: a node is allocated even if there is one.
PutNewNodeAlways ==
    /\ op = "put"
    /\ depth < Bits
    /\ nodes < MaxNodes
    /\ nodes' = nodes + 1
    /\ child' = [child EXCEPT ![node][Bit] = ToNode(nodes + 1),
                              ![nodes + 1] = [b \in BOOLEAN |-> Null]]
    /\ node' = nodes + 1
    /\ depth' = depth + 1
    /\ UNCHANGED <<nextBlock, op, addr, dst, done>>

\* A node missing on the path is allocated and cleared.
PutNewNode ==
    /\ op = "put"
    /\ depth < Bits
    /\ Here = Null
    /\ nodes < MaxNodes
    /\ nodes' = nodes + 1
    /\ child' = [child EXCEPT ![node][Bit] = ToNode(nodes + 1),
                              ![nodes + 1] = [b \in BOOLEAN |-> Null]]
    /\ node' = nodes + 1
    /\ depth' = depth + 1
    /\ UNCHANGED <<nextBlock, op, addr, dst, done>>

\* malloc() may fail any time; the nodes made so far stay in the tree.
PutMallocFails ==
    /\ op = "put"
    /\ depth < Bits
    /\ Here = Null
    /\ Finish(FALSE)
    /\ UNCHANGED child

\* Mutant: the LSB of the address selects the wrong slot.
PutStoreSwapped ==
    /\ op = "put"
    /\ depth = Bits
    /\ child' = [child EXCEPT ![node][~Bit] = ToBlock(dst)]
    /\ Finish(TRUE)

PutStore ==
    /\ op = "put"
    /\ depth = Bits
    /\ child' = [child EXCEPT ![node][Bit] = ToBlock(dst)]
    /\ Finish(TRUE)

-----------------------------------------------------------------------------
Calls == TcGetCodeBlock \/ StartGet \/ StartPut
Steps == Descend \/ Crash \/ GetMiss \/ GetHit
         \/ PutNewNode \/ PutMallocFails \/ PutStore

\* After the crash there is no process left to take a step.
Ended == op = "crashed" /\ UNCHANGED vars

Next == Calls \/ Steps \/ Ended

Spec     == Init /\ [][Next]_vars
FairSpec == Spec /\ WF_vars(Steps)

-----------------------------------------------------------------------------
(* Properties                                                              *)

TypeOK ==
    /\ child \in [Node -> [BOOLEAN -> Slot]]
    /\ nodes \in Node
    /\ nextBlock \in 0 .. NBlocks
    /\ op \in {"idle", "get", "put", "crashed"}
    /\ addr \in SrcAddr
    /\ dst \in Block \cup {Null}
    /\ node \in 1 .. nodes
    /\ depth \in 1 .. Bits

\* The slots are pointers of one C type whatever level they are on.  What a
\* walk down a tree for address a comes to after each bit, Null behind a slot
\* that is no pointer to a node.
Follow(tree, s, b) == IF s \in ToNodes THEN tree[s.node][b] ELSE Null
Walk(tree, a) ==
    LET at[d \in 0 .. Bits] ==
            IF d = 0 THEN ToNode(Root) ELSE Follow(tree, at[d - 1], a[d])
    IN  at

\* The block it finds.
LookupIn(tree, a) ==
    IF Walk(tree, a)[Bits] \in ToBlocks THEN Walk(tree, a)[Bits].block ELSE Null
Lookup(a) == LookupIn(child, a)

\* The nodes form a tree: every one allocated after the root hangs in exactly one
\* slot, that of an older node, even if the put that made it failed further down,
\* and no slot points to a node that has not been allocated (tc_put_addr()).
TreeShape ==
    /\ \A n \in 2 .. nodes :
          \E m \in 1 .. n - 1, b \in BOOLEAN :
             /\ child[m][b] = ToNode(n)
             /\ \A m2 \in Node, b2 \in BOOLEAN :
                   child[m2][b2] = ToNode(n) => m2 = m /\ b2 = b
    /\ \A m \in Node, b \in BOOLEAN, n \in nodes + 1 .. MaxNodes :
          child[m][b] # ToNode(n)

\* The tree behaves as the map setup_tu() takes it for: a put changes the
\* block of its own address and of no other, also when it grows the tree, a
\* put that fails half-way changes none, a get finds the last block put, and
\* block pointers are never taken for nodes.  A crash ends the calls.
CacheMap == INSTANCE AddressMap WITH map <- [a \in SrcAddr |-> Lookup(a)],
                                     NoBlock <- Null
ImplementsMap == CacheMap!Spec

\* Every call comes back, or crashes in a root slot never cleared.
CallsEnd == op \in {"get", "put"} ~> op \notin {"get", "put"}

\* The comment on tc_get_addr(): NULL if the source address does not exist.
AbsentGivesNull ==
    [][ op = "get" /\ op' # "get" /\ Lookup(addr) = Null =>
            op' = "idle" /\ done'.r = Null ]_vars
=============================================================================
