----------------------------- MODULE AddressMap -----------------------------
(***************************************************************************)
(* What the translation cache promises to setup_tu() and translate_tu():   *)
(* a map from source addresses to code blocks, and code blocks handed out  *)
(* one after the other.  Each call is one step; "done" shows the last call *)
(* completed and its result.                                               *)
(***************************************************************************)
EXTENDS Naturals

CONSTANTS SrcAddr,   \* source addresses
          NBlocks,   \* code blocks there are
          NoBlock    \* the null pointer

VARIABLES map, nextBlock, done

vars == <<map, nextBlock, done>>

Handed == 0 .. nextBlock - 1

Init ==
    /\ map = [a \in SrcAddr |-> NoBlock]
    /\ nextBlock = 0
    /\ done = [op |-> "init"]

\* The block mapped, or NoBlock if the address is not in the cache.
Get(a) ==
    /\ done' = [op |-> "get", a |-> a, r |-> map[a]]
    /\ UNCHANGED <<map, nextBlock>>

\* A new mapping, or an existing one replaced.
Put(a, b) ==
    /\ map' = [map EXCEPT ![a] = b]
    /\ done' = [op |-> "put", a |-> a, r |-> TRUE]
    /\ UNCHANGED nextBlock

\* Out of memory: the map is as before, for this and every other address.
PutFails(a) ==
    /\ done' = [op |-> "put", a |-> a, r |-> FALSE]
    /\ UNCHANGED <<map, nextBlock>>

GetCodeBlock ==
    \/ /\ nextBlock < NBlocks
       /\ nextBlock' = nextBlock + 1
       /\ done' = [op |-> "block", r |-> nextBlock]
       /\ UNCHANGED map
    \/ /\ nextBlock = NBlocks
       /\ done' = [op |-> "block", r |-> NoBlock]
       /\ UNCHANGED <<map, nextBlock>>

Next ==
    \/ \E a \in SrcAddr : Get(a) \/ PutFails(a)
    \/ \E a \in SrcAddr, b \in Handed : Put(a, b)
    \/ GetCodeBlock

Spec == Init /\ [][Next]_vars
=============================================================================
