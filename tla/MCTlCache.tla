----------------------------- MODULE MCTlCache ------------------------------
(* Instances of TlCache for TLC: RootSlots as a set of model values. *)
EXTENDS TlCache

Uncleared == {Null, Garbage}
=============================================================================
