------------------------- MODULE MCBuddyAllocator -------------------------
(* A 256-byte arena with the code's real header size and payload quantum:  *)
(* orders 5 to 8 are reachable, eight smallest blocks.                     *)
EXTENDS BuddyAllocator

MCSize == [o \in 0..MaxOrder |-> 2^o]

(* Zero, one block of each reachable order, the largest size accepted, one *)
(* too large, and an alignment the strategy refuses.                       *)
MCRequest == {[size |-> s, alignment |-> 0] : s \in {0, 17, 100, 240, 241}}
               \cup {[size |-> 16, alignment |-> 32]}
=============================================================================
