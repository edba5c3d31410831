------------------------ MODULE MCFreeListAllocator ------------------------
(* The code's header, footer, minimum block and quantum, with superblocks  *)
(* of 256 bytes: three smallest blocks, the last one larger than asked.    *)
EXTENDS FreeListAllocator

Ask(n) == [size |-> n, alignment |-> 0]

(* A smallest block, a middle one, one larger than a superblock, one over  *)
(* the size limit and one with an alignment the strategy refuses.          *)
MCRequest == {Ask(0), Ask(40), Ask(200), Ask(1000),
              [size |-> 16, alignment |-> 32]}

MCPlaces == {10000, 20000}
=============================================================================
