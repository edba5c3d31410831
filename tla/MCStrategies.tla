---------------------------- MODULE MCStrategies ----------------------------
(* The bench with small strategies on it.                                  *)
EXTENDS StrategyBench

Ask(n, a) == [size |-> n, alignment |-> a]

(* Zero, a full object, one byte more, and an alignment that is refused.   *)
MCRequest == {Ask(0, 0), Ask(ObjectSize, 16), Ask(ObjectSize + 1, 0), Ask(1, 32)}

(* Growth by two slots where the code adds eight, and a capacity that is   *)
(* no multiple of it.                                                      *)
MCFixed ==
  [object_size |-> 24, capacity |-> 5, align |-> 16, block_slots |-> 2,
   places |-> {0, 64, 160}, ids |-> 5,
   requests |-> {Ask(0, 0), Ask(24, 16), Ask(25, 0), Ask(8, 3), Ask(8, 32)}]

(* The second class repeats the first one's slot size; the limit leaves    *)
(* room for some blocks and not for one of each class.                     *)
MCClass ==
  [class_sizes |-> <<16, 24, 60>>, block_slots |-> 2, max_bytes |-> 200,
   max_allocation |-> 100, places |-> {0, 256, 512}, ids |-> 4,
   requests |-> {Ask(0, 0), Ask(20, 16), Ask(60, 256), Ask(61, 0), Ask(16, 24)}]

(* A largest alignment of 64 instead of 4096.                              *)
MCArena ==
  [block_size |-> 64, max_bytes |-> 200, max_allocation |-> 150, block_align |-> 64,
   default |-> 16, places |-> {0, 64, 192}, ids |-> 3,
   requests |-> {Ask(0, 0), Ask(1, 1), Ask(20, 64), Ask(70, 0), Ask(151, 0), Ask(8, 128)}]

(* The code's header of 16 and least block of 24, in superblocks of 128:   *)
(* requests for a whole superblock with too small a remainder, for half of *)
(* one, for less, and for more than one.                                   *)
MCSegregated ==
  [superblock_size |-> 128, max_bytes |-> 300, max_allocation |-> 250, header_size |-> 16,
   min_block |-> 24, default |-> 16, places |-> {0, 512}, ids |-> 3,
   requests |-> {Ask(0, 0), Ask(40, 16), Ask(90, 0), Ask(120, 0), Ask(251, 0), Ask(8, 32)}]

MCHeapRequest == {Ask(0, 0), Ask(16, 4), Ask(20, 32), Ask(0, 48), Ask(33, 0)}

MCSystem ==
  [realigns |-> FALSE, max_align |-> 16, max_allocation |-> 32, default |-> 16,
   pointer_size |-> 8, places |-> {16, 32, 64}, max_requested |-> 60, ids |-> 2,
   requests |-> MCHeapRequest]

MCAligned == [MCSystem EXCEPT !.realigns = TRUE, !.max_align = 32, !.ids = 3]

(* The driver aligns to 16 where CUDA aligns to 256; a budget of 32.       *)
MCDirect ==
  [pinned |-> FALSE, trims |-> FALSE, budget |-> 32, driver_align |-> 16, max_align |-> 16,
   places |-> {16, 32, 64}, errors |-> {"out_of_memory", "operation_failed"}, ids |-> 3,
   requests |-> {Ask(0, 0), Ask(12, 16), Ask(20, 64), Ask(33, 0), Ask(8, 3)}]

MCPool == [MCDirect EXCEPT !.trims = TRUE]
MCPinned == [MCDirect EXCEPT !.pinned = TRUE, !.max_align = 64]
=============================================================================
