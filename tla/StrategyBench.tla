--------------------------- MODULE StrategyBench ---------------------------
(***************************************************************************)
(* The smaller strategies, one at a time: `strategy` says which is on the  *)
(* bench, and every step is a step of that one.  Strategies are never on   *)
(* the bench together, so variables of one name serve them all.            *)
(***************************************************************************)
EXTENDS SlabAllocator

(* The constants of each strategy other than the slab, as one record.      *)
CONSTANTS Strategies,      \* the strategies to put on the bench
          FixedSetup, ClassSetup, ArenaSetup, SegregatedSetup,
          SystemSetup, AlignedSetup, DirectSetup, PoolSetup, PinnedSetup

VARIABLES strategy,
          blocks, free_list, total_slots, closed,           \* fixed pool, arena
          class_blocks, class_free_list,                    \* size-class pool
          base, current, cap,                               \* arena
          superblocks, header, bins,                        \* segregated fit
          driver, leaked                                    \* CUDA, pinned

Fixed == INSTANCE FixedPool
           WITH ObjectSize <- FixedSetup.object_size, Capacity <- FixedSetup.capacity,
                Align <- FixedSetup.align, BlockSlots <- FixedSetup.block_slots,
                BlockBases <- FixedSetup.places, Request <- FixedSetup.requests,
                MaxIds <- FixedSetup.ids

Class == INSTANCE SizeClassPool
           WITH ClassSizes <- ClassSetup.class_sizes, BlockSlots <- ClassSetup.block_slots,
                MaxBytes <- ClassSetup.max_bytes, MaxAllocation <- ClassSetup.max_allocation,
                BlockBases <- ClassSetup.places, Request <- ClassSetup.requests,
                MaxIds <- ClassSetup.ids,
                blocks <- class_blocks, free_list <- class_free_list

Arena == INSTANCE ArenaAllocator
           WITH BlockSize <- ArenaSetup.block_size, MaxBytes <- ArenaSetup.max_bytes,
                MaxAllocation <- ArenaSetup.max_allocation,
                BlockAlign <- ArenaSetup.block_align, Default <- ArenaSetup.default,
                BlockBases <- ArenaSetup.places, Request <- ArenaSetup.requests,
                MaxIds <- ArenaSetup.ids

Segregated == INSTANCE SegregatedAllocator
                WITH SuperblockSize <- SegregatedSetup.superblock_size,
                     MaxBytes <- SegregatedSetup.max_bytes,
                     MaxAllocation <- SegregatedSetup.max_allocation,
                     HeaderSize <- SegregatedSetup.header_size,
                     MinBlock <- SegregatedSetup.min_block,
                     Default <- SegregatedSetup.default,
                     SuperblockBases <- SegregatedSetup.places,
                     Request <- SegregatedSetup.requests, MaxIds <- SegregatedSetup.ids

(* SystemAllocator with SystemSetup, AlignedAllocator with AlignedSetup.   *)
Heap(setup) == INSTANCE HeapAllocator
                 WITH Realigns <- setup.realigns, MaxAlign <- setup.max_align,
                      MaxAllocation <- setup.max_allocation, Default <- setup.default,
                      PointerSize <- setup.pointer_size, Addresses <- setup.places,
                      MaxRequested <- setup.max_requested, MaxIds <- setup.ids,
                      Request <- setup.requests

(* CudaDirectAllocator, CudaPoolAllocator, PinnedAllocator.                *)
Device(setup) == INSTANCE DeviceAllocator
                   WITH Pinned <- setup.pinned, Trims <- setup.trims,
                        Budget <- setup.budget, DriverAlign <- setup.driver_align,
                        MaxAlign <- setup.max_align, Addresses <- setup.places,
                        DriverErrors <- setup.errors, Request <- setup.requests,
                        MaxIds <- setup.ids

ASSUME StrategyAssumptions ==
  /\ Strategies \subseteq {"slab", "fixed_pool", "size_class_pool", "arena",
                           "segregated_fit", "system", "aligned", "cuda_direct", "cuda_pool",
                           "pinned"}
  /\ Fixed!Assumptions /\ Class!Assumptions /\ Arena!Assumptions /\ Segregated!Assumptions
  /\ Heap(SystemSetup)!Assumptions /\ Heap(AlignedSetup)!Assumptions
  /\ Device(DirectSetup)!Assumptions /\ Device(PoolSetup)!Assumptions
  /\ Device(PinnedSetup)!Assumptions

(* Variables that only one strategy uses, and those a few of them share.   *)
slab_only == <<slabs, growth, recovered>>
fixed_only == <<free_list, total_slots, closed>>
class_only == <<class_blocks, class_free_list>>
arena_only == <<base, current, cap>>
segregated_only == <<superblocks, header, bins>>
device_only == <<driver, leaked>>
hosted == <<strategy, device_only>>
bench == <<hosted, vars, fixed_only, class_only, arena_only, segregated_only, blocks>>

(* All strategies start empty.                                             *)
BenchInit ==
  /\ strategy \in Strategies
  /\ Init /\ Fixed!Init /\ Class!Init /\ Arena!Init /\ Segregated!Init
  /\ Heap(SystemSetup)!Init /\ Device(DirectSetup)!Init

SlabStep ==
  /\ strategy = "slab" /\ Next
  /\ UNCHANGED <<hosted, fixed_only, class_only, arena_only, segregated_only, blocks>>

FixedStep ==
  /\ strategy = "fixed_pool" /\ Fixed!Next
  /\ UNCHANGED <<hosted, slab_only, class_only, arena_only, segregated_only,
                 total_bytes, requested, granted>>

ClassStep ==
  /\ strategy = "size_class_pool" /\ Class!Next
  /\ UNCHANGED <<hosted, slab_only, fixed_only, arena_only, segregated_only, blocks>>

ArenaStep ==
  /\ strategy = "arena" /\ Arena!Next
  /\ UNCHANGED <<hosted, slab_only, fixed_only, class_only, segregated_only, total_bytes>>

SegregatedStep ==
  /\ strategy = "segregated_fit" /\ Segregated!Next
  /\ UNCHANGED <<hosted, slab_only, fixed_only, class_only, arena_only, blocks>>

HeapStep ==
  /\ \/ strategy = "system" /\ Heap(SystemSetup)!Next
     \/ strategy = "aligned" /\ Heap(AlignedSetup)!Next
  /\ UNCHANGED <<hosted, slab_only, fixed_only, class_only, arena_only, segregated_only,
                 blocks, total_bytes, live_count>>

DeviceStep ==
  /\ \/ strategy = "cuda_direct" /\ Device(DirectSetup)!Next
     \/ strategy = "cuda_pool" /\ Device(PoolSetup)!Next
     \/ strategy = "pinned" /\ Device(PinnedSetup)!Next
  /\ UNCHANGED <<strategy, slab_only, fixed_only, class_only, arena_only, segregated_only,
                 blocks>>

BenchNext ==
  \/ SlabStep \/ FixedStep \/ ClassStep \/ ArenaStep \/ SegregatedStep \/ HeapStep
  \/ DeviceStep

BenchSpec == BenchInit /\ [][BenchNext]_bench

-----------------------------------------------------------------------------
(* Type invariants of the strategies, the first part of BenchAccounting.   *)
BenchTypeOK ==
  CASE strategy = "slab" -> TypeOK
    [] strategy = "fixed_pool" -> Fixed!TypeOK
    [] strategy = "size_class_pool" -> Class!TypeOK
    [] strategy = "arena" -> Arena!TypeOK
    [] strategy = "segregated_fit" -> Segregated!TypeOK
    [] strategy = "system" -> Heap(SystemSetup)!TypeOK
    [] strategy = "aligned" -> Heap(AlignedSetup)!TypeOK
    [] strategy = "cuda_direct" -> Device(DirectSetup)!TypeOK
    [] strategy = "cuda_pool" -> Device(PoolSetup)!TypeOK
    [] strategy = "pinned" -> Device(PinnedSetup)!TypeOK

(* What statistics() reports agrees with what is held and what is live,    *)
(* no limit is passed, and the driver holds what the records say.          *)
BenchAccounting ==
  /\ BenchTypeOK
  /\ CASE strategy = "slab" -> Accounting
       [] strategy = "fixed_pool" -> Fixed!WithinCapacity
       [] strategy = "size_class_pool" -> Class!Accounting
       [] strategy = "arena" -> Arena!Accounting
       [] strategy = "segregated_fit" -> Segregated!Accounting
       [] strategy = "system" -> Heap(SystemSetup)!Accounting
       [] strategy = "aligned" -> Heap(AlignedSetup)!Accounting
       [] strategy = "cuda_direct" -> Device(DirectSetup)!Accounting
       [] strategy = "cuda_pool" -> Device(PoolSetup)!Accounting
       [] strategy = "pinned" -> Device(PinnedSetup)!Accounting

(* Slab, fixed pool, size-class pool: each slot is free once or live once, *)
(* in a page or block that is held, and stays in its class.                *)
BenchSlotsConserved ==
  CASE strategy = "slab" -> SlotsConserved
    [] strategy = "fixed_pool" -> Fixed!SlotsConserved
    [] strategy = "size_class_pool" -> Class!SlotsStayInClass
    [] OTHER -> TRUE

(* Arena and segregated fit: allocations lie in blocks that are held, below*)
(* the pointer; blocks tile their superblocks, and the bins hold exactly   *)
(* the free ones.                                                          *)
BenchBlocksTile ==
  CASE strategy = "arena" -> Arena!InsideBlocks
    [] strategy = "segregated_fit" -> Segregated!BlocksTile /\ Segregated!BinsHoldFree
    [] OTHER -> TRUE

(* Fixed pool: while it is not shut down, it refuses for its capacity only *)
(* when a further block would pass it.                                     *)
FixedRefusesOnlyWhenFull ==
  [][strategy = "fixed_pool" /\ ~ closed /\ result' = "capacity_exceeded" =>
       Fixed!Full]_bench

(* Segregated fit: the search misses no block that is large enough.        *)
SegregatedSearchComplete == strategy = "segregated_fit" => Segregated!SearchComplete

(* System and aligned give memory the alignment its record states, the     *)
(* arena the least alignment asked for in its block ...                    *)
BenchAligned ==
  CASE strategy = "arena" -> Arena!AlignedToWeakest
    [] strategy = "system" -> Heap(SystemSetup)!RecordsAligned
    [] strategy = "aligned" -> Heap(AlignedSetup)!RecordsAligned
    [] OTHER -> TRUE

(* ... and the arena not always the alignment asked for.                   *)
ArenaAlignmentHonoured == strategy = "arena" => Arena!AlignmentHonoured

(* Every strategy keeps the allocator contract.                            *)
Owned ==
  CASE strategy = "slab" -> extents
    [] strategy = "fixed_pool" -> Fixed!extents
    [] strategy = "size_class_pool" -> Class!extents
    [] strategy = "arena" -> Arena!extents
    [] strategy = "segregated_fit" -> Segregated!extents
    [] strategy = "system" -> Heap(SystemSetup)!extents
    [] strategy = "aligned" -> Heap(AlignedSetup)!extents
    [] strategy = "cuda_direct" -> Device(DirectSetup)!extents
    [] strategy = "cuda_pool" -> Device(PoolSetup)!extents
    [] strategy = "pinned" -> Device(PinnedSetup)!extents

(* The ids that may be given out, whoever is on the bench.                 *)
Ids ==
  UNION {1..n : n \in {MaxIds, FixedSetup.ids, ClassSetup.ids, ArenaSetup.ids,
                       SegregatedSetup.ids, SystemSetup.ids, AlignedSetup.ids,
                       DirectSetup.ids, PoolSetup.ids, PinnedSetup.ids}}

Contract == INSTANCE AllocatorContract
              WITH AllocationId <- Ids, issued <- 1..next_id, live <- Owned

EveryStrategyImplementsContract == Contract!Spec
=============================================================================
