# Allocator-Lab in TLA+

TLA+ models of the allocator strategies, the registry, the trace pipeline (generator,
validator, file formats), the experiment runner, the memory regions processes share, the
event log and the latency collectors of Allocator-Lab, model-checked with TLC, and
proofs about the buddy and the free-list strategy, the regions, the workload generator, the trace
validator, the runner, the registry and the event log checked with TLAPS. Paths below are
relative to the repository; a bare `.cpp` file is in its `src/`, a bare header in
`include/allocator_lab/`, and `A/` stands for `include/allocator_lab/allocators/`.

- [1. The system](#1-the-system)
- [2. Modules and the code they model](#2-modules-and-the-code-they-model)
- [3. Runs](#3-runs)
- [4. Fairness](#4-fairness)
- [5. What is proved](#5-what-is-proved)
- [6. Divergences](#6-divergences)
- [7. What is not modelled](#7-what-is-not-modelled)
- [8. Plan](#8-plan)

Run a model with `tlc -config Buddy.cfg MCBuddyAllocator.tla`, check the proofs with
`tlapm BuddyProofs.tla` (and the other modules named `...Proofs`).

## 1. The system

Allocator-Lab measures allocators. A *workload* is generated as a *trace* of
operations; the *runner* replays the trace against a *strategy* in one or several
threads and collects statistics and events.

| Part | State it keeps | Operations that change it | What makes it correct |
|---|---|---|---|
| Strategy interface (`allocator.hpp`, `detail/allocator_base.hpp`) | `next_id_`, a handle table, gauges, all under `mutex_` | `allocate`, `free`, `reallocate`, `trim`, `reset`, `shutdown` | an id is published once, its memory belongs to nobody else and stays where it is until it is freed, reallocated or discarded; a refused call publishes nothing |
| Buddy (`A/buddy_allocator.hpp`) | one arena, one free list per order, in-band headers | split, merge, reset | blocks tile the arena; the header `free` trusts is the one `allocate` wrote; merging strands nothing |
| Free list (`A/free_list_allocator.hpp`) | superblocks, boundary-tagged blocks, an ordered free list | first fit, split, left and right merge, growth | blocks tile superblocks; tags, list and table agree |
| Slab, fixed pool, size-class pool | pages or blocks of slots, stacks of free slots | pop, push, growth, (slab) trim | a slot is free once or live once, in its own class |
| Arena | bump pointer in the newest block | bump, growth | an allocation lies below the pointer in a block that is held |
| Segregated fit | superblocks, bins by size | search of the bins, split | blocks tile superblocks, bins hold exactly the free ones and the search misses none |
| System, aligned | a table over the C library | all of the interface, `reallocate` too | what the table says is what the library gave |
| Shared and mapped regions | a header in memory shared by processes: magic number, bump pointer, published offset and size; the mapped one is a file that outlives them | create, open, compare-and-swap, publish, shutdown | no byte is given to two owners, in any process, though processes die and come again |
| Shared-memory proof (`shm_creator_main.cpp`, `tests/shared_memory_proof.cpp`) | the mapping's name, three coordination files | write and remove files, bounded waits | who opens the mapping finds the pattern; nothing is left behind |
| CUDA, CUDA pool, pinned | a table over the driver, for pinned memory a budget | all of the interface but `reallocate` and `reset` | the table says what the driver gave and has not taken back, though any of its calls may fail |
| Registry (`allocator_registry.hpp`) | id to strategy, the next id | `register_allocator`, `register_allocator_at`, `unregister`, `clear` | it owns the strategies, each under the id it reports |
| Trace validator (`trace.cpp`) | list of live ids, table of sizes | one entry at a time | it accepts exactly the well-formed traces |
| Trace files (`trace.cpp`) | the file on disk | save, load, in binary or JSON | what was saved is loaded; what was damaged is rejected or is a trace in its own right |
| Workload generator (`workload.cpp`) | configuration, live set, retired ids, counters | sanitize, draw, allocate, free, reallocate, final release | every trace it makes is one the validator accepts |
| Runner (`experiment.cpp`) | per worker: position, pending handles, live payloads, samples; snapshots and report | `apply_entry` in each thread, snapshot, report | payloads are intact, nothing is lost, the report has every entry, all threads finish |
| Event log (`events.hpp`) | bounded list, count of drops, sink, `mutex_` | `emit`, `clear`, `set_sink` | every event is held, counted or cleared; the sink hears of all of them, outside the lock |
| Latency collectors (`metrics.hpp`) | count, extremes, histogram, bounded raw samples | `add`, `merge` | what is reported as exact is, and an estimate has its bound |
| Reports, provenance, backend discovery, command line | | | (see section 7) |

*Interactions.* The generator and both decoders call the validator on their result and return
its verdict; the runner does not call it: it takes the trace as it is, hands every entry to the thread its
worker field selects, starts the threads and joins them; every thread calls the one
strategy, whose `mutex_` makes each call atomic. What a thread does *between* calls
(writing a payload, verifying it, keeping its table of handles) is not under any lock.
The registry owns strategies by `unique_ptr` and hands out raw pointers. Regions of
several processes meet only in the mapped header, by atomic operations.

*Hard behaviours.* Long mixes of splits and merges; header fields valid in some blocks
only; sizes at a power of two, alignments that are checked but not honoured; limits
that growth meets between two multiples; identifiers drawn without looking at those in
use; unlocked payload accesses between locked calls; a process opening a region that
another is still constructing, or died constructing; files that end too early; a wait that
ends just before what it waited for; a callback that uses what calls it. `PROJECT.json` lists them under `hazards`, each at its line.

## 2. Modules and the code they model

A strategy's public call runs under its lock from start to end, so one call is one
step and the interleaving of callers is the order of the steps. Failing calls are
steps too: they set `result` and leave the rest alone. A request is a record
`[size, alignment]` out of the constant `Request`. Event and peak counters
(`success_`, `failures_`, `peak_*`, growth counts) are left out: they are written and
never read by the allocation paths. Queries change nothing and have no action.

| Module | Code | Correspondence |
|---|---|---|
| `AllocatorContract` | `allocator.hpp:59-116` | abstract: `issued` ids and the extent behind each `live` id |
| `BuddyAllocator` | `A/buddy_allocator.hpp` | `free` is the union of `free_lists_`, `live` the table, `hdr` the in-band headers at each offset. `Allocate` pops a block of the least order that fits (which of equal blocks is arbitrary: the list order is the only thing abstracted) and splits it; `Free` validates the header and merges up to the order at which the buddy is not free; `Reset`, `Shutdown` |
| `FreeListAllocator` | `A/free_list_allocator.hpp` | `hdr` and `ftr` are the headers and footers at each address, `free_list` the linked list in order. A block split off by `find_and_split` takes its `arena_total` from `Garbage`: the code does not write that field. `Free` contains both merges |
| `SlabAllocator`, `FixedPool`, `SizeClassPool`, `ArenaAllocator`, `SegregatedAllocator` | the files of the same names | pages and blocks are put at any address the constant bases allow; `Shutdown`, `Reset` and, for the slab, `Trim` included |
| `HeapAllocator` | `A/system_allocator.hpp`, `A/aligned_allocator.hpp` | the C library (external) puts a block at any free address or returns null. `Realigns` chooses between the two: `realloc` in place or moved, or a new aligned block, a copy and a release |
| `DeviceAllocator` | `A/cuda_allocator.hpp`, `A/cuda_pool_allocator.hpp`, `A/pinned_allocator.hpp` | as built with CUDA: the driver (external) gives memory anywhere at its own alignment or refuses any call; `driver` is what it has given out, `leaked` what a `Shutdown` failed to give back. `Pinned` and `Trims` choose among the three |
| `RegionAllocator` | `A/shared_allocator.hpp`, `A/mapped_allocator.hpp` | one step per access to shared memory: `CreateMapping`, `WriteMagic`, `WriteNext` are three; `Allocate` reads the bump pointer, `Reserve` and `Retry` are the two outcomes of the compare-and-swap; `PublishOffset` and `PublishSize` are two stores; `Announce` is the file the creator writes. `FileBacked` chooses the mapped file, which stays when the last process has gone; `Crash` ends a process at any of these steps and `Restart` puts another in its place |
| `SharedHandshake` | `shm_creator_main.cpp`, `tests/shared_memory_proof.cpp` | the two straight-line programs, one step per access to a file or to the mapping's name; a bounded wait may end at any moment (`StopWaiting`, `StopLooking`), either may be killed, a file in use is not removed |
| `AllocatorRegistry` | `allocator_registry.hpp` | `table`, the id each strategy reports, and the set of strategies alive, so that destruction by a failed `emplace` shows |
| `EventLog` | `events.hpp` | `emit` in the order of its code: the number without the lock, the record under it, the sink copied under it, the call without it; `emit[t]` is where thread t is. `heard` is what each sink was called with |
| `LatencyCollector` | `metrics.hpp`, the merge in `experiment.cpp` | a record per worker; `Add`, `Merge` after the join; `Estimate` and `Exact` are the two ways of `percentile()` |
| `TraceRules` | `trace.cpp:301-346`, `trace.hpp` | which entries are malformed, the reference definition of a well-formed trace, and `SwapRemove`, the removal by swapping with the last that generator and validator share |
| `TraceValidator` | `trace.cpp` | the two incremental tables, one action per kind of entry |
| `TraceCodec` | `trace.cpp` | `ToBinary`, `FromBinary`, `ToJson`, `FromJson`; `Typed` cuts the enumerations of the binary format to 16 bits before they are checked (`AsEnum`), `AsUnsigned` is the cast of JSON numbers to `int`; `file` is changed by `ChangeByte`, `CutBytes`, ... before `Load`, and what was loaded may be saved again in either format (`SaveAs`) |
| `WorkloadConfig` | `workload.hpp`, `workload.cpp` | `Sanitized` is `sanitize_workload_config`; `DrawnSizes`, `DrawnAlignments`, `DrawnLifetimes` are the values each distribution can give |
| `WorkloadGenerator` | `workload.cpp` | one step per iteration; every random draw is a choice. `out` is the trace; `LiveIds`, `LiveSizes` and `LiveBytes` are the validator's tables as the generator's `live` gives them |
| `ExperimentRunner` | `experiment.cpp` | one step per allocator call and one per unlocked payload access; `run` says whether `run_replay` (one worker, `Snapshot`) or `run_concurrent` is running; `per_worker` holds the entries dealt out to each thread beforehand; `Report` is the end of both. The allocator is an instance of `AllocatorContract` that may refuse any request; it keeps at least one byte for each (`Room`), and the result names the size asked for, which may be 0, or one up to what is kept (`Told`) |
| `StrategyBench`, `MCStrategies` | | puts ten strategies on one bench: the variable `strategy` says which one a behaviour is about. The constants of each are one record (`FixedSetup`, `ClassSetup`, ...), so that run and theorems are about the same definitions; `MCStrategies` gives the records small values |
| `MCTraces`, `MCLaboratory`, `MCRegions` | | put parts that share nothing into one run in the same way: `part` says which one a behaviour is about. `MCTraces` extends the validator and the generator and instantiates the codecs; `MCLaboratory` extends the runner, the registry and the event log and instantiates the collectors, so that runs and theorems are about the same definitions |
| `ArithmeticLemmas`, `BuddyProofs`, `FreeListProofs`, `SlotProofs`, `StrategyProofs`, `TraceProofs`, `RunnerProofs`, `SharedStateProofs` | | facts about division, multiples, least elements, lists and finite sums, and the proofs of section 5; `SlotProofs` has the pools and the slab, `StrategyProofs` the other strategies and the theorems of all ten, `TraceProofs` the validator and the generator, `SharedStateProofs` the event log, the registry and the regions |

`ExperimentRunner` uses the allocator's *contract* and the strategies are shown to
implement it (`ImplementsContract`, `EveryStrategyImplementsContract`), so what is
shown of the runner is shown over each of them. `WorkloadGenerator` in turn is
shown to drive `TraceValidator` along accepting behaviours only (`PassesValidation`). Modules that are
extended together name their specifications apart: `GeneratorSpec`, `LogSpec`, `RegistrySpec`.

In several modules an operator named for a mistake (`BaseNotRounded`,
`ReallocateFailsForgetting`) stands in front of the definition it resembles. It is used
by no specification; it records a plausible bug in that definition, and
`PROJECT.json` pairs it with the property that catches it.

## 3. Runs

Sizes are states found by TLC with two workers on a small machine.

| Run | Instance | States | Checks |
|---|---|---|---|
| `buddy` | 256-byte arena, header 16, orders 5 to 8, three ids, requests of every order, one too large, one misaligned | 14,311 | types, no overlap, alignment of every block, header agreement, no memory stranded: a request that could fit is admitted (`AdmitsWhatFits`), gauges, the contract |
| `free_list` | superblocks of 256, the code's header 48, footer 16 and least block 72, two places, limit of three superblocks, `Garbage` of 0 and a large number, four ids | 189,860 | blocks tile superblocks and tags agree (`ChainTiles`), list and table agree, gauges, the contract |
| `free_list_coalescing` | the same | violated | `EagerCoalescing` |
| `strategies` | ten strategies, blocks of two to three slots, limits between multiples, three to five ids, a driver that may refuse every call | 202,958 | slots conserved, limits kept and refused only when met, blocks tile, bins exact, search complete, gauges, alignment, the contract |
| `arena_alignment` | the arena alone | violated | `ArenaAlignmentHonoured` |
| `regions` | a creator and two openers on a mapping with room for five grains; a creator and an opener, twice each, on a file with room for three, while a second opener stays away; the two programs of the proof | 264,553 | no byte owned twice (`NoByteTwice`), announced data stays (`AnnouncedStaysPut`), the hand-shake (`HandshakeSound`), every loop and wait ends (`EveryoneEnds`) |
| `traces` | 25 configurations of up to seven operations; all traces of up to six entries over two ids and two sizes, malformed ones included; three saved traces in either format with up to two damages | 646,802 | the generator's ids, frees and end, validation passes; the validator's tables agree and it accepts exactly the traces that are well formed by its rules; both formats give back what was saved and, but for the digits a decoder cuts off, nothing else |
| `trace_coercion` | the codecs, one damage | violated | `NeverCoerced` |
| `laboratory` | the runner with two or three threads, or a replay with a snapshot every second entry after the first, eight traces, three addresses, an allocator that may refuse anything and move on reallocation; four strategies to register, one with its own id, requested ids 0, 1, 3; two emitters, three events, room for one, two sinks; two collectors with three samples each, two kept raw | 235,630 | payload intact, no handle lost, the report has every entry and balanced traces end at zero, every run ends; the registry owns what lives, nothing dies by another's registration; events accounted for, the sink hears all, every `emit` returns; summaries are honest |
| `runner_reset` | the runner, one trace with a RESET | violated | `ReadsLivePayload` |
| `runner_warmup` | the runner, a replay of one trace with a warm-up of one entry | violated | `WarmupNotTimed` |
| `registry_collision` | the registry | violated | `ReturnedIdLeadsHome` |

*Why the bounds are enough.* Buddy: four orders give splits and merges over three
levels, with partial merges stopped by a live buddy at each level. Free list: a
superblock of three least blocks has a block with both neighbours, one with a left and
one with a right neighbour only; the largest request needs two superblocks; the last
growth is stopped by the limit. Slots: every block or page has more than one slot and
at least two blocks fit below the limit, so that a freed slot may come from either.
Ids: an id freed or discarded and
a fresh one coexist in every run, since the bound is on the allocations that succeed in a behaviour and
not on those that live together; no behaviour is longer than that many allocations.
Validator: five entries are needed for the shortest interaction of two ids with a
reallocation and a removal from the middle; six are taken. Codec: a byte has three bits, a `u16` is one
byte, a `u32` two and a `u64` four, so that the operations still fit a `u16`, every length, count and enumeration can be damaged to be too
small, too large, or past its range, and a number of 64 bits does not fit 32, nor one of 32 bits 16; damage puts 0, 1 or the
largest digit in place of a byte, and in place of a value a small one, one above the enumerations and one just above either width; one entry
has every field set, and two entries are needed for an order. Two damages are needed to change a
count and the length of the file together. Workload: the configurations are one for each free order, each
distribution, overlapping phases and each field that is filled in; the live set is below, at
and above target in each phase. Runner: two workers are what every race here takes; the third shows that
the merge takes all. One trace has an id freed by a worker that does not know it and allocated again by the one that holds
it; the second allocation overwrites the pending entry of the first. One has sizes of 0, which the validator accepts and the generator
can draw, before and after a reallocation. That every live allocation is known to a worker
and that balanced traces end at zero is therefore stated for traces whose streams stand alone (`StreamsStandAlone`). Regions: each instance fills up while compare-and-swap loops are still
running; the file has a second creator that finds the first one's data. `NoByteTwice` is stated with the mapping's size, which is
above the file's; that nothing reaches past the end holds for every size by `RegionNoByteTwice`. Event log: one event more than two emitters and one
more than the log has room for. Collectors: exact, cut on the way and cut in the merge.

An alignment has `AlignmentBits` bits, 64 in the code and 31 in the runs, since TLC counts no further; the theorems ask only
that the generator's own alignments fit.

Every bound has a name: `MaxIds`, `MaxLives`, `MaxEvents`, `MaxSamples`, `MaxEntries`, `MaxDamage`, and the sets
of addresses, requests and configurations. The MC modules and the configurations give their values.

`CHECK_DEADLOCK FALSE` is set where the program ends: the bounded registry and event log,
a trace read to its end, a finished workload, a loaded file, joined workers, processes that
have left. The strategies' runs keep the check: a strategy can always answer.

Where a run lists no type invariant, `TypeOK` is the first conjunct of its first invariant on
that part (`ChainTiles`, `BenchAccounting`, `TablesAgree`, `IdsPartitioned`, `NoHandleLost`, `OwnsWhatLives`,
`EventsAccounted`, `SummariesHonest`, `NoByteTwice`, `HandshakeSound`).

*Violated runs* check what the repository says and the code does not do; `findings` in
`PROJECT.json` quotes both sides.

## 4. Fairness

- `ExperimentRunner`: weak fairness of each worker's steps (`WorkerStep`: `ApplyEntry` and `Snapshot`) and of `Report`. A worker is a
  `std::thread` that `run_concurrent` joins (`experiment.cpp:189`); the loop has no
  wait in it but the strategy's mutex, which is held for a bounded call.
- `WorkloadGenerator`: weak fairness of the next step: a sequential loop.
- `RegionAllocator`: weak fairness of `Reserve \/ Retry` per process, between reading
  the pointer and the answer to the caller. A process need not call, open, publish or
  leave, and may be killed. A single process may lose its compare-and-swap as long as others win; since the
  region never takes memory back, others win finitely often, and every call returns.
- `SharedHandshake`: weak fairness of either program, which the system schedules. A wait is bounded, so that its
  end, with or without what it waited for, is a step of the program.
- `EventLog`: weak fairness of each emitter. The lock needs none of its own: each thread takes it a
  bounded number of times. Callers of `set_sink` and `clear` need not come back.
- The strategies have no liveness property: a call is a step.

## 5. What is proved

Each theorem holds for every value of the constants that satisfies the assumptions of its module.
TLC evaluates the assumptions on the values of the runs: those of `BuddyAllocator`, `FreeListAllocator`, `SlabAllocator`, `StrategyBench` and
`ExperimentRunner` are `ASSUME`s there; `StrategyAssumptions` names the `Assumptions` of each strategy on the bench. Those of modules that are also instantiated or extended together are operators
(`Assumptions` of `RegionAllocator` and `TraceValidator`, `GeneratorAssumptions`, `LogAssumptions`,
`RegistryAssumptions`), which the theorems have as hypothesis and which `MCRegions`, `MCTraces` and `MCLaboratory` assume.

| Theorem | Says |
|---|---|
| `BuddyInvariant` | `Spec => []IInv`, `IInv == TypeOK /\ NoOverlap /\ Aligned /\ HeaderAgrees` |
| `BuddyTypeOK` | blocks lie in the arena and have orders of the arena |
| `BuddyNoOverlap` | no byte is handed out twice, or free and handed out |
| `BuddyAligned` | every block starts at a multiple of its size |
| `BuddyHeaderAgrees` | the header behind each handle is the one `allocate` wrote |
| `BuddyAdmitsWhatFits` | a request is refused only if no aligned block of its order is free of live blocks |
| `BuddyAccounting` | count, bytes, grants and the split and merge counters agree with the blocks |
| `BuddyImplementsContract` | the buddy strategy implements `AllocatorContract` |
| `FreeListChainTiles` | the blocks of each superblock form one chain from its first byte to its last |
| `FreeListListsAgree` | footers repeat headers, the list has each free block once, each other block is behind one handle |
| `FreeListAccounting` | count, bytes and total agree with the handles and the superblocks; the waste does not wrap |
| `FreeListImplementsContract` | the free-list strategy implements `AllocatorContract` |
| `BenchAccountingHolds` | for each of the ten smaller strategies: types, gauges that agree with what is held and what is live, limits kept |
| `BenchSlotsConservedHolds` | slab, fixed pool, size-class pool: each slot is free once or live once and stays in its class |
| `BenchBlocksTileHolds` | segregated fit: blocks tile superblocks and the bins hold exactly the free ones; arena: allocations lie in blocks, below the pointer |
| `BenchAlignedHolds` | system and aligned memory has the alignment on record; the arena honours the weakest one of a block |
| `SegregatedSearchCompleteHolds` | the search by bins misses no free block that is large enough |
| `FixedRefusesOnlyWhenFullHolds` | the fixed pool refuses for its capacity only when a further block would pass it |
| `BenchImplementsContract` | each of the ten implements `AllocatorContract` |
| `RegionNoByteTwice` | no byte of a mapping or file is given out twice, none of its header is, and what earlier users of a file were given stays theirs |
| `RegionAnnouncedStaysPut` | what the creator announced is given to nobody else while the mapping exists |
| `SharedNeverEarly` | with named mappings no header is opened before its bump pointer is set |
| `SanitizedIsSane` | what `sanitize_workload_config` leaves is as its fields promise, whatever it is given |
| `GeneratorIdsPartitioned` | every id given out is live or free to be reused, once; the live set keeps to its target |
| `GeneratorOwnerFrees` | whoever allocates an id also frees and reallocates it |
| `GeneratedTracesPass` | every step of the generator is a step in which the validator accepts the entry |
| `ValidatorAcceptsExactly` | the validator accepts exactly the well-formed traces |
| `ValidatorTablesAgree` | its list of ids, table of sizes and running sum agree |
| `RunnerPayloadIntact` | without a RESET, what a worker wrote stays until it gives the memory up, for every trace the validator accepts |
| `RunnerNoHandleLost` | workers know different allocations, with bytes of the memory the allocator keeps for them; if the streams stand alone, none is forgotten |
| `RunnerReadsLive` | without a RESET a payload is read only while it is allocated |
| `RunnerEveryEntryCounted` | the report has every entry of the trace, those of the warm-up too, and the snapshots are those that are due; a balanced trace whose streams stand alone leaves nothing live |
| `LogAccountsForEvents` | every event numbered is in the log, dropped, cleared away or under way; none is in it twice |
| `SinksHearEverything` | the sink set last hears of every event since, once, after it was recorded |
| `RegistryOwnsWhatLives` | the registry owns exactly the strategies alive, each under the id it reports |
| `RegistryDiesOnlyUnregistered` | a registered strategy dies only in a step that takes its id out |

*Buddy strategy*, for every arena order, table of sizes, header size, quantum, set of requests
and number of ids, under two assumptions:

- `OrderAssumption`: each size is twice the one before and all are positive. That two different orders are at least a
  factor of two apart is a lemma (`SizesApart`), by the least order for which it fails. The table is a constant, to which
  `MCBuddyAllocator` gives `2^o`.
- `RequestAssumption`: header and least payload fit the arena, header and arena are multiples of the
  payload quantum (16), sizes and alignments are naturals.

`NoOverlap` alone is not inductive. `free` merges with the block found
at the exclusive-or of the offset and the size: that this is the other half of one
parent, and not a block astride two, needs `Aligned`; and the order of the block
freed comes from the header in the arena, so it needs `HeaderAgrees`. `Allocate`
splits one free block into the upper halves it gives back and the block it hands out;
the lemmas show these are apart from one another and inside the old block, hence apart from
all others. `Free` climbs: the blocks absorbed are exactly those inside the merged
block, so that nothing that remains meets it. The rest is arithmetic of multiples of powers
of two (`ArithmeticLemmas`): a multiple of 2n is a multiple of n, two multiples of n closer than
n are equal, an aligned block lies in one aligned block of any larger order. The
refinement maps `issued` to the ids below the next one and each live id to the bytes after
its header; a step maps to a contract step by `NoOverlap` in the next state, or to a stutter.

That merging strands nothing (`AdmitsWhatFits`) needs two facts more (`Coalesced`): the blocks cover the
arena, and no free block has a free buddy (`NoFreePair`). If a request is refused though no live block meets some aligned
block of its order, take the smallest free block that meets that region. It is smaller than the region, so its buddy lies in the region too and
is covered by free blocks; none is smaller than the buddy, a larger one would overlap the block taken, and the
buddy itself is not free by `NoFreePair`. The gauges are the number and the sum
of the grants behind the handles (`Gauges`), and the number of blocks follows splits and merges (`Counters`).

*Free list*, for every header, footer, quantum and superblock size and every `Garbage`, under
`FreeListAssumption`. It asks that a header and a footer fit in the least block, which in turn is no larger than
header, footer and one quantum, as the constants of the code have it (a least payload of 8 and a quantum of 16); that the superblock
size, which the caller may set and which is 256 KiB otherwise, is positive; and that places are further apart than
`MaxBytes`, since `malloc` is free to put superblocks anywhere and no block reaches from one to the next. Rounding
by division, as the model does it, is the code's mask for a quantum that is a power of two.
The invariant (`IInv`) has the tiling (`Tiled`), the list (`Listed`), the handles (`Handed`), the gauges and the ids. `free` finds
the right neighbour through a header and the left one through a footer, so the tiling is stated from both ends of
a block (`Whole`, `Footers`), for a superblock, header and footer table given as parameters. Every operation is
made of four changes, and a lemma each says that the tiling survives it: a block changes its state (`MarkTiled`),
is cut in two (`SplitTiled`), is joined with the next (`JoinTiled`), a superblock is added (`GrowTiled`);
the steps of `free` that merge left and right are the third one applied twice. For the list, `RemovedAt`, `Unlinked`, `Pushed` and `Replaced` say what
becomes of it. What a split leaves in `arena_total` decides only whether the next merge looks to
the right: too small a value leaves free neighbours apart (section 6), and with too large a one it looks past the end, where the model
has no block it takes for free. Neither disturbs the tiling.

*Smaller strategies*, for every record of constants that satisfies the strategy's `Assumptions`: sizes, limits, slots per block,
requests, places where blocks may be put, errors the driver may answer. The invariants of the runs are not inductive; each strategy has
one that is, and `BenchInv` says that the strategy on the bench satisfies its own.

- *Slots.* The slots of a pool are those on its stack and those behind its handles, each in one place (`Stacked`). `StackedTake`, `StackedFree` and
  `StackedGrow` say what a pop, a push and a new block do to that, and serve the fixed pool, each class of the size-class pool and each page of the slab. That
  extents are apart is then a matter of places: the slots of a block are rungs at one distance (`Ladder`), and blocks lie apart. The size-class pool has to
  know in which class a slot is: no two classes share a block. The slab finds a page by the address of a slot, which needs the page to be at a multiple of
  its size and the slots to end in it (`ObjectFits`, section 6). `Trim` keeps the slabs that are not idle in their order; a handle's slot
  is never in an idle one, since a list as long as a slab has slots has all of them.
- *Arena.* The pointer of the block in use is a multiple of the weakest alignment handed out there, as sizes are
  rounded to the alignment and the pointer is not (`ArenaBump`); all else lies below it.
- *Records.* The system, aligned, CUDA and pinned strategies keep a record for each block; records lie apart because what the C library or the driver
  gives out meets nothing that is held. What a `Shutdown` failed to give back stays with the driver (`leaked`) and is apart from what is given out later.
  One lemma for each operation serves the strategies that share a module, with their setup as a parameter.
- *Segregated fit.* The invariant has three parts, on superblocks, headers, bins and handles as parameters. `SegBlocks`: each block is wholly in one superblock,
  blocks lie apart and their sizes add up to that of the superblock. `SegBins`: each free block is in the bin of its size, once, and no other block is in any.
  `SegOwned`: a block that is not free is behind one handle, whose id its header has. An allocation is a block that leaves its bin, is cut in two, is marked, and a remainder that
  is filed; each of these has a lemma, and in between the block is in neither place, which `SegOwned` and `SegBins` allow since they are stated apart. `free` trusts
  the mark in the header: by `SegOwned` it meets no block that is marked free. For the search, `SegBinsRise` says that a larger size does not lie in a lower bin, so that the first bin looked at is
  not above that of any block large enough. Logarithms are read from a table that ends at 2^20, so that the proof is for superblocks of a power of two up to
  that size (128 KiB unless the caller asks for another); larger blocks share the last bin.

The refinement is one argument for all (`ContractKept`): a table of extents and a last id (`Held`), and a step that adds a fresh one, drops one, moves one or clears the table (`Steps`), is a step of the
contract. Each strategy shows that its extents are such a table and its operations such steps.

*Regions*, for every number of openers and of lives, every size of header and region, every grain and
set of requests. Whether extents are apart cannot be kept up by looking at extents alone: the invariant (`RInv`)
ties them to the bump pointer. A header is either being set up, and then nobody but its creator is
inside and nobody owns anything (`SetUp`), or whole, and then all that was ever given out lies between
header and bump pointer (`InUse`). A compare-and-swap that succeeds proves that the pointer has not
moved since it was read, so that what it gives begins where all the rest ends; rounding up never
makes a request smaller (`RoundedUp`). A process that goes turns its extents into past ones, which changes the
owner and not the set. That a named mapping is never opened early follows from the order in which the creator
announces: an announcement makes the creator one that has set the header up, and names are not used again
(`MaxLives = 1`). For a file this part is false, and `NoByteTwice` says so by its hypothesis `~ early`.

*Workload generator*, for every set of configurations whose fields have the types of `WorkloadConfig`, alignments that are 0 or
powers of two, and lifetimes with a range that is not the wrong way round (`Raw`; nothing in the code checks these two), and for
runs of every length. `SanitizedIsSane` comes first: the other proofs take from it that there is an operation to do and
that the target lies within the operations. The invariant (`GInv`) has the shape of the state (`Shaped`), the ids
(`Numbered`: distinct in `live`, distinct in `free_pool`, apart, all below `next_id`, and none missing before the final release) and the
owners. For these the last allocation of an id is not enough, since `OwnerFrees` looks back from an entry at those before
it: `Held` says of each live record, and `Charged` of each entry that does not allocate, that the last allocation of
its id before it has its worker. That the live set keeps to the target rests on `TargetBounded`: the profile's share of the target is a
quotient that never exceeds it. `Free` and `Release` are one step in the proof (`Drop`), the release being a removal of the last place.
For `GeneratedTracesPass` three lemmas say what appending, removing by swap and resizing a record do to the list of ids, to the table of sizes
and to the sum of sizes (`AfterAppend`, `AfterRemove`, `AfterUpdate`); they are what the validator does to its own tables, since the place of an id in a list without repetitions is the
one the search finds (`PositionIs`).

*Validator*, for every set of entries and every length. The invariant says of the list of live ids that it
has no id twice and lists exactly the ids that are live after the entries read by the definition of
`TraceRules`, which looks at the whole trace. The lemmas show what one more entry does to either side:
`LiveNow` and `WellFormedNow` for the definition, `SwapRemoved` for the removal by swapping with the last, which needs that no id is
there twice. Once an entry is rejected the trace stays malformed, and nothing more is read.

The sum of sizes follows the table by what adding or removing one element does to a finite sum.

*Runner*, for any number of threads, every set of well-formed traces, every memory and every strategy that keeps the
contract, under `RunnerAssumption`: the traces are those the validator accepts, with entries of any size, 0 included, and memory is finite.
The allocator keeps an extent of at least one byte for each allocation, as every strategy does, and tells the caller a size between
the one asked for and the one it keeps (`Told`), since some strategies report the former and some the latter; the worker
writes and verifies what it was told. A worker touches payloads outside the strategy's lock. That these accesses do not meet follows
from facts that need one another (`RInv`): the allocator's extents are apart (`Extents`), every pending entry is the only
one with its handle and names bytes of the allocator's extent for it (`AllRegistered`; `WithinBytes`), and a worker between the calls of one entry
still has what it works on (`InCall`). That nothing is forgotten needs what the stream says is allocated so far (`Owned`, for
streams that stand alone). A RESET of one worker takes the memory of the others, so `RunnerReadsLive` is for traces without one.

For `RunnerEveryEntryCounted` the invariant (`CInv`) adds what each worker has counted of its own stream (`Tallied`): one sample for every entry of a kind it
has finished, and as many outcomes as it has begun calls, no more than it has begun entries; an entry whose payload is still
being written has had its outcome and no sample yet (`Begun`). The streams add up to the trace, kind by kind (`DealtCounts`, a least
counterexample over the prefixes dealt out), and sums over the workers keep what holds of each worker (`SumSame`, `SumPlus`, `SumMono`).
`Snapped` has the snapshots taken so far: all that are due below the worker's position, but for one it is about to take.
Nothing runs after the report (`NoReportYet`), so it is still what the counters say. That a balanced trace leaves nothing live is `Owned` read at the end: what is live would be in
some worker's table under an id its stream allocates and never frees.

*Event log*, for any number of emitters, all sinks, calling back or not, every capacity and number of events. Numbers are taken without
the lock and recorded in another order, so the invariant rests on where the threads are: an `emit` under way owns its number
(`Numbered`), has not been recorded before it reaches that place (`Logged`), has not been heard of before it calls (`Hearing`); one that
took its number after the sink was set calls that sink (`Reaching`); and the numbers out are those in the log, dropped,
cleared away or waiting (`Counted`).

*Registry*, for every set of strategies, whatever ids they bring along and callers ask for, under
`RegistryAssumptions` (ids are naturals). `OwnsWhatLives` is inductive as it stands; that a strategy is in the table only once
follows from its third part, and with it that removing ids destroys exactly the strategies under them.

*Finite sums.* Sums of sizes are folds of the community modules. `ArithmeticLemmas` proves what they are without the induction
theorems, whose operator parameter the provers cannot instantiate: a least counterexample among the subsets of a finite set
(`MinimalSubset`, from the cardinality theorems of the library) takes the place of the induction. `SumAdd`, `SumRemove` and
`SumSame` are what the proofs cite.

*Only model-checked:*

- `SummariesHonest` of the collectors: percentiles are read from a sorted copy of the samples and from a walk over the buckets, which the model
  writes with recursive definitions of the community modules, and what those compute for every input needs induction over data;
- `BinaryExact` and `JsonExact` of the codecs, which read and write a file by recursion over its length;
- `HandshakeSound`: its module has no constant, so the run is the whole of the two programs and a proof would add nothing;
- liveness (`EveryRunEnds`, `EndsReleased`, `EveryEmitReturns`, `EveryoneEnds`), which is out of the prover's reach.

No assumption stands for a proof that was not found: those on constants are what the code's constants satisfy, what the
configuration checks, or what `malloc` promises (places of superblocks are apart), and where nothing in the code
ensures one (`Raw` of the generator, `ObjectFits` of the slab) its paragraph says so.

## 6. Divergences

Six have a run each (section 3): blocks that eager coalescing leaves apart
(`A/free_list_allocator.hpp:172`); a payload read after `reset` (`experiment.cpp:69`);
warm-up operations, documented as skipped from timing (`experiment.hpp:25`), that are samples like any others: `warmup_ops` holds
back snapshots only (`experiment.cpp:116`); an id returned for a destroyed strategy (`allocator_registry.hpp:41`); an arena
alignment that is not honoured (`A/arena_allocator.hpp:47`); and enumerations of a trace file that are cut to a
narrower type before they are checked, to 16 bits in the binary format (`trace.cpp:280`, so that an operation or domain of 0x10000
is read as 0) and to `int` in JSON (`trace.cpp:211`). Met while modelling,
without a run of their own, most of them since no statement of the repository is about them or the data they
concern is abstracted; a statement that is about one is quoted:

- Free list: with a large value in `arena_total`, the merge looks for a right neighbour past
  the end of the superblock (`:210`). The model lets such a read find nothing it takes for a free
  block. A zero-filled allocation has its id stored over the first word of its payload (`:63`).
- Buddy: `shutdown` keeps the arena until the destructor (`:153`).
- Slab: the reuse flag is computed after the pop and is always true (`:52`); an object
  too large for a page behind the slab header gets a slot that runs past it (`:29`).
- Fixed pool: `shutdown` keeps `total_slots_` (`:125`), so that later requests are refused for
  a capacity that is not in use; growth is by eight slots, so a capacity that is no multiple of
  eight is not reached (`:46`).
- Size-class pool: alignments up to 256 are accepted, slots lie at multiples of 16 (`:42`).
- Arena: the limit is compared with the newest block, not with the sum of blocks (`:127`).
- Segregated fit: a request above the superblock size adds a superblock, then fails with
  `out_of_memory`; each further attempt adds another while the limit allows (`:51`).
- System: reallocation adds the whole new size to the requested bytes and only the
  growth to the granted ones; the difference reported as waste can wrap (`:152`).
- Aligned: `posix_memalign` refuses alignments below the size of a pointer; the strategy accepts them
  and answers `out_of_memory`.
- Regions: a process that opens between the stores of the magic number and of the bump pointer allocates from
  offset 0, over the header (`A/shared_allocator.hpp:52`, `A/mapped_allocator.hpp:57`). With named mappings this
  does not happen because openers wait for the file the creator writes, as the programs of the repository do. With
  a file it does: one whose creator died in between is taken for a good one. `NoByteTwice` is therefore stated for
  headers that were whole when they were opened (`early`).
  `Mode::Create` does not notice an existing object and initialises its header again; the model
  takes names to be unique, as the programs make them. `supports_free` is true while `free` answers `not_supported`
  (`A/shared_allocator.hpp:75`). After `shutdown` the object still passes its `init_ok_` test and
  dereferences a null region on `allocate`. The published pair is two stores.
- Shared-memory proof: a creator that gives up waiting while the verifier reads the meta file cannot remove it and ignores
  that; if the verifier then fails, the file stays.
- CUDA and pinned: `shutdown` ignores the driver's answer and drops its records (`A/pinned_allocator.hpp`,
  `A/cuda_pool_allocator.hpp:137`), although `docs/DESIGN.md:25` says that it "guarantees cleanup"; `BenchAccounting` counts
  such memory as leaked. `trim` of the pool ignores a failure (`:95`). A pinned request of size 0 takes a
  byte that the budget was not asked for (`A/pinned_allocator.hpp:50`); alignments up to 4096 are accepted, the driver's 256 is what is given
  (`:52`). `ZeroFill` of device memory is done by the host (`A/cuda_allocator.hpp:59`).
- Trace files: a recorded status and error code are not kept exactly: any number counts as true and large codes are
  clamped (`trace.cpp:284`); `BinaryExact` leaves those digits out, and the upper halves of operation and domain, which `NeverCoerced` is about. A count may ask for more memory than there is before an
  entry is read (`:273`). Control characters in a name are written as escapes the parser does not know (`:159`), so that the document cannot
  be loaded again.
- Validator: an alignment of 0 is accepted (`trace.cpp:337`), although `docs/TRACES.md:21` lists "invalid/zero alignment" among what is rejected;
  the strategies take it for their default. `AcceptsExactly` states what the code does, so that its passing says nothing against this.
  RESET leaves every id live (`:316`), while the strategies forget theirs.
- Generator: the order called FIFO frees another id than the oldest after one removal from the middle
  (`workload.cpp:215`); the final release adds entries beyond the operation budget (`:234`). Asked for sizes from 0 to
  0, `sanitize_workload_config` leaves a smallest size of 1 over a largest of 0 (`:22`), which `std::clamp` leaves undefined; a shortest
  lifetime above the longest wraps, and alignments given by the caller are not checked, so that `generate_workload` may reject
  its own trace. `size_sequence`, `burstiness` and `temporal_locality` have no effect.
- Event log: the sink is given an event whose message has been moved into the log (`events.hpp:101`), unless the event was dropped;
  `SinkHearsEverything` says so. The log is not in the order of the numbers.
- Latency: the estimate of a percentile may exceed the largest sample.
- Runner: `iterations`, `threads`, `verify_payload` and `collect_raw_latency` of `ExperimentConfig` are read nowhere in `experiment.cpp`: a trace is
  replayed once, and payloads are always written and verified. `throughput.operations` counts every entry in a replay (`experiment.cpp:151`) and only successes and failures in a
  concurrent run (`:217`). A worker that frees an id allocated by another counts an unknown id, and the allocation
  stays live (`experiment.cpp:74`); if the first worker then allocates that id again, its pending entry is overwritten and
  the first allocation is never freed (`:61`); the strategy is not shut down at the end (`:191`),
  although `allocator.hpp:109` asks for it.
- Registry: ids of removed strategies are used again (`:51`); pointers from `find` and
  `for_each` outlive the lock (`:62`).

## 7. What is not modelled

- Reports, provenance, backend discovery, command line: formatting of results, probing of the machine and parsing of arguments, without
  state that lasts or an order that matters.
- Fragmentation and snapshots (`fragmentation.hpp`, `snapshot.hpp`): floating-point arithmetic on gauges that the strategies'
  models keep and check; when a snapshot is taken is modelled, what its ratios are is not. Interpolation between raw samples and sums
  of durations in `metrics.hpp`, for the same reason.
- How likely a draw is: the generator's model takes any value the distribution can give.
- The text of JSON: escapes other than control characters, nesting, duplicate keys and the limit on the length of the text.
- What becomes of a pointer that `find()` or `for_each()` of the registry handed out; the pointer is used by code outside the repository.
- The contents of payloads inside the strategies; the runner's model has them.
- CUDA streams, copies and device queries; a build without CUDA, in which these strategies refuse everything.
- Two creators of one shared name: the programs of the repository draw a name of their own.

## 8. Plan

The order followed: the contract; the buddy strategy with its proofs, as the one whose
correctness is least visible in the code; the free list; the pipeline from generator to
validator to runner; the registry; the smaller strategies; regions; then trace files, replay and report, event log,
collectors, driver memory, and the faults of regions and of the shared-memory proof.

Left to do, most important first:

1. What can be proved of the collectors without sorting: what `Add` and `Merge` keep of count, extremes and buckets, as a part of `SummariesHonest` of its own.
2. Two creators of one shared name, as soon as the code decides which of them wins.
