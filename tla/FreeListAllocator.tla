-------------------------- MODULE FreeListAllocator --------------------------
(***************************************************************************)
(* FreeListAllocator (allocators/free_list_allocator.hpp): variable-size   *)
(* blocks with a header and a footer (boundary tags) in superblocks taken  *)
(* from malloc, a first-fit search, a split on allocate and a coalesce     *)
(* with both neighbours on free.                                           *)
(*                                                                         *)
(* The model keeps the bookkeeping where the code keeps it, in the blocks: *)
(* hdr[a] is the header at address a, ftr[e] the footer that ends at       *)
(* address e, and every decision is made from what those cells hold.       *)
(* Every public operation holds mutex_ throughout, so each is one action.  *)
(***************************************************************************)
EXTENDS Integers, Sequences, FiniteSets, SequencesExt, FiniteSetsExt

CONSTANTS HeaderSize,      \* header_size
          FooterSize,      \* footer_size
          MinBlock,        \* min_block: the smallest remainder that is split off
          Quantum,         \* default_alignment: payloads are rounded up to it
          SuperblockSize,  \* superblock_size_
          MaxBytes,        \* max_bytes_
          Places,          \* addresses malloc may return, far apart
          Garbage,         \* what an arena_total never written may read as
          MaxAllocation,   \* bounds_.max_allocation_size
          Request,         \* requests considered: [size, alignment]
          MaxIds           \* bound on the number of successful allocations

ASSUME FreeListAssumption ==
  /\ {HeaderSize, FooterSize, MinBlock, Quantum, SuperblockSize, MaxBytes} \subseteq Nat
  /\ Places \subseteq Nat /\ Garbage \subseteq Nat /\ Garbage # {}
  /\ \A p, q \in Places : p < q => p + MaxBytes < q
  /\ Request \subseteq [size : Nat, alignment : Nat]
  /\ {MaxAllocation, MaxIds} \subseteq Nat
  /\ Quantum > 0 /\ SuperblockSize > 0
  /\ HeaderSize + FooterSize < MinBlock /\ MinBlock <= HeaderSize + Quantum + FooterSize

VARIABLES superblocks,   \* superblocks_: size of the superblock at each base
          hdr,           \* block headers
          ftr,           \* block footers, by the address they end at
          free_list,     \* the list threaded through next_free from free_head_
          live,          \* live_: block behind each live handle
          next_id, live_count, live_bytes, total_bytes,
          requested,     \* requested_bytes_
          granted,       \* granted_bytes_
          result         \* ErrorCode of the last operation

heap == <<superblocks, hdr, ftr, free_list, total_bytes>>
handles == <<live, next_id, live_count, live_bytes, requested, granted>>
vars == <<heap, handles, result>>

Handle == 1..MaxIds
Empty == [x \in {} |-> {}]

AlignUp(v, a) == ((v + a - 1) \div a) * a
PayloadOf(a) == hdr[a].size - HeaderSize - FooterSize

Need(req) ==
  HeaderSize + AlignUp(IF req.size = 0 THEN 1 ELSE req.size, Quantum) + FooterSize

Init ==
  /\ superblocks = Empty /\ hdr = Empty /\ ftr = Empty /\ live = Empty
  /\ free_list = <<>>
  /\ next_id = 0 /\ live_count = 0 /\ live_bytes = 0 /\ total_bytes = 0
  /\ requested = 0 /\ granted = 0
  /\ result = "ok"

-----------------------------------------------------------------------------
(* allocate().                                                             *)

(* The early returns, in the code's order; "ok" when none is taken.        *)
Admission(req) ==
  IF req.size > MaxAllocation THEN "size_too_large"
  ELSE IF req.alignment \notin {0, 1, 2, 4, 8, 16} THEN "alignment_unsupported"
  ELSE "ok"

AllocateRejected(req) ==
  /\ Admission(req) # "ok"
  /\ result' = Admission(req)
  /\ UNCHANGED <<heap, handles>>

(* The position find_and_split() stops at: the first block on the list     *)
(* that is large enough, 0 when there is none.                             *)
FirstFit(h, list, need) == SelectInSeq(list, LAMBDA a : h[a].size >= need)

(* Mutant of LeavesBlock: any remainder is split off, even an empty one.   *)
LeavesAnything(size, need) == size >= need

(* The remainder is worth a block of its own.                              *)
LeavesBlock(size, need) == size - need >= MinBlock

(* set_busy(): the footer of a block handed out.                           *)
BusyTag(size) == [size |-> size, busy |-> TRUE]

(* find_and_split() at position i of the list.  The remainder takes the    *)
(* place of the block on the list.  Its arena_total is not written: it     *)
(* holds what the memory held before.                                      *)
Split(h, f, list, i, need, junk) ==
  LET a == list[i]
      rest == a + need
      end == a + h[a].size
  IN IF LeavesBlock(h[a].size, need)
     THEN /\ hdr' = [x \in DOMAIN h \cup {rest} |->
                       IF x = a THEN [h[a] EXCEPT !.magic = "busy", !.size = need]
                       ELSE IF x = rest
                            THEN [magic |-> "free", size |-> h[a].size - need,
                                  arena_base |-> h[a].arena_base, arena_total |-> junk]
                            ELSE h[x]]
          /\ ftr' = [x \in DOMAIN f \cup {rest, end} |->
                       IF x = rest THEN BusyTag(need)
                       ELSE IF x = end THEN [size |-> h[a].size - need, busy |-> FALSE]
                            ELSE f[x]]
          /\ free_list' = [list EXCEPT ![i] = rest]
     ELSE /\ hdr' = [h EXCEPT ![a].magic = "busy"]
          /\ ftr' = [f EXCEPT ![end] = BusyTag(h[a].size)]
          /\ free_list' = RemoveAt(list, i)

(* The handle and the counters of a successful allocate().                 *)
HandOut(req, a) ==
  LET id == next_id + 1
      size == hdr'[a].size - HeaderSize - FooterSize
  IN /\ live' = [h \in DOMAIN live \cup {id} |-> IF h = id THEN a ELSE live[h]]
     /\ next_id' = id
     /\ live_count' = live_count + 1
     /\ live_bytes' = live_bytes + size
     /\ requested' = requested + req.size
     /\ granted' = granted + size
     /\ result' = "ok"

(* A block on the free list is large enough.                               *)
AllocateFit(req) ==
  LET i == FirstFit(hdr, free_list, Need(req))
  IN /\ Admission(req) = "ok"
     /\ next_id < MaxIds
     /\ i > 0
     /\ \E junk \in Garbage : Split(hdr, ftr, free_list, i, Need(req), junk)
     /\ HandOut(req, free_list[i])
     /\ UNCHANGED <<superblocks, total_bytes>>

GrowthFor(need) ==
  IF SuperblockSize > need THEN SuperblockSize ELSE AlignUp(need, SuperblockSize)

(* grow_superblock() adds one free block at the head of the list, and the  *)
(* second search takes it from there.                                      *)
AllocateGrow(req) ==
  LET need == Need(req)
      sz == GrowthFor(need)
  IN /\ Admission(req) = "ok"
     /\ next_id < MaxIds
     /\ FirstFit(hdr, free_list, need) = 0
     /\ total_bytes + sz <= MaxBytes
     /\ \E mem \in Places \ DOMAIN superblocks, junk \in Garbage :
          LET block == [magic |-> "free", size |-> sz, arena_base |-> mem, arena_total |-> sz]
              h == [x \in DOMAIN hdr \cup {mem} |-> IF x = mem THEN block ELSE hdr[x]]
              f == [x \in DOMAIN ftr \cup {mem + sz} |->
                      IF x = mem + sz THEN [size |-> sz, busy |-> FALSE] ELSE ftr[x]]
          IN /\ superblocks' = [x \in DOMAIN superblocks \cup {mem} |->
                                  IF x = mem THEN sz ELSE superblocks[x]]
             /\ Split(h, f, <<mem>> \o free_list, 1, need, junk)
             /\ HandOut(req, mem)
     /\ total_bytes' = total_bytes + sz

(* The limit is reached, or malloc returns null.                           *)
AllocateExhausted(req) ==
  /\ Admission(req) = "ok"
  /\ FirstFit(hdr, free_list, Need(req)) = 0
  /\ result' = "capacity_exceeded"
  /\ UNCHANGED <<heap, handles>>

-----------------------------------------------------------------------------
(* free().                                                                 *)

FreeUnknown(h) ==
  /\ h \notin DOMAIN live
  /\ result' = "invalid_handle"
  /\ UNCHANGED <<heap, handles>>

(* coalesce(): the code computes the end of the superblock from the        *)
(* arena_total of the block being freed.                                   *)
RightInArena(a) ==
  LET right == a + hdr[a].size
  IN /\ right >= hdr[a].arena_base
     /\ right < hdr[a].arena_base + hdr[a].arena_total

(* The address of the header coalesce() reads to its right is the first    *)
(* byte after the superblock: whatever is there, the model takes it not to *)
(* be kMagicFree.                                                          *)
ReadsPastSuperblock(a) ==
  /\ RightInArena(a)
  /\ a + hdr[a].size = hdr[a].arena_base + superblocks[hdr[a].arena_base]

(* Mutant of RightMerge: the magic of the neighbour is not looked at.      *)
RightMergeUnchecked(a) == RightInArena(a) /\ ~ ReadsPastSuperblock(a)

RightMerge(a) ==
  /\ RightInArena(a) /\ ~ ReadsPastSuperblock(a)
  /\ hdr[a + hdr[a].size].magic = "free"

LeftMerge(a) ==
  /\ a > hdr[a].arena_base
  /\ ~ ftr[a].busy
  /\ hdr[a - ftr[a].size].magic = "free"

(* The list is walked to the block, which is taken out.                    *)
Unlink(list, a) == RemoveFirst(list, a)

Free(h) ==
  /\ h \in DOMAIN live
  /\ LET a == live[h]
         right == a + hdr[a].size
         left == a - ftr[a].size
         rsize == IF RightMerge(a) THEN hdr[right].size ELSE 0
         start == IF LeftMerge(a) THEN left ELSE a
         size == hdr[a].size + rsize + (IF LeftMerge(a) THEN hdr[left].size ELSE 0)
         absorbed == (IF RightMerge(a) THEN {right} ELSE {})
                       \cup (IF LeftMerge(a) THEN {a} ELSE {})
         others == IF RightMerge(a) THEN Unlink(free_list, right) ELSE free_list
     IN /\ hdr[a].magic = "busy"
        /\ hdr' = [x \in DOMAIN hdr \ absorbed |->
                     IF x = start THEN [hdr[x] EXCEPT !.magic = "free", !.size = size]
                     ELSE hdr[x]]
        /\ ftr' = [x \in DOMAIN ftr \ absorbed |->
                     IF x = start + size THEN [size |-> size, busy |-> FALSE] ELSE ftr[x]]
        /\ free_list' = <<start>> \o (IF LeftMerge(a) THEN Unlink(others, left) ELSE others)
        /\ live_bytes' = IF live_bytes >= PayloadOf(a) THEN live_bytes - PayloadOf(a)
                         ELSE live_bytes
  /\ live' = [g \in DOMAIN live \ {h} |-> live[g]]
  /\ live_count' = IF live_count > 0 THEN live_count - 1 ELSE live_count
  /\ result' = "ok"
  /\ UNCHANGED <<superblocks, total_bytes, next_id, requested, granted>>

-----------------------------------------------------------------------------
(* Mutants of ReleaseAll: total_bytes_ is kept; the numbering restarts.    *)
ReleaseAllKeepingTotal ==
  /\ superblocks' = Empty /\ hdr' = Empty /\ ftr' = Empty /\ live' = Empty
  /\ free_list' = <<>>
  /\ live_count' = 0 /\ live_bytes' = 0
  /\ result' = "ok"
  /\ UNCHANGED <<total_bytes, next_id, requested, granted>>

ReleaseAllRenumbering ==
  /\ superblocks' = Empty /\ hdr' = Empty /\ ftr' = Empty /\ live' = Empty
  /\ free_list' = <<>>
  /\ live_count' = 0 /\ live_bytes' = 0 /\ total_bytes' = 0 /\ next_id' = 0
  /\ result' = "ok"
  /\ UNCHANGED <<requested, granted>>

(* reset() and shutdown() do the same: every superblock goes back to the   *)
(* C library, every handle is forgotten.                                   *)
ReleaseAll ==
  /\ superblocks' = Empty /\ hdr' = Empty /\ ftr' = Empty /\ live' = Empty
  /\ free_list' = <<>>
  /\ live_count' = 0 /\ live_bytes' = 0 /\ total_bytes' = 0
  /\ result' = "ok"
  /\ UNCHANGED <<next_id, requested, granted>>

(* trim() keeps the fully free superblocks: release_empty_superblocks() is *)
(* empty.                                                                  *)
Trim ==
  /\ result' = "ok"
  /\ UNCHANGED <<heap, handles>>

Next ==
  \/ \E req \in Request : AllocateRejected(req) \/ AllocateFit(req)
                        \/ AllocateGrow(req) \/ AllocateExhausted(req)
  \/ \E h \in Handle : FreeUnknown(h) \/ Free(h)
  \/ ReleaseAll
  \/ Trim

Spec == Init /\ [][Next]_vars

-----------------------------------------------------------------------------
(* Properties.                                                             *)

Header == [magic : {"free", "busy"}, size : Nat, arena_base : Nat, arena_total : Nat]

(* Type invariant, the first part of ChainTiles.                           *)
TypeOK ==
  /\ DOMAIN superblocks \subseteq Places
  /\ \A a \in DOMAIN hdr : hdr[a] \in Header /\ hdr[a].size >= MinBlock
  /\ \A e \in DOMAIN ftr : ftr[e] \in [size : Nat, busy : BOOLEAN]
  /\ ToSet(free_list) \subseteq DOMAIN hdr
  /\ next_id \in 0..MaxIds
  /\ DOMAIN live \subseteq 1..next_id
  /\ \A h \in DOMAIN live : live[h] \in DOMAIN hdr
  /\ {live_count, live_bytes, requested, granted} \subseteq Nat /\ total_bytes \in 0..MaxBytes
  /\ result \in {"ok", "capacity_exceeded", "invalid_handle", "size_too_large",
                "alignment_unsupported"}

BlocksOf(base) == {a \in DOMAIN hdr : hdr[a].arena_base = base}

(* The blocks of a superblock form a chain: each one ends where the next   *)
(* begins, the first begins at the base and the last ends with the         *)
(* superblock.  No byte is lost or owned twice, whatever was split and     *)
(* merged from whatever arena_total happened to contain.                   *)
ChainTiles ==
  /\ TypeOK
  /\ \A base \in DOMAIN superblocks :
       LET ends == {a + hdr[a].size : a \in BlocksOf(base)}
       IN /\ {base} \cup ends = BlocksOf(base) \cup {base + superblocks[base]}
          /\ Cardinality(ends) = Cardinality(BlocksOf(base))

(* The footer of every block repeats its size and its state: what the      *)
(* right-hand neighbour's free() reads to find the start of this block.    *)
(* The first part of ListsAgree.                                           *)
TagsAgree ==
  /\ \A a \in DOMAIN hdr :
       /\ a + hdr[a].size \in DOMAIN ftr
       /\ ftr[a + hdr[a].size] = [size |-> hdr[a].size, busy |-> hdr[a].magic = "busy"]
  /\ Cardinality(DOMAIN ftr) = Cardinality(DOMAIN hdr)

(* The free list holds every free block once and nothing else; every other *)
(* block is behind exactly one handle.  The double_free branch of free()   *)
(* is dead code because of the second half.                                *)
ListsAgree ==
  /\ TagsAgree
  /\ ToSet(free_list) = {a \in DOMAIN hdr : hdr[a].magic = "free"}
  /\ Cardinality(ToSet(free_list)) = Len(free_list)
  /\ {live[h] : h \in DOMAIN live} = {a \in DOMAIN hdr : hdr[a].magic = "busy"}
  /\ \A g, h \in DOMAIN live : live[g] = live[h] => g = h

(* statistics(): the gauges agree with the handle table and the            *)
(* superblocks, internal_waste (unsigned in the code) does not wrap, and   *)
(* the granted sizes that free() subtracts are the ones allocate() added,  *)
(* although both are recomputed from a header that splits rewrite.         *)
Accounting ==
  /\ live_count = Cardinality(DOMAIN live)
  /\ live_bytes = MapThenSumSet(LAMBDA h : PayloadOf(live[h]), DOMAIN live)
  /\ granted >= requested /\ granted >= live_bytes
  /\ total_bytes = MapThenSumSet(LAMBDA b : superblocks[b], DOMAIN superblocks)

Extent(a) == [addr |-> a + HeaderSize, size |-> PayloadOf(a)]

(* The strategy keeps the allocator contract.                              *)
Contract == INSTANCE AllocatorContract
              WITH AllocationId <- Handle,
                   issued <- 1..next_id,
                   live <- [h \in DOMAIN live |-> Extent(live[h])]

ImplementsContract == Contract!Spec

(* No two free blocks are neighbours: "Coalescing already happens eagerly  *)
(* on free" (the comment in trim()).                                       *)
EagerCoalescing ==
  \A a \in DOMAIN hdr :
    hdr[a].magic = "free" =>
      LET right == a + hdr[a].size
      IN right = hdr[a].arena_base + superblocks[hdr[a].arena_base]
         \/ hdr[right].magic = "busy"
=============================================================================
