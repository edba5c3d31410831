--------------------------- MODULE BuddyAllocator ---------------------------
(***************************************************************************)
(* BuddyAllocator (allocators/buddy_allocator.hpp): power-of-two blocks    *)
(* split from, and coalesced back into, one aligned arena.                 *)
(*                                                                         *)
(* Every public operation holds mutex_ from its first to its last line, so *)
(* each is one action and the interleavings of client threads are the      *)
(* sequences of these actions.  An address is modelled by its offset from  *)
(* arena_.  The split loop and the coalesce loop are given by what they    *)
(* leave behind: the pieces cut off, and the buddies absorbed, one for     *)
(* each order passed.                                                      *)
(***************************************************************************)
EXTENDS Integers, FiniteSets, FiniteSetsExt

CONSTANTS MaxOrder,      \* max_order_: the arena has Size[MaxOrder] bytes
          Size,          \* Size[o]: bytes of a block of order o, 1 << o
          HeaderSize,    \* header_size
          Quantum,       \* payloads are rounded up to a multiple of this
          Request,       \* allocation requests considered: [size, alignment]
          MaxIds         \* bound on the number of successful allocations

Order == 0..MaxOrder

(* Block sizes double from one order to the next.                          *)
ASSUME OrderAssumption ==
  /\ MaxOrder \in Nat
  /\ Size \in [Order -> Nat \ {0}]
  /\ \A o \in Order : o < MaxOrder => Size[o + 1] = 2 * Size[o]

(* A payload fits the smallest block that is ever cut, and an empty arena  *)
(* can serve the largest request that is accepted.                         *)
ASSUME RequestAssumption ==
  /\ HeaderSize \in Nat /\ Quantum \in Nat \ {0}
  /\ HeaderSize + Quantum <= Size[MaxOrder]
  /\ HeaderSize % Quantum = 0 /\ Size[MaxOrder] % Quantum = 0
  /\ Request \subseteq [size : Nat, alignment : Nat]
  /\ MaxIds \in Nat

VARIABLES arena,         \* the constructor obtained arena_
          free,          \* free_: the blocks on the free lists
          hdr,           \* BHeader at the offsets where one was ever written
          live,          \* live_: block behind each live handle
          next_id,       \* next_id_
          live_count,    \* live_count_
          live_bytes,    \* live_bytes_
          requested,     \* requested_bytes_
          granted,       \* granted_bytes_
          freed,         \* freed_count_
          splits,        \* split_count_
          merges,        \* merge_count_
          result         \* ErrorCode of the last operation

vars == <<arena, free, hdr, live, next_id, live_count, live_bytes, requested,
          granted, freed, splits, merges, result>>

counters == <<requested, granted, freed, splits, merges>>

ArenaSize == Size[MaxOrder]
Offset == 0..(ArenaSize - 1)
Handle == 1..MaxIds
Block == {b \in [order : Order, off : Offset] : b.off + Size[b.order] <= ArenaSize}
Root == [order |-> MaxOrder, off |-> 0]
Empty == [x \in {} |-> {}]

ErrorCode == {"ok", "init_failed", "size_too_large", "alignment_unsupported",
              "capacity_exceeded", "invalid_handle", "double_free"}

Header(magic, o) == [magic |-> magic, order |-> o]

(* Bytes the caller gets from a block of order o.                          *)
Granted(o) == Size[o] - HeaderSize

AlignUp(v, a) == ((v + a - 1) \div a) * a

(* Mutant of Need: the header is not counted.                              *)
NeedWithoutHeader(req) == AlignUp(IF req.size = 0 THEN 1 ELSE req.size, Quantum)

(* allocate(): header plus the rounded payload, a zero size asking for one *)
(* byte.                                                                   *)
Need(req) == HeaderSize + AlignUp(IF req.size = 0 THEN 1 ELSE req.size, Quantum)

(* order_for(): the smallest order that holds the block.                   *)
OrderFor(need) ==
  CHOOSE o \in Order : Size[o] >= need /\ \A j \in Order : Size[j] >= need => o <= j

SupportedAlignment == {0, 1, 2, 4, 8, 16}

Init ==
  /\ arena \in BOOLEAN
  /\ free = IF arena THEN {Root} ELSE {}
  /\ hdr = [x \in (IF arena THEN {0} ELSE {}) |-> Header("free", MaxOrder)]
  /\ live = Empty
  /\ next_id = 0 /\ live_count = 0 /\ live_bytes = 0
  /\ requested = 0 /\ granted = 0 /\ freed = 0 /\ splits = 0 /\ merges = 0
  /\ result = "ok"

-----------------------------------------------------------------------------
(* allocate().                                                             *)

(* The early returns, in the code's order; "ok" when none is taken.        *)
Admission(req) ==
  IF ~arena THEN "init_failed"
  ELSE IF req.size > ArenaSize - HeaderSize THEN "size_too_large"
  ELSE IF req.alignment \notin SupportedAlignment THEN "alignment_unsupported"
  ELSE "ok"

Candidates(req) == {b \in free : b.order >= OrderFor(Need(req))}

(* The lowest non-empty order, and in it the lowest address.               *)
FirstFit(b, fits) ==
  /\ b \in fits
  /\ \A c \in fits : b.order < c.order \/ (b.order = c.order /\ b.off <= c.off)

(* Mutants of UpperHalves: the loop runs once too often, or once too few.  *)
OneHalfTooMany(off, o, from) == {[order |-> k, off |-> off + Size[k]] : k \in o..from}
OneHalfTooFew(off, o, from) ==
  {[order |-> k, off |-> off + Size[k]] : k \in (o + 1)..(from - 1)}

(* Halving a block at off down to order o leaves one upper half per order. *)
UpperHalves(off, o, from) == {[order |-> k, off |-> off + Size[k]] : k \in o..(from - 1)}

AllocateRejected(req) ==
  /\ Admission(req) # "ok"
  /\ result' = Admission(req)
  /\ UNCHANGED <<arena, free, hdr, live, next_id, live_count, live_bytes, counters>>

AllocateExhausted(req) ==
  /\ Admission(req) = "ok"
  /\ Candidates(req) = {}
  /\ result' = "capacity_exceeded"
  /\ UNCHANGED <<arena, free, hdr, live, next_id, live_count, live_bytes, counters>>

AllocateFrom(req, b) ==
  LET o == OrderFor(Need(req))
      cut == UpperHalves(b.off, o, b.order)
      id == next_id + 1
  IN /\ free' = (free \ {b}) \cup cut
     /\ hdr' = [x \in DOMAIN hdr \cup {c.off : c \in cut} \cup {b.off} |->
                  IF x = b.off THEN Header("busy", o)
                  ELSE IF \E c \in cut : c.off = x
                       THEN Header("free", (CHOOSE c \in cut : c.off = x).order)
                       ELSE hdr[x]]
     /\ live' = [h \in DOMAIN live \cup {id} |->
                   IF h = id THEN [order |-> o, off |-> b.off] ELSE live[h]]
     /\ next_id' = id
     /\ live_count' = live_count + 1
     /\ live_bytes' = live_bytes + Granted(o)
     /\ requested' = requested + req.size
     /\ granted' = granted + Granted(o)
     /\ splits' = splits + (b.order - o)
     /\ result' = "ok"
     /\ UNCHANGED <<arena, freed, merges>>

Allocate(req) ==
  /\ Admission(req) = "ok"
  /\ next_id < MaxIds
  /\ \E b \in free : FirstFit(b, Candidates(req)) /\ AllocateFrom(req, b)

-----------------------------------------------------------------------------
(* free().                                                                 *)

(* Mutant of Base: the merged block keeps the offset of the freed half.    *)
BaseNotRounded(k, off) == off

(* Start of the order-k block that contains off.                           *)
Base(k, off) == off - (off % Size[k])

(* The block coalesce() looks for at order k: the offset XOR 1 << k.       *)
BuddyOf(k, off) ==
  [order |-> k,
   off |-> IF Base(k, off) % Size[k + 1] = 0
           THEN Base(k, off) + Size[k]
           ELSE Base(k, off) - Size[k]]

Absorbed(off, o, n) == {BuddyOf(k, off) : k \in o..(n - 1)}

(* free() of a handle that is not in live_: never issued, freed or reset.  *)
FreeUnknown(h) ==
  /\ h \notin DOMAIN live
  /\ result' = "invalid_handle"
  /\ UNCHANGED <<arena, free, hdr, live, next_id, live_count, live_bytes, counters>>

(* coalesce() starting at order o climbs to order n: every buddy on the    *)
(* way is free, and the next one is not.                                   *)
FreeUpTo(h, o, n) ==
  LET off == live[h].off
      size == Granted(live[h].order)
  IN /\ Absorbed(off, o, n) \subseteq free
     /\ n < MaxOrder => BuddyOf(n, off) \notin free
     /\ free' = (free \ Absorbed(off, o, n)) \cup {[order |-> n, off |-> Base(n, off)]}
     /\ hdr' = [x \in DOMAIN hdr \cup {Base(n, off)} |->
                  IF x = Base(n, off) THEN Header("free", n)
                  ELSE IF x = off THEN Header("free", o) ELSE hdr[x]]
     /\ live' = [g \in DOMAIN live \ {h} |-> live[g]]
     /\ freed' = freed + 1
     /\ merges' = merges + (n - o)
     /\ live_count' = IF live_count > 0 THEN live_count - 1 ELSE live_count
     /\ live_bytes' = IF live_bytes >= size THEN live_bytes - size ELSE live_bytes
     /\ result' = "ok"
     /\ UNCHANGED <<arena, next_id, requested, granted, splits>>

Free(h) ==
  /\ h \in DOMAIN live
  /\ hdr[live[h].off].magic = "busy"
  /\ \E n \in hdr[live[h].off].order..MaxOrder : FreeUpTo(h, hdr[live[h].off].order, n)

-----------------------------------------------------------------------------
(* reset() and shutdown().                                                 *)

(* Mutants of Reset: the handles survive; the numbering starts again.      *)
ResetKeepingHandles ==
  /\ arena
  /\ free' = {Root}
  /\ hdr' = [x \in DOMAIN hdr \cup {0} |->
               IF x = 0 THEN Header("free", MaxOrder) ELSE hdr[x]]
  /\ live_count' = 0 /\ live_bytes' = 0
  /\ result' = "ok"
  /\ UNCHANGED <<arena, live, next_id, counters>>

ResetRenumbering ==
  /\ arena
  /\ free' = {Root}
  /\ hdr' = [x \in DOMAIN hdr \cup {0} |->
               IF x = 0 THEN Header("free", MaxOrder) ELSE hdr[x]]
  /\ live' = Empty /\ next_id' = 0
  /\ live_count' = 0 /\ live_bytes' = 0
  /\ result' = "ok"
  /\ UNCHANGED <<arena, counters>>

Reset ==
  /\ free' = IF arena THEN {Root} ELSE {}
  /\ hdr' = IF arena THEN [x \in DOMAIN hdr \cup {0} |->
                             IF x = 0 THEN Header("free", MaxOrder) ELSE hdr[x]]
             ELSE hdr
  /\ live' = Empty
  /\ live_count' = 0 /\ live_bytes' = 0
  /\ result' = "ok"
  /\ UNCHANGED <<arena, next_id, counters>>

(* shutdown() forgets the free lists and the handles.  arena_ stays        *)
(* allocated until the destructor.                                         *)
Shutdown ==
  /\ free' = {}
  /\ live' = Empty
  /\ live_count' = 0 /\ live_bytes' = 0
  /\ result' = "ok"
  /\ UNCHANGED <<arena, hdr, next_id, counters>>

Next ==
  \/ \E req \in Request : AllocateRejected(req) \/ AllocateExhausted(req) \/ Allocate(req)
  \/ \E h \in Handle : FreeUnknown(h) \/ Free(h)
  \/ Reset
  \/ Shutdown

Spec == Init /\ [][Next]_vars

-----------------------------------------------------------------------------
(* Properties.                                                             *)

(* Type invariant: every block on a list or behind a handle lies inside    *)
(* the arena, a handle's block has room behind its header, handles were    *)
(* issued, headers were written inside the arena.                          *)
TypeOK ==
  /\ arena \in BOOLEAN
  /\ free \subseteq Block
  /\ DOMAIN hdr \subseteq Offset
  /\ \A x \in DOMAIN hdr : hdr[x] \in [magic : {"free", "busy"}, order : Order]
  /\ next_id \in 0..MaxIds
  /\ DOMAIN live \subseteq 1..next_id
  /\ \A h \in DOMAIN live : live[h] \in Block /\ Size[live[h].order] > HeaderSize
  /\ live_count \in Nat /\ live_bytes \in Nat /\ requested \in Nat /\ granted \in Nat
  /\ freed \in Nat /\ splits \in Nat /\ merges \in Nat
  /\ result \in ErrorCode

Separate(b, c) == b.off + Size[b.order] <= c.off \/ c.off + Size[c.order] <= b.off

(* No byte of the arena belongs to two blocks: neither to two free blocks, *)
(* nor to a free block and a live handle, nor to two handles.              *)
NoOverlap ==
  /\ \A b, c \in free : b # c => Separate(b, c)
  /\ \A b \in free, h \in DOMAIN live : Separate(b, live[h])
  /\ \A g, h \in DOMAIN live : g # h => Separate(live[g], live[h])

(* Every block starts at a multiple of its size, which is what makes the   *)
(* XOR of coalesce() name the other half of the same parent.               *)
Aligned ==
  /\ \A b \in free : b.off % Size[b.order] = 0
  /\ \A h \in DOMAIN live : live[h].off % Size[live[h].order] = 0

(* The in-band header of a live block is marked busy and carries the order *)
(* the block was cut to.  free() reads the order from that header, and     *)
(* query() the granted size; the double_free branch of free() is dead code *)
(* exactly because of this.                                                *)
HeaderAgrees ==
  \A h \in DOMAIN live :
    /\ live[h].off \in DOMAIN hdr
    /\ hdr[live[h].off] = Header("busy", live[h].order)

Blocks == free \cup {live[h] : h \in DOMAIN live}

(* The blocks a handle can ever stand for.                                 *)
AlignedBlock == {b \in Block : b.off % Size[b.order] = 0 /\ Size[b.order] > HeaderSize}

(* If no free list can serve order o, then every aligned region of that    *)
(* size is really occupied: eager coalescing never leaves free memory      *)
(* stranded in fragments that together would have served the request.      *)
AdmitsWhatFits ==
  Blocks # {} =>
    \A o \in {OrderFor(Need(req)) : req \in {r \in Request : Admission(r) = "ok"}} :
      (\A b \in free : b.order < o) =>
        \A region \in AlignedBlock : region.order = o =>
          \E h \in DOMAIN live : ~ Separate(live[h], region)

(* statistics(): the gauges agree with the handle table in spite of the    *)
(* clamped subtractions in free(), internal_waste (unsigned in the code)   *)
(* does not wrap, and the number of blocks is what the split and merge     *)
(* counters say, reset() and shutdown() only ever removing blocks.         *)
Accounting ==
  /\ live_count = Cardinality(DOMAIN live)
  /\ live_bytes = MapThenSumSet(LAMBDA h : Granted(live[h].order), DOMAIN live)
  /\ granted >= requested /\ granted >= live_bytes
  /\ Cardinality(Blocks) <= 1 + splits - merges

PayloadExtent(b) == [addr |-> b.off + HeaderSize, size |-> Granted(b.order)]

(* The strategy keeps the allocator contract: handles are fresh, their     *)
(* payloads disjoint and immovable.                                        *)
Contract == INSTANCE AllocatorContract
              WITH AllocationId <- Handle,
                   issued <- 1..next_id,
                   live <- [h \in DOMAIN live |-> PayloadExtent(live[h])]

ImplementsContract == Contract!Spec
=============================================================================
