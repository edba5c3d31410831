------------------------ MODULE SegregatedAllocator ------------------------
(***************************************************************************)
(* SegregatedAllocator (allocators/segregated_allocator.hpp): free blocks  *)
(* in bins by the logarithm of their size, split at allocation and never   *)
(* merged again.                                                           *)
(*                                                                         *)
(* Every public operation holds mutex_ throughout, so each is one action.  *)
(* A block is its address; its header is `size` and `busy`.                *)
(***************************************************************************)
EXTENDS Integers, Sequences, FiniteSets, SequencesExt, FiniteSetsExt

CONSTANTS SuperblockSize,  \* superblock_size_
          MaxBytes,        \* max_bytes_
          MaxAllocation,   \* bounds_.max_allocation_size
          HeaderSize,      \* header_size
          MinBlock,        \* min_block: the least remainder worth a block
          Default,         \* detail::default_alignment
          SuperblockBases, \* addresses malloc() may return for a superblock
          Request,         \* requests considered: [size, alignment]
          MaxIds           \* bound on the number of successful allocations

PowersOfTwo == {2^k : k \in 0..20}

Assumptions ==
  /\ {SuperblockSize, MaxBytes, MaxAllocation, HeaderSize, MinBlock, MaxIds} \subseteq Nat
  /\ {SuperblockSize, Default} \subseteq PowersOfTwo     \* align_up() masks
  /\ 0 < MinBlock /\ MinBlock <= HeaderSize + Default   \* 24 and 16 + 16
  /\ SuperblockBases \subseteq Nat
  /\ Request \subseteq [size : Nat, alignment : Nat]

VARIABLES superblocks,   \* superblocks_: [base, size] of every superblock held
          header,        \* header[b]: [size, busy] of the block at address b
          bins,          \* bins_: addresses of free blocks, searched in order
          live,          \* live_: the block behind each live handle
          next_id, total_bytes, live_count, live_bytes, requested, granted,
          result         \* ErrorCode of the last operation

heap == <<superblocks, header, bins, total_bytes>>
gauges == <<live_count, live_bytes, requested, granted>>
vars == <<heap, live, next_id, gauges, result>>

Handle == 1..MaxIds
Empty == [x \in {} |-> 0]

AlignUp(v, a) == ((v + a - 1) \div a) * a
CeilLog2(v) == Cardinality({k \in 0..20 : 2^k < v})
MaxBin == CeilLog2(SuperblockSize)
Bin == 0..MaxBin

(* The bin insert_bin() files a block of this size in.                     *)
BinOf(size) == IF CeilLog2(size) > MaxBin THEN MaxBin ELSE CeilLog2(size)

Init ==
  /\ superblocks = {} /\ header = Empty /\ bins = [i \in Bin |-> <<>>]
  /\ live = Empty /\ next_id = 0 /\ total_bytes = 0
  /\ live_count = 0 /\ live_bytes = 0 /\ requested = 0 /\ granted = 0
  /\ result = "ok"

-----------------------------------------------------------------------------
(* The early returns of allocate().                                        *)
Admission(req) ==
  IF req.size > MaxAllocation THEN "size_too_large"
  ELSE IF req.alignment # 0 /\ ~ (req.alignment \in PowersOfTwo /\ req.alignment <= Default)
       THEN "alignment_unsupported"
  ELSE "ok"

Need(req) == HeaderSize + AlignUp(IF req.size = 0 THEN 1 ELSE req.size, Default)

Fails(code) == result' = code /\ UNCHANGED <<heap, live, next_id, gauges>>

AllocateRejected(req) == Admission(req) # "ok" /\ Fails(Admission(req))

(* Mutant of FirstBin: the search starts a bin too high.                   *)
FirstBinAbove(need) == CeilLog2(need) + 1

(* The bin find_block() starts at, which no bin may be.                    *)
FirstBin(need) == CeilLog2(need)

(* Bins with a block that is large enough, among those searched.           *)
Serving(hd, bs, need) ==
  {i \in Bin : i >= FirstBin(need) /\ \E b \in ToSet(bs[i]) : hd[b].size >= need}

(* Mutant of WorthSplitting: a remainder of any size becomes a block.      *)
WorthSplittingAny(rest) == rest > 0

WorthSplitting(rest) == rest >= MinBlock

(* find_block() on the headers hd and bins bs: takes the first block large *)
(* enough from the first such bin, files what it does not need as a block  *)
(* of its own; then allocate() publishes it.                               *)
Take(hd, bs, req) ==
  LET need == Need(req)
      i == Min(Serving(hd, bs, need))
      k == SelectInSeq(bs[i], LAMBDA x : hd[x].size >= need)
      b == bs[i][k]
      rest == hd[b].size - need
      split == WorthSplitting(rest)
      size == IF split THEN need ELSE hd[b].size
      taken == [bs EXCEPT ![i] = RemoveAt(@, k)]
      id == next_id + 1
  IN /\ bins' = IF split THEN [taken EXCEPT ![BinOf(rest)] = Append(@, b + need)] ELSE taken
     /\ header' = [x \in DOMAIN hd \cup (IF split THEN {b + need} ELSE {}) |->
                     IF x = b THEN [size |-> size, busy |-> TRUE]
                     ELSE IF split /\ x = b + need THEN [size |-> rest, busy |-> FALSE]
                     ELSE hd[x]]
     /\ live' = [h \in DOMAIN live \cup {id} |-> IF h = id THEN b ELSE live[h]]
     /\ next_id' = id
     /\ live_count' = live_count + 1
     /\ live_bytes' = live_bytes + size - HeaderSize
     /\ requested' = requested + req.size
     /\ granted' = granted + size - HeaderSize
     /\ result' = "ok"

Found(req) == Serving(header, bins, Need(req)) # {}

Allocate(req) ==
  /\ Admission(req) = "ok" /\ next_id < MaxIds
  /\ Found(req)
  /\ Take(header, bins, req)
  /\ UNCHANGED <<superblocks, total_bytes>>

(* grow_superblock(): whole superblocks for a larger request.              *)
GrowthFor(req) ==
  IF SuperblockSize > Need(req) THEN SuperblockSize ELSE AlignUp(Need(req), SuperblockSize)

MayGrow(req) == total_bytes + GrowthFor(req) <= MaxBytes

Vacant(b, size) == \A s \in superblocks : b + size <= s.base \/ s.base + s.size <= b

(* A superblock is added as one free block and the search repeated; it     *)
(* fails again when the request is larger than the last bin's size, and    *)
(* the superblock stays.                                                   *)
AllocateGrow(req) ==
  LET size == GrowthFor(req)
  IN /\ Admission(req) = "ok" /\ next_id < MaxIds
     /\ ~ Found(req) /\ MayGrow(req)
     /\ \E b \in {x \in SuperblockBases : Vacant(x, size)} :
          LET hd == [x \in DOMAIN header \cup {b} |->
                       IF x = b THEN [size |-> size, busy |-> FALSE] ELSE header[x]]
              bs == [bins EXCEPT ![BinOf(size)] = Append(@, b)]
          IN /\ superblocks' = superblocks \cup {[base |-> b, size |-> size]}
             /\ IF Serving(hd, bs, Need(req)) # {}
                THEN Take(hd, bs, req)
                ELSE /\ header' = hd /\ bins' = bs
                     /\ result' = "out_of_memory"
                     /\ UNCHANGED <<live, next_id, gauges>>
     /\ total_bytes' = total_bytes + size

(* Over the limit, or malloc() returned null.                              *)
AllocateExhausted(req) ==
  /\ Admission(req) = "ok"
  /\ ~ Found(req)
  /\ Fails("capacity_exceeded")

-----------------------------------------------------------------------------
(* free() refuses an unknown handle, and a block not marked busy.          *)
FreeRefused(h) ==
  \/ h \notin DOMAIN live /\ Fails("invalid_handle")
  \/ h \in DOMAIN live /\ ~ header[live[h]].busy /\ Fails("double_free")

Free(h) ==
  /\ h \in DOMAIN live /\ header[live[h]].busy
  /\ LET b == live[h]
         payload == header[b].size - HeaderSize
     IN /\ header' = [header EXCEPT ![b].busy = FALSE]
        /\ bins' = [bins EXCEPT ![BinOf(header[b].size)] = Append(@, b)]
        /\ live_bytes' = IF live_bytes >= payload THEN live_bytes - payload ELSE live_bytes
  /\ live' = [g \in DOMAIN live \ {h} |-> live[g]]
  /\ live_count' = IF live_count > 0 THEN live_count - 1 ELSE live_count
  /\ result' = "ok"
  /\ UNCHANGED <<superblocks, total_bytes, next_id, requested, granted>>

(* reset() and shutdown() do the same.                                     *)
ReleaseAll ==
  /\ superblocks' = {} /\ header' = Empty /\ bins' = [i \in Bin |-> <<>>]
  /\ live' = Empty
  /\ total_bytes' = 0 /\ live_count' = 0 /\ live_bytes' = 0
  /\ result' = "ok"
  /\ UNCHANGED <<next_id, requested, granted>>

Next ==
  \/ \E req \in Request : AllocateRejected(req) \/ Allocate(req)
                        \/ AllocateGrow(req) \/ AllocateExhausted(req)
  \/ \E h \in Handle : FreeRefused(h) \/ Free(h)
  \/ ReleaseAll

Spec == Init /\ [][Next]_vars

(* What the caller owns through each handle.                               *)
extents ==
  [h \in DOMAIN live |-> [addr |-> live[h] + HeaderSize,
                          size |-> header[live[h]].size - HeaderSize]]

-----------------------------------------------------------------------------
(* Properties.                                                             *)

(* Type invariant.                                                         *)
TypeOK ==
  /\ \A s \in superblocks : s.base \in SuperblockBases /\ s.size \in Nat
  /\ \A b \in DOMAIN header : b \in Nat /\ header[b] \in [size : Nat, busy : BOOLEAN]
  /\ bins \in [Bin -> Seq(DOMAIN header)]
  /\ next_id \in 0..MaxIds
  /\ DOMAIN live \subseteq 1..next_id
  /\ \A h \in DOMAIN live : live[h] \in DOMAIN header
  /\ {live_count, live_bytes, requested, granted} \subseteq Nat
  /\ total_bytes \in 0..MaxBytes
  /\ result \in {"ok", "size_too_large", "alignment_unsupported", "capacity_exceeded",
                 "out_of_memory", "invalid_handle", "double_free"}

(* The blocks of a superblock follow one another from its start to its     *)
(* end, none smaller than MinBlock, whatever was split off and given back. *)
BlocksTile ==
  /\ \A s \in superblocks :
       LET inside == {b \in DOMAIN header : s.base <= b /\ b < s.base + s.size}
       IN /\ s.base \in inside
          /\ \A b \in inside : \/ b + header[b].size \in inside
                               \/ b + header[b].size = s.base + s.size
          /\ SumFunction([b \in inside |-> header[b].size]) = s.size
  /\ \A b \in DOMAIN header :
       /\ header[b].size >= MinBlock
       /\ \E s \in superblocks : s.base <= b /\ b < s.base + s.size

(* The bins hold the free blocks, each once and in the bin of its size;    *)
(* the others are behind one handle each: the busy mark free() checks is   *)
(* never wrong, and its double_free exit is not taken.                     *)
BinsHoldFree ==
  /\ \A i, j \in Bin : \A m \in DOMAIN bins[i], n \in DOMAIN bins[j] :
       bins[i][m] = bins[j][n] => i = j /\ m = n
  /\ \A i \in Bin : \A b \in ToSet(bins[i]) : ~ header[b].busy /\ BinOf(header[b].size) = i
  /\ {b \in DOMAIN header : ~ header[b].busy} = UNION {ToSet(bins[i]) : i \in Bin}
  /\ {b \in DOMAIN header : header[b].busy} = {live[h] : h \in DOMAIN live}
  /\ \A g, h \in DOMAIN live : live[g] = live[h] => g = h

(* The bins skipped hold nothing of use: a request of at most a superblock *)
(* finds a block whenever a free one that is large enough exists, so it is *)
(* not refused and takes no new memory.                                    *)
SearchComplete ==
  \A req \in Request :
    /\ Need(req) <= SuperblockSize
    /\ \E b \in DOMAIN header : ~ header[b].busy /\ header[b].size >= Need(req)
    => Found(req)

(* statistics(): reserved bytes are the superblocks held, the gauges agree *)
(* with the handles, and internal_waste (unsigned in the code) does not    *)
(* wrap.                                                                   *)
Accounting ==
  /\ total_bytes = SumFunction([s \in superblocks |-> s.size])
  /\ live_count = Cardinality(DOMAIN live)
  /\ live_bytes = SumFunction([h \in DOMAIN live |-> header[live[h]].size - HeaderSize])
  /\ granted >= requested /\ granted >= live_bytes
=============================================================================
