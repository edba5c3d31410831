--------------------------- MODULE ArenaAllocator ---------------------------
(***************************************************************************)
(* ArenaAllocator (allocators/arena_allocator.hpp): a bump pointer in the  *)
(* block allocated last; objects are not freed one by one.                 *)
(*                                                                         *)
(* Every public operation holds mutex_ throughout, so each is one action.  *)
(***************************************************************************)
EXTENDS Integers, FiniteSets, Functions

CONSTANTS BlockSize,     \* block_size_
          MaxBytes,      \* max_bytes_
          MaxAllocation, \* bounds_.max_allocation_size
          BlockAlign,    \* alignment of every block, and the largest granted (4096)
          Default,       \* detail::default_alignment
          BlockBases,    \* block addresses the aligned allocator may return
          Request,       \* requests considered: [size, alignment]
          MaxIds         \* bound on the number of successful allocations

PowersOfTwo == {2^k : k \in 0..16}

Assumptions ==
  /\ {BlockSize, MaxBytes, MaxAllocation, MaxIds} \subseteq Nat
  /\ {BlockAlign, Default} \subseteq PowersOfTwo /\ Default <= BlockAlign
  /\ \A b \in BlockBases : b \in Nat /\ b % BlockAlign = 0
  /\ Request \subseteq [size : Nat, alignment : Nat]

VARIABLES blocks,        \* blocks_: [base, size] of every block held
          base, current, cap,
          live,          \* live_, live_size_: the record behind each live id
          next_id, live_count, live_bytes, requested, granted,
          result         \* ErrorCode of the last operation

region == <<blocks, base, current, cap>>
gauges == <<live_count, live_bytes, requested, granted>>
vars == <<region, live, next_id, gauges, result>>

Handle == 1..MaxIds
Empty == [x \in {} |-> 0]

(* round_up_pow2_padded().                                                 *)
RoundUp(v, a) == ((v + a - 1) \div a) * a

Init ==
  /\ blocks = {} /\ base = 0 /\ current = 0 /\ cap = 0
  /\ live = Empty /\ next_id = 0
  /\ live_count = 0 /\ live_bytes = 0 /\ requested = 0 /\ granted = 0
  /\ result = "ok"

-----------------------------------------------------------------------------
AlignOf(req) == IF req.alignment = 0 THEN Default ELSE req.alignment

(* The early returns of allocate().                                        *)
Admission(req) ==
  IF req.size > MaxAllocation THEN "size_too_large"
  ELSE IF ~ (AlignOf(req) \in PowersOfTwo /\ AlignOf(req) <= BlockAlign)
       THEN "alignment_unsupported"
  ELSE "ok"

Padded(req) == RoundUp(IF req.size = 0 THEN 1 ELSE req.size, AlignOf(req))

Fails(code) == result' = code /\ UNCHANGED <<region, live, next_id, gauges>>

AllocateRejected(req) == Admission(req) # "ok" /\ Fails(Admission(req))

(* Bumps the pointer from `offset` in the block at `b`.                    *)
Bump(b, offset, req) ==
  LET id == next_id + 1
      record == [addr |-> b + offset, size |-> req.size,
                 align |-> AlignOf(req), padded |-> Padded(req)]
  IN /\ current' = offset + Padded(req)
     /\ live' = [h \in DOMAIN live \cup {id} |-> IF h = id THEN record ELSE live[h]]
     /\ next_id' = id
     /\ live_count' = live_count + 1
     /\ live_bytes' = live_bytes + req.size
     /\ requested' = requested + req.size
     /\ granted' = granted + Padded(req)
     /\ result' = "ok"

Fits(req) == current + Padded(req) <= cap

Allocate(req) ==
  /\ Admission(req) = "ok" /\ next_id < MaxIds
  /\ Fits(req)
  /\ Bump(base, current, req)
  /\ UNCHANGED <<blocks, base, cap>>

(* The block ensure_block() allocates, a larger one for a larger request.  *)
GrowthFor(req) == IF BlockSize < Padded(req) THEN RoundUp(Padded(req), BlockAlign) ELSE BlockSize

(* The limit is compared with the block in use, whatever older blocks hold. *)
MayGrow(req) == cap + GrowthFor(req) <= MaxBytes

Vacant(b, size) == \A e \in blocks : b + size <= e.base \/ e.base + e.size <= b

(* ensure_block() sets the pointer to the start of the new block.          *)
StartOf(b) == 0

(* What is left of the block in use is never given out any more.           *)
AllocateGrow(req) ==
  /\ Admission(req) = "ok" /\ next_id < MaxIds
  /\ ~ Fits(req) /\ MayGrow(req)
  /\ \E b \in {x \in BlockBases : Vacant(x, GrowthFor(req))} :
       /\ blocks' = blocks \cup {[base |-> b, size |-> GrowthFor(req)]}
       /\ base' = b
       /\ Bump(b, StartOf(b), req)
  /\ cap' = GrowthFor(req)

(* Over the limit, or the aligned allocator returned null.                 *)
AllocateExhausted(req) ==
  /\ Admission(req) = "ok"
  /\ ~ Fits(req)
  /\ Fails("out_of_memory")

-----------------------------------------------------------------------------
(* free() is not supported, whatever the handle.                           *)
Free == Fails("not_supported")

(* reset() and shutdown() do the same to everything that is read later.    *)
Discard ==
  /\ blocks' = {} /\ base' = 0 /\ current' = 0 /\ cap' = 0
  /\ live' = Empty
  /\ live_count' = 0 /\ live_bytes' = 0
  /\ result' = "ok"
  /\ UNCHANGED <<next_id, requested, granted>>

Next ==
  \/ \E req \in Request : AllocateRejected(req) \/ Allocate(req)
                        \/ AllocateGrow(req) \/ AllocateExhausted(req)
  \/ Free
  \/ Discard

Spec == Init /\ [][Next]_vars

(* What the caller owns through each handle.                               *)
extents == [h \in DOMAIN live |-> [addr |-> live[h].addr, size |-> live[h].padded]]

-----------------------------------------------------------------------------
(* Properties.                                                             *)

(* Type invariant.                                                         *)
TypeOK ==
  /\ \A e \in blocks : e.base \in BlockBases /\ e.size \in Nat
  /\ {base, current, cap} \subseteq Nat
  /\ next_id \in 0..MaxIds
  /\ DOMAIN live \subseteq 1..next_id
  /\ \A h \in DOMAIN live : live[h] \in [addr : Nat, size : Nat, align : PowersOfTwo, padded : Nat]
  /\ {live_count, live_bytes, requested, granted} \subseteq Nat
  /\ result \in {"ok", "size_too_large", "alignment_unsupported", "out_of_memory",
                 "not_supported"}

(* Every allocation lies in one block that is held, and in the block in    *)
(* use below the pointer: what was given out is never given out again      *)
(* after a growth, and no handle outlives the blocks a reset released.     *)
InsideBlocks ==
  /\ \A h \in DOMAIN live :
       \E e \in blocks :
         /\ e.base <= live[h].addr /\ live[h].addr + live[h].padded <= e.base + e.size
         /\ e.base = base => live[h].addr + live[h].padded <= base + current
  /\ current <= cap
  /\ blocks # {} => [base |-> base, size |-> cap] \in blocks

(* statistics(): the gauges are those of the live handles, and             *)
(* internal_waste (unsigned in the code) does not wrap.                    *)
Accounting ==
  /\ live_count = Cardinality(DOMAIN live)
  /\ live_bytes = SumFunction([h \in DOMAIN live |-> live[h].size])
  /\ granted >= requested /\ granted >= live_bytes

(* "Alignment is ... honored up to each backend's declared maximum"        *)
(* (docs/DESIGN.md): an address is a multiple of the alignment asked for.  *)
AlignmentHonoured == \A h \in DOMAIN live : live[h].addr % live[h].align = 0

(* What holds of alignment instead: an address is a multiple of the least  *)
(* alignment asked for since its block was started.                        *)
AlignedToWeakest ==
  \A h \in DOMAIN live : \A e \in blocks :
    e.base <= live[h].addr /\ live[h].addr < e.base + e.size
      => \E g \in DOMAIN live :
           /\ g <= h
           /\ e.base <= live[g].addr /\ live[g].addr < e.base + e.size
           /\ live[h].addr % live[g].align = 0
=============================================================================
