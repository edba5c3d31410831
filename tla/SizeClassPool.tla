--------------------------- MODULE SizeClassPool ---------------------------
(***************************************************************************)
(* SizeClassPool (allocators/size_class_pool.hpp): a table of size         *)
(* classes, each a stack of free slots cut from blocks of its own; a       *)
(* request is served from the first class that is large enough.            *)
(*                                                                         *)
(* Every public operation holds mutex_ throughout, so each is one action.  *)
(***************************************************************************)
EXTENDS Integers, Sequences, FiniteSets, SequencesExt

CONSTANTS ClassSizes,    \* class_sizes_, in the order given to the constructor
          BlockSlots,    \* block_slots of every class
          MaxBytes,      \* max_bytes_
          MaxAllocation, \* bounds_.max_allocation_size
          BlockBases,    \* block addresses the aligned allocator may return
          Request,       \* requests considered: [size, alignment]
          MaxIds         \* bound on the number of successful allocations

PowersOfTwo == {2^k : k \in 0..12}
Class == 1..Len(ClassSizes)

Assumptions ==
  /\ ClassSizes \in Seq(Nat \ {0})
  /\ \A c \in Class : \E p \in PowersOfTwo : ClassSizes[c] <= p
  /\ BlockSlots \in Nat \ {0} /\ {MaxBytes, MaxAllocation, MaxIds} \subseteq Nat
  /\ BlockBases \subseteq Nat
  /\ Request \subseteq [size : Nat, alignment : Nat]

VARIABLES blocks,        \* blocks[c]: blocks of class c
          free_list,     \* free_list[c], used from the back
          live,          \* live_: [ptr, class_idx] behind each live handle
          next_id, total_bytes, live_count, live_bytes, requested, granted,
          result         \* ErrorCode of the last operation

backing == <<blocks, total_bytes>>
gauges == <<live_count, live_bytes, requested, granted>>
vars == <<backing, free_list, live, next_id, gauges, result>>

Handle == 1..MaxIds
Empty == [x \in {} |-> 0]

(* round_up_pow2_fn(), no slot being smaller than 16 bytes.                *)
SlotStride(c) ==
  LET least == IF ClassSizes[c] > 16 THEN ClassSizes[c] ELSE 16
  IN CHOOSE p \in PowersOfTwo : p >= least /\ \A q \in PowersOfTwo : q >= least => p <= q

BlockBytes(c) == SlotStride(c) * BlockSlots
Slot(c, base, i) == base + i * SlotStride(c)
SlotsOf(c) == {Slot(c, base, i) : base \in blocks[c], i \in 0..(BlockSlots - 1)}

Init ==
  /\ blocks = [c \in Class |-> {}] /\ free_list = [c \in Class |-> <<>>] /\ live = Empty
  /\ next_id = 0 /\ total_bytes = 0
  /\ live_count = 0 /\ live_bytes = 0 /\ requested = 0 /\ granted = 0
  /\ result = "ok"

-----------------------------------------------------------------------------
(* class_index_for(): 0 when no class covers the size.                     *)
ClassIndexFor(size) == SelectInSeq(ClassSizes, LAMBDA s : s >= size)

(* The early returns of allocate().  An alignment up to 256 is accepted,   *)
(* slots being placed at multiples of 16 all the same.                     *)
Admission(req) ==
  IF req.size > MaxAllocation THEN "size_too_large"
  ELSE IF req.alignment # 0 /\ ~ (req.alignment \in PowersOfTwo /\ req.alignment <= 256)
       THEN "alignment_unsupported"
  ELSE IF ClassIndexFor(req.size) = 0 THEN "size_too_large"
  ELSE "ok"

Fails(code) ==
  /\ result' = code
  /\ UNCHANGED <<backing, free_list, live, next_id, gauges>>

AllocateRejected(req) == Admission(req) # "ok" /\ Fails(Admission(req))

(* Hands out the slot at the back of the stack of class c.                 *)
Take(c, stack, req) ==
  LET id == next_id + 1
      entry == [ptr |-> Last(stack), class_idx |-> c]
  IN /\ free_list' = [free_list EXCEPT ![c] = Front(stack)]
     /\ live' = [h \in DOMAIN live \cup {id} |-> IF h = id THEN entry ELSE live[h]]
     /\ next_id' = id
     /\ live_count' = live_count + 1
     /\ live_bytes' = live_bytes + ClassSizes[c]
     /\ requested' = requested + req.size
     /\ granted' = granted + ClassSizes[c]
     /\ result' = "ok"

Allocate(req) ==
  LET c == ClassIndexFor(req.size)
  IN /\ Admission(req) = "ok" /\ next_id < MaxIds
     /\ free_list[c] # <<>>
     /\ Take(c, free_list[c], req)
     /\ UNCHANGED backing

(* A block of class c there meets none that is held.                       *)
Vacant(c, base) ==
  \A d \in Class : \A b \in blocks[d] : \/ base + BlockBytes(c) <= b
                                       \/ b + BlockBytes(d) <= base

MayGrow(c) == total_bytes + BlockBytes(c) <= MaxBytes

AllocateGrow(req) ==
  LET c == ClassIndexFor(req.size)
  IN /\ Admission(req) = "ok" /\ next_id < MaxIds
     /\ free_list[c] = <<>> /\ MayGrow(c)
     /\ \E base \in {b \in BlockBases : Vacant(c, b)} :
          /\ blocks' = [blocks EXCEPT ![c] = @ \cup {base}]
          /\ Take(c, [i \in 1..BlockSlots |-> Slot(c, base, i - 1)], req)
     /\ total_bytes' = total_bytes + BlockBytes(c)

(* No growth is allowed, or the aligned allocator returned null.           *)
AllocateExhausted(req) ==
  LET c == ClassIndexFor(req.size)
  IN /\ Admission(req) = "ok"
     /\ free_list[c] = <<>>
     /\ Fails(IF MayGrow(c) THEN "out_of_memory" ELSE "capacity_exceeded")

-----------------------------------------------------------------------------
FreeUnknown(h) == h \notin DOMAIN live /\ Fails("invalid_handle")

(* The class whose stack a freed slot goes back to.                        *)
HomeClass(h) == live[h].class_idx

Free(h) ==
  /\ h \in DOMAIN live
  /\ LET size == ClassSizes[HomeClass(h)]
     IN /\ free_list' = [free_list EXCEPT ![HomeClass(h)] = Append(@, live[h].ptr)]
        /\ live_bytes' = IF live_bytes >= size THEN live_bytes - size ELSE live_bytes
  /\ live' = [g \in DOMAIN live \ {h} |-> live[g]]
  /\ live_count' = IF live_count > 0 THEN live_count - 1 ELSE live_count
  /\ result' = "ok"
  /\ UNCHANGED <<backing, next_id, requested, granted>>

(* trim() keeps every block.                                               *)
Trim == Fails("ok")

(* reset() and shutdown() do the same to everything that is read later.    *)
ReleaseAll ==
  /\ blocks' = [c \in Class |-> {}] /\ free_list' = [c \in Class |-> <<>>]
  /\ live' = Empty
  /\ total_bytes' = 0 /\ live_count' = 0 /\ live_bytes' = 0
  /\ result' = "ok"
  /\ UNCHANGED <<next_id, requested, granted>>

Next ==
  \/ \E req \in Request : AllocateRejected(req) \/ Allocate(req)
                        \/ AllocateGrow(req) \/ AllocateExhausted(req)
  \/ \E h \in Handle : FreeUnknown(h) \/ Free(h)
  \/ Trim
  \/ ReleaseAll

Spec == Init /\ [][Next]_vars

(* What the caller owns through each handle.                               *)
extents ==
  [h \in DOMAIN live |-> [addr |-> live[h].ptr, size |-> ClassSizes[live[h].class_idx]]]

-----------------------------------------------------------------------------
(* Properties.                                                             *)

(* Type invariant.                                                         *)
TypeOK ==
  /\ blocks \in [Class -> SUBSET BlockBases]
  /\ \A c \in Class : free_list[c] \in Seq(Nat)
  /\ next_id \in 0..MaxIds
  /\ DOMAIN live \subseteq 1..next_id
  /\ \A h \in DOMAIN live : live[h].ptr \in Nat /\ live[h].class_idx \in Class
  /\ {live_count, live_bytes, requested, granted} \subseteq Nat
  /\ total_bytes \in 0..MaxBytes
  /\ result \in {"ok", "size_too_large", "alignment_unsupported", "capacity_exceeded",
                 "out_of_memory", "invalid_handle"}

LiveSlots(c) == {live[h].ptr : h \in {g \in DOMAIN live : live[g].class_idx = c}}

(* "Pool bucket mismatch" and "size-class mismatch" (docs/HARDENING.md): a *)
(* slot never changes class.  Every slot of a class's blocks is on that    *)
(* class's stack once or behind one handle of that class.                  *)
SlotsStayInClass ==
  /\ \A c \in Class :
       /\ IsInjective(free_list[c])
       /\ ToSet(free_list[c]) \cup LiveSlots(c) = SlotsOf(c)
       /\ ToSet(free_list[c]) \cap LiveSlots(c) = {}
  /\ \A g, h \in DOMAIN live : live[g].ptr = live[h].ptr => g = h

(* statistics(): reserved bytes are the blocks held, the gauges agree with *)
(* the handles and internal_waste (unsigned in the code) does not wrap.    *)
Accounting ==
  /\ total_bytes = SumFunction([c \in Class |-> BlockBytes(c) * Cardinality(blocks[c])])
  /\ live_count = Cardinality(DOMAIN live)
  /\ live_bytes = SumFunction([h \in DOMAIN live |-> ClassSizes[live[h].class_idx]])
  /\ granted >= requested /\ granted >= live_bytes
=============================================================================
