----------------------------- MODULE FixedPool -----------------------------
(***************************************************************************)
(* FixedPool (allocators/fixed_pool.hpp): objects of one size in slots cut *)
(* from blocks of equally many slots, a stack of free slots, and a         *)
(* capacity counted in slots.                                              *)
(*                                                                         *)
(* Every public operation holds mutex_ throughout, so each is one action.  *)
(***************************************************************************)
EXTENDS Integers, Sequences, FiniteSets, SequencesExt

CONSTANTS ObjectSize,    \* object_size_
          Capacity,      \* capacity_
          Align,         \* align_
          BlockSlots,    \* block_slots_: slots a growth adds
          BlockBases,    \* block addresses the aligned allocator may return
          Request,       \* requests considered: [size, alignment]
          MaxIds         \* bound on the number of successful allocations

PowersOfTwo == {2^k : k \in 0..12}

Assumptions ==
  /\ {ObjectSize, BlockSlots} \subseteq Nat \ {0} /\ {Capacity, MaxIds} \subseteq Nat
  /\ Align \in PowersOfTwo /\ \E p \in PowersOfTwo : ObjectSize <= p
  /\ \A b \in BlockBases : b \in Nat /\ b % Align = 0
  /\ Request \subseteq [size : Nat, alignment : Nat]

VARIABLES blocks,        \* blocks_
          free_list,     \* free_list_, used from the back
          live,          \* live_: slot behind each live handle
          next_id, total_slots, live_count, live_bytes,
          closed,        \* history: shutdown() was called
          result         \* ErrorCode of the last operation

slots == <<blocks, total_slots>>
gauges == <<live_count, live_bytes>>
vars == <<slots, free_list, live, next_id, gauges, closed, result>>

Handle == 1..MaxIds
Empty == [x \in {} |-> 0]

(* slot_stride_: the object or its alignment, rounded up to a power of two. *)
SlotStride ==
  LET least == IF ObjectSize > Align THEN ObjectSize ELSE Align
  IN CHOOSE p \in PowersOfTwo : p >= least /\ \A q \in PowersOfTwo : q >= least => p <= q

Slot(base, i) == base + i * SlotStride
SlotsOf(base) == {Slot(base, i) : i \in 0..(BlockSlots - 1)}

Init ==
  /\ blocks = {} /\ free_list = <<>> /\ live = Empty
  /\ next_id = 0 /\ total_slots = 0 /\ live_count = 0 /\ live_bytes = 0
  /\ closed = FALSE /\ result = "ok"

-----------------------------------------------------------------------------
(* The early returns of allocate(); alignment 0 asks for the pool's own.   *)
Admission(req) ==
  IF req.size > ObjectSize THEN "size_too_large"
  ELSE IF req.alignment # 0 /\ ~ (req.alignment \in PowersOfTwo /\ req.alignment <= Align)
       THEN "alignment_unsupported"
  ELSE "ok"

Fails(code) ==
  /\ result' = code
  /\ UNCHANGED <<slots, free_list, live, next_id, gauges, closed>>

AllocateRejected(req) == Admission(req) # "ok" /\ Fails(Admission(req))

(* Hands out the slot at the back of the stack.                            *)
Take(stack) ==
  LET id == next_id + 1
  IN /\ free_list' = Front(stack)
     /\ live' = [h \in DOMAIN live \cup {id} |-> IF h = id THEN Last(stack) ELSE live[h]]
     /\ next_id' = id
     /\ live_count' = live_count + 1
     /\ live_bytes' = live_bytes + ObjectSize
     /\ result' = "ok"
     /\ UNCHANGED closed

Allocate(req) ==
  /\ Admission(req) = "ok" /\ next_id < MaxIds
  /\ free_list # <<>>
  /\ Take(free_list)
  /\ UNCHANGED slots

(* A block there meets none that is held.                                  *)
Vacant(base) ==
  \A b \in blocks : \/ base + BlockSlots * SlotStride <= b
                    \/ b + BlockSlots * SlotStride <= base

MayGrow == total_slots + BlockSlots <= Capacity

(* grow_block() pushes the slots of a new block in address order.          *)
AllocateGrow(req) ==
  /\ Admission(req) = "ok" /\ next_id < MaxIds
  /\ free_list = <<>> /\ MayGrow
  /\ \E base \in {b \in BlockBases : Vacant(b)} :
       /\ blocks' = blocks \cup {base}
       /\ Take([i \in 1..BlockSlots |-> Slot(base, i - 1)])
  /\ total_slots' = total_slots + BlockSlots

(* No growth is allowed, or the aligned allocator returned null.           *)
AllocateExhausted(req) ==
  /\ Admission(req) = "ok"
  /\ free_list = <<>>
  /\ Fails(IF MayGrow THEN "out_of_memory" ELSE "capacity_exceeded")

-----------------------------------------------------------------------------
FreeUnknown(h) == h \notin DOMAIN live /\ Fails("invalid_handle")

(* Mutant of Free: the handle stays in the table.                          *)
FreeKeepingHandle(h) ==
  /\ h \in DOMAIN live
  /\ free_list' = Append(free_list, live[h])
  /\ live_count' = IF live_count > 0 THEN live_count - 1 ELSE live_count
  /\ live_bytes' = IF live_bytes >= ObjectSize THEN live_bytes - ObjectSize ELSE live_bytes
  /\ result' = "ok"
  /\ UNCHANGED <<slots, live, next_id, closed>>

Free(h) ==
  /\ h \in DOMAIN live
  /\ free_list' = Append(free_list, live[h])
  /\ live' = [g \in DOMAIN live \ {h} |-> live[g]]
  /\ live_count' = IF live_count > 0 THEN live_count - 1 ELSE live_count
  /\ live_bytes' = IF live_bytes >= ObjectSize THEN live_bytes - ObjectSize ELSE live_bytes
  /\ result' = "ok"
  /\ UNCHANGED <<slots, next_id, closed>>

(* trim() keeps every block.                                               *)
Trim == Fails("ok")

Discard ==
  /\ blocks' = {} /\ free_list' = <<>> /\ live' = Empty
  /\ live_count' = 0 /\ live_bytes' = 0
  /\ result' = "ok"
  /\ UNCHANGED next_id

(* Mutant of Reset: the slots of the released blocks stay counted.         *)
ResetKeepingTotal == Discard /\ UNCHANGED <<total_slots, closed>>

Reset == Discard /\ total_slots' = 0 /\ UNCHANGED closed

(* shutdown() releases the blocks and leaves total_slots_ as it is.        *)
Shutdown == Discard /\ closed' = TRUE /\ UNCHANGED total_slots

Next ==
  \/ \E req \in Request : AllocateRejected(req) \/ Allocate(req)
                        \/ AllocateGrow(req) \/ AllocateExhausted(req)
  \/ \E h \in Handle : FreeUnknown(h) \/ Free(h)
  \/ Trim
  \/ Reset
  \/ Shutdown

Spec == Init /\ [][Next]_vars

(* What the caller owns through each handle.                               *)
extents == [h \in DOMAIN live |-> [addr |-> live[h], size |-> ObjectSize]]

-----------------------------------------------------------------------------
(* Properties.                                                             *)

(* Type invariant.                                                         *)
TypeOK ==
  /\ blocks \subseteq BlockBases
  /\ free_list \in Seq(UNION {SlotsOf(b) : b \in blocks})
  /\ next_id \in 0..MaxIds
  /\ DOMAIN live \subseteq 1..next_id
  /\ total_slots \in Nat /\ live_count \in Nat /\ live_bytes \in Nat
  /\ closed \in BOOLEAN
  /\ result \in {"ok", "size_too_large", "alignment_unsupported", "capacity_exceeded",
                 "out_of_memory", "invalid_handle"}

LiveSlots == {live[h] : h \in DOMAIN live}

(* Every slot of every block is on the stack once or behind one handle;    *)
(* the gauges statistics() reports agree with the handles.                 *)
SlotsConserved ==
  /\ IsInjective(free_list)
  /\ ToSet(free_list) \cup LiveSlots = UNION {SlotsOf(b) : b \in blocks}
  /\ ToSet(free_list) \cap LiveSlots = {}
  /\ Cardinality(LiveSlots) = Cardinality(DOMAIN live)
  /\ live_count = Cardinality(DOMAIN live)
  /\ live_bytes = ObjectSize * live_count

(* What is handed out leaves no room for another block: the only case in   *)
(* which the pool should refuse for its capacity, whatever was freed and   *)
(* reset before.  (After shutdown() it refuses sooner: the slots released  *)
(* there stay counted.)                                                    *)
Full == Cardinality(DOMAIN live) + BlockSlots > Capacity

(* The capacity is never passed, after shutdown() neither.                 *)
WithinCapacity == BlockSlots * Cardinality(blocks) <= Capacity
=============================================================================
