--------------------------- MODULE SlabAllocator ---------------------------
(***************************************************************************)
(* SlabAllocator (allocators/slab_allocator.hpp): objects of one size in   *)
(* slots of page-sized, page-aligned slabs, with a free list per slab; the *)
(* slab of a slot is found by masking the slot's address.                  *)
(*                                                                         *)
(* Every public operation holds mutex_ throughout, so each is one action.  *)
(***************************************************************************)
EXTENDS Integers, Sequences, FiniteSets, SequencesExt

CONSTANTS ObjectSize,    \* object_size_
          PageSize,      \* page_size_
          HeaderSize,    \* header_size, reserved at the start of a page
          MaxBytes,      \* max_bytes_
          PageBases,     \* page addresses the aligned allocator may return
          Request,       \* requests considered: [size, alignment]
          MaxIds         \* bound on the number of successful allocations

ASSUME SlabAssumption ==
  /\ {ObjectSize, PageSize} \subseteq Nat \ {0} /\ {HeaderSize, MaxBytes, MaxIds} \subseteq Nat
  /\ \A b \in PageBases : b \in Nat /\ b % PageSize = 0
  /\ Request \subseteq [size : Nat, alignment : Nat]

VARIABLES slabs,         \* slabs_: [base, free_list] in the order of creation
          live,          \* live_: slot behind each live handle
          next_id, live_count, live_bytes, total_bytes,
          requested,     \* requested_bytes_
          granted,       \* granted_bytes_
          growth,        \* growth_events_
          recovered,     \* trim_recovered_bytes_
          result         \* ErrorCode of the last operation

handles == <<live, next_id, live_count, live_bytes, requested, granted>>
vars == <<slabs, total_bytes, growth, recovered, handles, result>>

Handle == 1..MaxIds
Empty == [x \in {} |-> 0]

AlignUp(v, a) == ((v + a - 1) \div a) * a
Stride == AlignUp(IF ObjectSize > 16 THEN ObjectSize ELSE 16, 16)

(* An object fits a page, behind its header.  (The constructor does not    *)
(* check this: the slot of a larger one runs past its page.)               *)
ASSUME ObjectFits == HeaderSize + Stride <= PageSize

(* The constructor puts one slot in a page that holds none.                *)
SlotsPerSlab ==
  LET fit == (PageSize - HeaderSize) \div Stride IN IF fit = 0 THEN 1 ELSE fit

Slot(base, i) == base + HeaderSize + i * Stride
SlotsOf(base) == {Slot(base, i) : i \in 0..(SlotsPerSlab - 1)}

(* slab_of(): the page a slot address lies in.                             *)
PageOf(slot) == slot - (slot % PageSize)
SlabOf(slot) == SelectInSeq(slabs, LAMBDA s : s.base = PageOf(slot))

Init ==
  /\ slabs = <<>> /\ live = Empty
  /\ next_id = 0 /\ live_count = 0 /\ live_bytes = 0 /\ total_bytes = 0
  /\ requested = 0 /\ granted = 0 /\ growth = 0 /\ recovered = 0
  /\ result = "ok"

-----------------------------------------------------------------------------
Admission(req) ==
  IF req.size > ObjectSize THEN "size_too_large"
  ELSE IF req.alignment \notin {0, 1, 2, 4, 8, 16} THEN "alignment_unsupported"
  ELSE "ok"

AllocateRejected(req) ==
  /\ Admission(req) # "ok"
  /\ result' = Admission(req)
  /\ UNCHANGED <<slabs, total_bytes, growth, recovered, handles>>

(* find_slab_with_free(): 0 when every slab is full.                       *)
SlabWithFree == SelectInSeq(slabs, LAMBDA s : s.free_list # <<>>)

(* The slot at the back of the free list of slab i of ss.                  *)
Take(ss, i, req) ==
  LET slot == Last(ss[i].free_list)
      id == next_id + 1
  IN /\ slabs' = [ss EXCEPT ![i].free_list = Front(@)]
     /\ live' = [h \in DOMAIN live \cup {id} |-> IF h = id THEN slot ELSE live[h]]
     /\ next_id' = id
     /\ live_count' = live_count + 1
     /\ live_bytes' = live_bytes + ObjectSize
     /\ requested' = requested + req.size
     /\ granted' = granted + ObjectSize
     /\ result' = "ok"

Allocate(req) ==
  /\ Admission(req) = "ok"
  /\ next_id < MaxIds
  /\ SlabWithFree > 0
  /\ Take(slabs, SlabWithFree, req)
  /\ UNCHANGED <<total_bytes, growth, recovered>>

MayGrow == total_bytes + PageSize <= MaxBytes

(* grow_slab() appends a slab whose free list has every slot.              *)
AllocateGrow(req) ==
  /\ Admission(req) = "ok"
  /\ next_id < MaxIds
  /\ SlabWithFree = 0 /\ MayGrow
  /\ \E base \in PageBases \ {s.base : s \in ToSet(slabs)} :
       LET slab == [base |-> base,
                    free_list |-> [i \in 1..SlotsPerSlab |-> Slot(base, i - 1)]]
       IN Take(Append(slabs, slab), Len(slabs) + 1, req)
  /\ total_bytes' = total_bytes + PageSize
  /\ growth' = growth + 1
  /\ UNCHANGED recovered

(* The limit is reached, or the page allocator returns null.               *)
AllocateExhausted(req) ==
  /\ Admission(req) = "ok"
  /\ SlabWithFree = 0
  /\ result' = "capacity_exceeded"
  /\ UNCHANGED <<slabs, total_bytes, growth, recovered, handles>>

-----------------------------------------------------------------------------
FreeUnknown(h) ==
  /\ h \notin DOMAIN live
  /\ result' = "invalid_handle"
  /\ UNCHANGED <<slabs, total_bytes, growth, recovered, handles>>

Free(h) ==
  /\ h \in DOMAIN live
  /\ LET i == SlabOf(live[h])
     IN /\ i > 0
        /\ slabs' = [slabs EXCEPT ![i].free_list = Append(@, live[h])]
  /\ live' = [g \in DOMAIN live \ {h} |-> live[g]]
  /\ live_count' = IF live_count > 0 THEN live_count - 1 ELSE live_count
  /\ live_bytes' = IF live_bytes >= ObjectSize THEN live_bytes - ObjectSize ELSE live_bytes
  /\ result' = "ok"
  /\ UNCHANGED <<total_bytes, growth, recovered, next_id, requested, granted>>

(* release_empty_slabs(): the slabs whose free list has every slot.        *)
Idle(s) == Len(s.free_list) = SlotsPerSlab

(* The positions in I from the lowest to the highest.                      *)
InOrder(I) ==
  {f \in [1..Cardinality(I) -> I] : \A i, j \in DOMAIN f : i < j => f[i] < f[j]}

Trim ==
  LET kept == {i \in DOMAIN slabs : ~ Idle(slabs[i])}
      freed == PageSize * (Len(slabs) - Cardinality(kept))
  IN /\ \E f \in InOrder(kept) : slabs' = [n \in DOMAIN f |-> slabs[f[n]]]
     /\ total_bytes' = total_bytes - freed
     /\ recovered' = recovered + freed
     /\ result' = "ok"
     /\ UNCHANGED <<growth, handles>>

(* reset() and shutdown() do the same.                                     *)
ReleaseAll ==
  /\ slabs' = <<>> /\ live' = Empty
  /\ live_count' = 0 /\ live_bytes' = 0 /\ total_bytes' = 0
  /\ result' = "ok"
  /\ UNCHANGED <<next_id, requested, granted, growth, recovered>>

Next ==
  \/ \E req \in Request : AllocateRejected(req) \/ Allocate(req)
                        \/ AllocateGrow(req) \/ AllocateExhausted(req)
  \/ \E h \in Handle : FreeUnknown(h) \/ Free(h)
  \/ Trim
  \/ ReleaseAll

Spec == Init /\ [][Next]_vars

(* What the caller owns through each handle.                               *)
extents == [h \in DOMAIN live |-> [addr |-> live[h], size |-> ObjectSize]]

-----------------------------------------------------------------------------
(* Properties.                                                             *)

(* Type invariant.                                                         *)
TypeOK ==
  /\ \A s \in ToSet(slabs) : s.base \in PageBases /\ s.free_list \in Seq(SlotsOf(s.base))
  /\ next_id \in 0..MaxIds
  /\ DOMAIN live \subseteq 1..next_id
  /\ \A h \in DOMAIN live : live[h] \in UNION {SlotsOf(b) : b \in PageBases}
  /\ {live_count, live_bytes, requested, granted, growth, recovered} \subseteq Nat
  /\ total_bytes \in 0..MaxBytes
  /\ result \in {"ok", "size_too_large", "alignment_unsupported", "capacity_exceeded",
                "invalid_handle"}

LiveSlots == {live[h] : h \in DOMAIN live}

(* Every slot of every slab is on that slab's free list once or behind one *)
(* handle, never both and never lost, across any order of frees and trims; *)
(* and a handle's slab exists, so free() cannot take its second            *)
(* invalid_handle exit and trim() cannot release memory in use.            *)
SlotsConserved ==
  /\ \A s \in ToSet(slabs) :
       /\ IsInjective(s.free_list)
       /\ ToSet(s.free_list) = SlotsOf(s.base) \ LiveSlots
  /\ LiveSlots \subseteq UNION {SlotsOf(s.base) : s \in ToSet(slabs)}
  /\ Cardinality(LiveSlots) = Cardinality(DOMAIN live)
  /\ Cardinality({s.base : s \in ToSet(slabs)}) = Len(slabs)

(* statistics(): reserved bytes are the pages held, what trim() says it    *)
(* recovered is what it released, the gauges agree with the handles and    *)
(* internal_waste (unsigned in the code) does not wrap.                    *)
Accounting ==
  /\ total_bytes = PageSize * Len(slabs)
  /\ total_bytes + recovered <= PageSize * growth
  /\ live_count = Cardinality(DOMAIN live)
  /\ live_bytes = ObjectSize * live_count
  /\ granted >= requested /\ granted >= live_bytes
=============================================================================
