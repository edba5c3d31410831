--------------------------- MODULE HeapAllocator ---------------------------
(***************************************************************************)
(* SystemAllocator (allocators/system_allocator.hpp) and AlignedAllocator  *)
(* (allocators/aligned_allocator.hpp): a record of what the C library gave *)
(* out for each handle.  The two differ in the function called and in what *)
(* reallocate() does; Realigns says which of the two this is.              *)
(*                                                                         *)
(* Every public operation holds mutex_ throughout, so each is one action.  *)
(***************************************************************************)
EXTENDS Integers, FiniteSets, Functions

CONSTANTS Realigns,      \* TRUE: AlignedAllocator; FALSE: SystemAllocator
          MaxAlign,      \* max_align_; what malloc() aligns to, for the other
          MaxAllocation, \* bounds_.max_allocation_size
          Default,       \* detail::default_alignment
          PointerSize,   \* least alignment posix_memalign() accepts
          Addresses,     \* addresses the C library may return
          Request,       \* requests considered: [size, alignment]
          MaxRequested,  \* bound on requested_bytes_
          MaxIds         \* bound on the number of successful allocations

PowersOfTwo == {2^k : k \in 0..16}

Assumptions ==
  /\ Realigns \in BOOLEAN
  /\ {MaxAlign, Default, PointerSize} \subseteq PowersOfTwo
  /\ ~ Realigns => MaxAlign = Default
  /\ {MaxAllocation, MaxRequested, MaxIds} \subseteq Nat
  /\ Addresses \subseteq Nat
  /\ Request \subseteq [size : Nat, alignment : Nat]

VARIABLES live,          \* records_: [ptr, size, alignment] of each live handle
          next_id, live_bytes, requested, granted,
          result         \* ErrorCode of the last operation

gauges == <<live_bytes, requested, granted>>
vars == <<live, next_id, gauges, result>>

Handle == 1..MaxIds
Empty == [x \in {} |-> 0]

AtLeastOne(size) == IF size = 0 THEN 1 ELSE size

Init ==
  /\ live = Empty /\ next_id = 0
  /\ live_bytes = 0 /\ requested = 0 /\ granted = 0
  /\ result = "ok"

-----------------------------------------------------------------------------
(* The C library.                                                          *)

(* Addresses of `size` bytes at a multiple of `align` that meet no block   *)
(* held by the handles `held`.                                             *)
Vacant(size, align, held) ==
  {p \in Addresses :
     /\ p % align = 0
     /\ \A h \in held : \/ p + AtLeastOne(size) <= live[h].ptr
                        \/ live[h].ptr + AtLeastOne(live[h].size) <= p}

(* malloc() aligns to max_align_t; posix_memalign() refuses an alignment   *)
(* below a pointer's size or not a power of two.                           *)
Provided(size, align, held) ==
  IF ~ Realigns THEN Vacant(size, Default, held)
  ELSE IF align \in PowersOfTwo /\ align >= PointerSize THEN Vacant(size, align, held)
  ELSE {}

-----------------------------------------------------------------------------
AlignOf(req) == IF req.alignment = 0 THEN Default ELSE req.alignment

Fails(code) == result' = code /\ UNCHANGED <<live, next_id, gauges>>

(* The early returns of allocate().                                        *)
Admission(req) ==
  IF req.size > MaxAllocation THEN "size_too_large"
  ELSE IF AlignOf(req) \notin PowersOfTwo THEN "invalid_alignment"
  ELSE IF AlignOf(req) > MaxAlign THEN "alignment_unsupported"
  ELSE "ok"

AllocateRejected(req) == Admission(req) # "ok" /\ Fails(Admission(req))

Allocate(req) ==
  LET id == next_id + 1
  IN /\ Admission(req) = "ok"
     /\ next_id < MaxIds /\ requested + req.size <= MaxRequested
     /\ \E p \in Provided(req.size, AlignOf(req), DOMAIN live) :
          live' = [h \in DOMAIN live \cup {id} |->
                     IF h = id THEN [ptr |-> p, size |-> req.size, alignment |-> AlignOf(req)]
                     ELSE live[h]]
     /\ next_id' = id
     /\ live_bytes' = live_bytes + req.size
     /\ requested' = requested + req.size
     /\ granted' = granted + req.size
     /\ result' = "ok"

(* The C library may return null whatever is asked for.                    *)
AllocateNull(req) == Admission(req) = "ok" /\ Fails("out_of_memory")

-----------------------------------------------------------------------------
(* The subtraction is guarded in both, with a different alternative.       *)
LiveBytesWithout(size) ==
  IF live_bytes >= size THEN live_bytes - size ELSE IF Realigns THEN live_bytes ELSE 0

FreeUnknown(h) == h \notin DOMAIN live /\ Fails("invalid_handle")

Free(h) ==
  /\ h \in DOMAIN live
  /\ live' = [g \in DOMAIN live \ {h} |-> live[g]]
  /\ live_bytes' = LiveBytesWithout(live[h].size)
  /\ result' = "ok"
  /\ UNCHANGED <<next_id, requested, granted>>

-----------------------------------------------------------------------------
(* AlignedAllocator keeps the record's alignment when none is asked for,   *)
(* and does not ask for a power of two; SystemAllocator ignores it.        *)
NewAlign(h, req) == IF Realigns /\ req.alignment # 0 THEN req.alignment ELSE live[h].alignment

ReallocateAdmission(h, req) ==
  IF h \notin DOMAIN live THEN "invalid_handle"
  ELSE IF req.size > MaxAllocation THEN "size_too_large"
  ELSE IF NewAlign(h, req) > MaxAlign THEN "alignment_unsupported"
  ELSE "ok"

ReallocateRejected(h, req) ==
  /\ ReallocateAdmission(h, req) # "ok"
  /\ Fails(ReallocateAdmission(h, req))

(* Mutant of HeldDuringReallocation: the library is told nothing is held.  *)
HeldByNone(h) == {}

(* realloc() may reuse the bytes of the old block; AlignedAllocator copies *)
(* from the old block to the new one and gives up the old one last.        *)
HeldDuringReallocation(h) == IF Realigns THEN DOMAIN live ELSE DOMAIN live \ {h}

(* What a reallocation adds to granted_bytes_; requested_bytes_ grows by   *)
(* the whole new size.                                                     *)
GrantedBy(old, new) == IF new > old THEN new - old ELSE 0

(* Memory at a multiple of `align` takes the place of the old block.       *)
ReallocateAt(h, req, align) ==
  /\ ReallocateAdmission(h, req) = "ok"
  /\ requested + req.size <= MaxRequested
  /\ \E p \in Provided(req.size, align, HeldDuringReallocation(h)) :
       live' = [live EXCEPT ![h] = [ptr |-> p, size |-> req.size,
                                    alignment |-> NewAlign(h, req)]]
  /\ live_bytes' = LiveBytesWithout(live[h].size) + req.size
  /\ granted' = granted + GrantedBy(live[h].size, req.size)
  /\ requested' = requested + req.size
  /\ result' = "ok"
  /\ UNCHANGED next_id

(* Mutant of Reallocate: the memory is asked for at the old alignment.     *)
ReallocateAtOld(h, req) == ReallocateAt(h, req, live[h].alignment)

Reallocate(h, req) == ReallocateAt(h, req, NewAlign(h, req))

(* A null keeps the original.                                              *)
ReallocateNull(h, req) == ReallocateAdmission(h, req) = "ok" /\ Fails("out_of_memory")

-----------------------------------------------------------------------------
Shutdown ==
  /\ live' = Empty
  /\ live_bytes' = 0 /\ requested' = 0 /\ granted' = 0
  /\ result' = "ok"
  /\ UNCHANGED next_id

Next ==
  \/ \E req \in Request : AllocateRejected(req) \/ Allocate(req) \/ AllocateNull(req)
  \/ \E h \in Handle : FreeUnknown(h) \/ Free(h)
  \/ \E h \in Handle, req \in Request :
       ReallocateRejected(h, req) \/ Reallocate(h, req) \/ ReallocateNull(h, req)
  \/ Shutdown

Spec == Init /\ [][Next]_vars

(* What the caller owns through each handle.                               *)
extents ==
  [h \in DOMAIN live |-> [addr |-> live[h].ptr, size |-> AtLeastOne(live[h].size)]]

-----------------------------------------------------------------------------
(* Properties.                                                             *)

(* Type invariant.                                                         *)
TypeOK ==
  /\ next_id \in 0..MaxIds
  /\ DOMAIN live \subseteq 1..next_id
  /\ \A h \in DOMAIN live : live[h] \in [ptr : Addresses, size : Nat, alignment : PowersOfTwo]
  /\ {live_bytes, requested, granted} \subseteq Nat
  /\ result \in {"ok", "size_too_large", "invalid_alignment", "alignment_unsupported",
                 "out_of_memory", "invalid_handle"}

(* A block keeps the alignment recorded for it, when it is moved too, and  *)
(* whatever alignment a reallocation asks for.                             *)
RecordsAligned == \A h \in DOMAIN live : live[h].ptr % live[h].alignment = 0

(* live_bytes_ is the sum of the records' sizes, so that the guarded       *)
(* subtractions are exact; granted bytes lie between it and the requested  *)
(* ones.  (internal_waste is granted minus requested, unsigned: it wraps   *)
(* as soon as a reallocation makes the two differ.)                        *)
Accounting ==
  /\ live_bytes = SumFunction([h \in DOMAIN live |-> live[h].size])
  /\ live_bytes <= granted /\ granted <= requested
=============================================================================
