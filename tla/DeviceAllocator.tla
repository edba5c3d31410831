-------------------------- MODULE DeviceAllocator --------------------------
(***************************************************************************)
(* CudaDirectAllocator, CudaPoolAllocator and PinnedAllocator              *)
(* (allocators/cuda_allocator.hpp, cuda_pool_allocator.hpp,                *)
(* pinned_allocator.hpp), built with CUDA: a record of what the driver     *)
(* gave out for each handle.  Any call to the driver may fail.             *)
(*                                                                         *)
(* Every public operation but sync(), which only calls the driver, holds   *)
(* mutex_ throughout, so each is one action.                               *)
(***************************************************************************)
EXTENDS Integers, FiniteSets, Functions

CONSTANTS Pinned,        \* TRUE: PinnedAllocator, with a budget
          Trims,         \* TRUE: CudaPoolAllocator, which supports trim()
          Budget,        \* budget_bytes_, or bounds_.max_allocation_size
          DriverAlign,   \* the alignment the driver gives: 256
          MaxAlign,      \* the largest alignment accepted
          Addresses,     \* addresses the driver may return
          DriverErrors,  \* what cuda_to_error() makes of its failures
          Request,       \* requests considered: [size, alignment]
          MaxIds         \* bound on the number of successful allocations

PowersOfTwo == {2^k : k \in 0..16}

Assumptions ==
  /\ {Pinned, Trims} \subseteq BOOLEAN
  /\ {DriverAlign, MaxAlign} \subseteq PowersOfTwo
  /\ {Budget, MaxIds} \subseteq Nat
  /\ \A a \in Addresses : a \in Nat /\ a % DriverAlign = 0
  /\ Request \subseteq [size : Nat, alignment : Nat]

VARIABLES live,          \* records_: [ptr, size] of each live handle
          next_id, live_count, live_bytes, requested, granted,
          total_bytes,   \* allocated_bytes_, of PinnedAllocator only
          driver,        \* driver: the memory it has given out
          leaked,        \* (history) what a shutdown() failed to give back
          result         \* ErrorCode of the last operation

gauges == <<live_count, live_bytes, requested, granted, total_bytes>>
vars == <<live, next_id, gauges, driver, leaked, result>>

Handle == 1..MaxIds
Empty == [x \in {} |-> 0]

Init ==
  /\ live = Empty /\ next_id = 0
  /\ live_count = 0 /\ live_bytes = 0 /\ requested = 0 /\ granted = 0 /\ total_bytes = 0
  /\ driver = {} /\ leaked = {}
  /\ result = "ok"

(* Memory the driver may give: at its own alignment, clear of the rest.    *)
Provided(size) ==
  {m \in [ptr : Addresses, size : {size}] :
     \A o \in driver : m.ptr + m.size <= o.ptr \/ o.ptr + o.size <= m.ptr}

Fails(code) == result' = code /\ UNCHANGED <<live, next_id, gauges, driver, leaked>>

-----------------------------------------------------------------------------
(* allocate().                                                             *)

Sz(req) == IF req.size = 0 THEN 1 ELSE req.size

(* The budget is compared with the size asked for, and grows by at least 1.*)
Admission(req) ==
  IF req.size > Budget THEN "size_too_large"
  ELSE IF Pinned /\ total_bytes + req.size > Budget THEN "capacity_exceeded"
  ELSE IF req.alignment # 0 /\ (req.alignment \notin PowersOfTwo \/ req.alignment > MaxAlign)
  THEN "alignment_unsupported"
  ELSE "ok"

AllocateRejected(req) == Admission(req) # "ok" /\ Fails(Admission(req))

AllocateRefused(req) == Admission(req) = "ok" /\ \E code \in DriverErrors : Fails(code)

Allocate(req) ==
  LET id == next_id + 1
  IN /\ Admission(req) = "ok" /\ next_id < MaxIds
     /\ \E m \in Provided(Sz(req)) :
          /\ live' = [h \in DOMAIN live \cup {id} |-> IF h = id THEN m ELSE live[h]]
          /\ driver' = driver \cup {m}
     /\ next_id' = id
     /\ live_count' = live_count + 1
     /\ live_bytes' = live_bytes + Sz(req)
     /\ requested' = requested + req.size
     /\ granted' = granted + Sz(req)
     /\ total_bytes' = IF Pinned THEN total_bytes + Sz(req) ELSE total_bytes
     /\ result' = "ok"
     /\ UNCHANGED leaked

-----------------------------------------------------------------------------
(* free() and shutdown().                                                  *)

FreeUnknown(h) == h \notin DOMAIN live /\ Fails("invalid_handle")

Guarded(gauge, by) == IF gauge >= by THEN gauge - by ELSE gauge

(* What free() does to the record and the gauges.                          *)
Dropped(h) ==
  /\ live' = [g \in DOMAIN live \ {h} |-> live[g]]
  /\ live_count' = Guarded(live_count, 1)
  /\ live_bytes' = Guarded(live_bytes, live[h].size)
  /\ total_bytes' = IF live[h].size <= total_bytes /\ Pinned
                    THEN total_bytes - live[h].size ELSE 0
  /\ UNCHANGED <<next_id, requested, granted, leaked>>

(* Mutant of FreeRefused: the record is dropped first.                     *)
FreeRefusedDropping(h) ==
  /\ h \in DOMAIN live
  /\ Dropped(h) /\ result' \in DriverErrors
  /\ UNCHANGED driver

(* The record outlives a failure of the driver: free() may be called again.*)
FreeRefused(h) == h \in DOMAIN live /\ \E code \in DriverErrors : Fails(code)

Free(h) ==
  /\ h \in DOMAIN live
  /\ Dropped(h)
  /\ driver' = driver \ {live[h]}
  /\ result' = "ok"

(* The driver's answers are ignored: what it does not take back is lost.   *)
Shutdown ==
  /\ \E kept \in SUBSET Range(live) :
       driver' = (driver \ Range(live)) \cup kept /\ leaked' = leaked \cup kept
  /\ live' = Empty
  /\ live_count' = 0 /\ live_bytes' = 0 /\ total_bytes' = 0
  /\ result' = "ok"
  /\ UNCHANGED <<next_id, requested, granted>>

(* cudaDeviceSynchronize(), whose failure trim() does not report.          *)
Trim == Fails(IF Trims THEN "ok" ELSE "not_supported")

Next ==
  \/ \E req \in Request : AllocateRejected(req) \/ AllocateRefused(req) \/ Allocate(req)
  \/ \E h \in Handle : FreeUnknown(h) \/ FreeRefused(h) \/ Free(h)
  \/ Shutdown \/ Trim

Spec == Init /\ [][Next]_vars

(* What the caller owns through each handle.                               *)
extents == [h \in DOMAIN live |-> [addr |-> live[h].ptr, size |-> live[h].size]]

-----------------------------------------------------------------------------
(* Properties.                                                             *)

(* Type invariant.                                                         *)
TypeOK ==
  /\ next_id \in 0..MaxIds /\ DOMAIN live \subseteq 1..next_id
  /\ Range(live) \cup driver \cup leaked \subseteq [ptr : Addresses, size : Nat]
  /\ {live_count, live_bytes, requested, granted, total_bytes} \subseteq Nat
  /\ result \in DriverErrors \cup {"ok", "size_too_large", "capacity_exceeded",
                                   "alignment_unsupported", "invalid_handle", "not_supported"}

(* The records name exactly the memory the driver has given out and not    *)
(* got back, whichever of its calls failed, but for what shutdown() failed *)
(* to give back; the gauges are exact, and pinned memory stays within its  *)
(* budget, but for one byte of a request of size 0.                        *)
Accounting ==
  /\ Range(live) \cap leaked = {} /\ driver = Range(live) \cup leaked
  /\ Cardinality(Range(live)) = live_count /\ live_count = Cardinality(DOMAIN live)
  /\ live_bytes = SumFunction([h \in DOMAIN live |-> live[h].size])
  /\ granted >= live_bytes
  /\ Pinned => total_bytes = live_bytes /\ total_bytes <= Budget + 1
=============================================================================
