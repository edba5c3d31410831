------------------------- MODULE AllocatorContract -------------------------
(***************************************************************************)
(* What AllocatorStrategy (allocator.hpp) promises its caller, whatever    *)
(* the strategy does inside: an allocation publishes an id that was never  *)
(* published before together with memory that no other live allocation     *)
(* owns; that memory stays where it is until the id is freed or the whole  *)
(* strategy is reset or shut down, or the caller reallocates it; every     *)
(* other outcome publishes nothing.                                        *)
(*                                                                         *)
(* The strategies' modules implement this specification under a refinement *)
(* mapping.  A failed call, a query and a free of a handle that is not     *)
(* live are stuttering steps here.                                         *)
(***************************************************************************)
EXTENDS Integers

CONSTANT AllocationId    \* ids a strategy may publish

VARIABLES issued,        \* ids published so far
          live           \* live[id]: the extent the caller owns through id

cvars == <<issued, live>>

Extent == [addr : Nat, size : Nat \ {0}]

(* The byte ranges of two extents do not meet.                             *)
Apart(e, f) == e.addr + e.size <= f.addr \/ f.addr + f.size <= e.addr

Init ==
  /\ issued = {}
  /\ live = [h \in {} |-> {}]

(* allocate() succeeds: a fresh id, memory nobody owns, and nobody else's  *)
(* memory moves.                                                           *)
Allocate(id) ==
  /\ id \notin issued
  /\ issued' = issued \cup {id}
  /\ DOMAIN live' = DOMAIN live \cup {id}
  /\ live'[id] \in Extent
  /\ \A h \in DOMAIN live : live'[h] = live[h] /\ Apart(live'[id], live[h])

(* free() of a live handle.                                                *)
Free(h) ==
  /\ h \in DOMAIN live
  /\ live' = [g \in DOMAIN live \ {h} |-> live[g]]
  /\ UNCHANGED issued

(* reallocate() of a live handle: the handle stays, its memory may move.   *)
Reallocate(h) ==
  /\ h \in DOMAIN live
  /\ DOMAIN live' = DOMAIN live
  /\ live'[h] \in Extent
  /\ \A g \in DOMAIN live \ {h} : live'[g] = live[g] /\ Apart(live'[h], live[g])
  /\ UNCHANGED issued

(* reset() and shutdown() invalidate every handle at once.  The ids stay   *)
(* spent: the next allocation continues the numbering.                     *)
Discard ==
  /\ live' = [h \in {} |-> {}]
  /\ UNCHANGED issued

Next ==
  \/ \E id \in AllocationId : Allocate(id)
  \/ \E h \in DOMAIN live : Free(h) \/ Reallocate(h)
  \/ Discard

Spec == Init /\ [][Next]_cvars
=============================================================================
