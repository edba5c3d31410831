-------------------------- MODULE RegionAllocator --------------------------
(***************************************************************************)
(* SharedAllocator (allocators/shared_allocator.hpp) in several processes: *)
(* one named mapping with a header, a bump pointer in the header that the  *)
(* processes move by compare-and-swap, and no way to give memory back.     *)
(* MappedAllocator (mapped_allocator.hpp) allocates in the same way from a *)
(* mapped file, which outlives the processes and has no published fields.  *)
(*                                                                         *)
(* The processes that share a name meet as those of shm_creator_main.cpp   *)
(* and tests/shared_memory_proof.cpp do: the creator, under a name nobody  *)
(* uses, publishes an allocation and announces it in a file, and the       *)
(* others wait for that before they open the mapping.  A file is opened at *)
(* any time.  A process may be killed at any time, and another one take    *)
(* its place.                                                              *)
(*                                                                         *)
(* mutex_ serialises the calls on one object and says nothing about other  *)
(* processes: a step is one access to the shared header.                   *)
(***************************************************************************)
EXTENDS Integers, FiniteSets, Functions

CONSTANTS FileBacked,    \* TRUE: MappedAllocator; FALSE: SharedAllocator
          Creator,       \* the process that constructs with Mode::Create
          Openers,       \* processes that construct with Mode::Open
          MaxLives,      \* bound on the processes that take one another's place
          HeaderSize,    \* kHeader
          Total,         \* total_bytes_, the same in every process
          Grain,         \* the least alignment, 16
          MaxAlign,      \* the largest alignment accepted, 4096
          Request,       \* requests considered: [size, alignment]
          None           \* no such object, no such file

PowersOfTwo == {2^k : k \in 0..12}
Process == {Creator} \cup Openers

Assumptions ==
  /\ FileBacked \in BOOLEAN /\ MaxLives \in Nat \ {0}
  /\ FileBacked \/ MaxLives = 1   \* a name is not used again
  /\ Creator \notin Openers
  /\ {HeaderSize, Total} \subseteq Nat \ {0} /\ HeaderSize < Total
  /\ Grain \in Nat \ {0} /\ {Grain, MaxAlign} \subseteq PowersOfTwo
  /\ Request \subseteq [size : Nat, alignment : Nat]
  /\ None \notin Request \cup [offset : Nat, size : Nat]
  /\ None \notin [magic : BOOLEAN, offset : Nat, size : Nat, next : Nat]

VARIABLES object,        \* header of the named mapping or of the file, or None
          announced,     \* what the ready and meta files say, or None
          phase,         \* where each process stands
          cur, asked,    \* locals of allocate(): pointer read, request
          live,          \* live_: [offset, size] behind each live id
          result,        \* ErrorCode of the last operation of any process
          lives,         \* processes so far in each place
          past,          \* (history) extents of processes that are gone
          early          \* (history) a header was opened that had no bump pointer yet

locals == <<cur, asked>>
history == <<lives, past, early>>
vars == <<object, announced, phase, locals, live, result, history>>

Empty == [x \in {} |-> 0]

Init ==
  /\ object = None /\ announced = None
  /\ phase = [p \in Process |-> "outside"]
  /\ cur = [p \in Process |-> 0] /\ asked = [p \in Process |-> None]
  /\ live = [p \in Process |-> Empty]
  /\ result = "ok"
  /\ lives = [p \in Process |-> 1] /\ past = {} /\ early = FALSE

Inside(p) == phase[p] \notin {"outside", "left"}

(* The locals are gone when the call returns.                              *)
Forget(p) ==
  /\ cur' = [cur EXCEPT ![p] = 0]
  /\ asked' = [asked EXCEPT ![p] = None]

Becomes(p, ph, code) ==
  /\ phase' = [phase EXCEPT ![p] = ph]
  /\ result' = code

-----------------------------------------------------------------------------
(* Construction.                                                           *)

(* The mapping of a new name is zero-filled, and so is a file truncated by *)
(* CREATE_ALWAYS, which the system refuses while somebody maps it.         *)
CreateMapping ==
  /\ phase[Creator] = "outside"
  /\ \A p \in Process : ~ Inside(p)
  /\ object' = [magic |-> FALSE, offset |-> 0, size |-> 0, next |-> 0]
  /\ past' = {} /\ early' = FALSE
  /\ Becomes(Creator, "mapped", "ok")
  /\ UNCHANGED <<announced, locals, live, lives>>

CreateRefused ==
  /\ phase[Creator] = "outside" /\ FileBacked
  /\ \E p \in Process : Inside(p)
  /\ Becomes(Creator, "outside", "init_failed")
  /\ UNCHANGED <<object, announced, locals, live, history>>

(* The magic number is written first ...                                   *)
WriteMagic ==
  /\ phase[Creator] = "mapped"
  /\ object' = [object EXCEPT !.magic = TRUE]
  /\ Becomes(Creator, "marked", "ok")
  /\ UNCHANGED <<announced, locals, live, history>>

(* ... and the bump pointer last.                                          *)
WriteNext ==
  /\ phase[Creator] = "marked"
  /\ object' = [object EXCEPT !.next = HeaderSize]
  /\ Becomes(Creator, "attached", "ok")
  /\ UNCHANGED <<announced, locals, live, history>>

MayLook(p) == phase[p] = "outside" /\ (FileBacked \/ announced # None)

(* Mutant of Open: the header is initialised by whoever comes.             *)
OpenInitialising(p) ==
  /\ MayLook(p)
  /\ object # None
  /\ object' = [object EXCEPT !.magic = TRUE, !.next = HeaderSize]
  /\ Becomes(p, "attached", "ok")
  /\ UNCHANGED <<announced, locals, live, history>>

Open(p) ==
  /\ MayLook(p)
  /\ object # None /\ object.magic
  /\ early' = (early \/ object.next < HeaderSize)
  /\ Becomes(p, "attached", "ok")
  /\ UNCHANGED <<object, announced, locals, live, lives, past>>

(* The name is stale, the file missing, or the magic number not there.     *)
OpenStale(p) ==
  /\ MayLook(p)
  /\ object # None => ~ object.magic
  /\ Becomes(p, "outside", "init_failed")
  /\ UNCHANGED <<object, announced, locals, live, history>>

-----------------------------------------------------------------------------
(* Allocation.                                                             *)

AlignOf(req) == IF req.alignment = 0 THEN Grain ELSE req.alignment
AtLeastOne(size) == IF size = 0 THEN 1 ELSE size

(* The bytes a request takes from the region; where it starts is wherever  *)
(* the pointer stands, a multiple of Grain and not of the alignment.       *)
Reserved(req) ==
  LET a == IF AlignOf(req) > Grain THEN AlignOf(req) ELSE Grain
  IN ((AtLeastOne(req.size) + a - 1) \div a) * a

AllocateRejected(p, req) ==
  /\ phase[p] = "attached"
  /\ ~ (AlignOf(req) \in PowersOfTwo /\ AlignOf(req) <= MaxAlign)
  /\ Becomes(p, "attached", "alignment_unsupported")
  /\ UNCHANGED <<object, announced, locals, live, history>>

Fits(at, req) == at + Reserved(req) <= Total

(* Head of the loop: reads the pointer, and gives up when what it read     *)
(* leaves no room.                                                         *)
ReadNext(p, req) ==
  IF Fits(object.next, req)
  THEN /\ cur' = [cur EXCEPT ![p] = object.next]
       /\ asked' = [asked EXCEPT ![p] = req]
       /\ Becomes(p, "reserving", "ok")
  ELSE /\ Forget(p)
       /\ Becomes(p, "attached", "capacity_exceeded")

Allocate(p, req) ==
  /\ phase[p] = "attached"
  /\ AlignOf(req) \in PowersOfTwo /\ AlignOf(req) <= MaxAlign
  /\ ReadNext(p, req)
  /\ UNCHANGED <<object, announced, live, history>>

(* Mutant of Unmoved: the comparison is left out.                          *)
UnmovedAlways(p) == TRUE

(* The comparison of the compare-and-swap.                                 *)
Unmoved(p) == object.next = cur[p]

Reserve(p) ==
  /\ phase[p] = "reserving"
  /\ Unmoved(p)
  /\ object' = [object EXCEPT !.next = cur[p] + Reserved(asked[p])]
  /\ live' = [live EXCEPT ![p] =
       LET id == Cardinality(DOMAIN @) + 1
       IN [h \in DOMAIN @ \cup {id} |->
             IF h = id THEN [offset |-> cur[p], size |-> AtLeastOne(asked[p].size)] ELSE @[h]]]
  /\ Becomes(p, "attached", "ok") /\ Forget(p)
  /\ UNCHANGED <<announced, history>>

(* Mutant of Retry: the pointer is not read again.                         *)
RetryUnread(p) ==
  /\ phase[p] = "reserving"
  /\ ~ Unmoved(p)
  /\ UNCHANGED vars

(* Another process was faster.                                             *)
Retry(p) ==
  /\ phase[p] = "reserving"
  /\ ~ Unmoved(p)
  /\ ReadNext(p, asked[p])
  /\ UNCHANGED <<object, announced, live, history>>

(* free() is not supported.                                                *)
Free(p) ==
  /\ phase[p] = "attached"
  /\ Becomes(p, "attached", "not_supported")
  /\ UNCHANGED <<object, announced, locals, live, history>>

-----------------------------------------------------------------------------
(* publish(), two writes, and the files the creator then writes.           *)

PublishOffset(h) ==
  /\ ~ FileBacked /\ phase[Creator] = "attached" /\ announced = None
  /\ h \in DOMAIN live[Creator]
  /\ object' = [object EXCEPT !.offset = live[Creator][h].offset]
  /\ phase' = [phase EXCEPT ![Creator] = "publishing"]
  /\ cur' = [cur EXCEPT ![Creator] = h]
  /\ UNCHANGED <<announced, asked, live, result, history>>

PublishSize ==
  /\ phase[Creator] = "publishing"
  /\ object' = [object EXCEPT !.size = live[Creator][cur[Creator]].size]
  /\ Becomes(Creator, "attached", "ok") /\ Forget(Creator)
  /\ UNCHANGED <<announced, live, history>>

PublishUnknown(h) ==
  /\ ~ FileBacked /\ phase[Creator] = "attached"
  /\ h \notin DOMAIN live[Creator]
  /\ Becomes(Creator, "attached", "invalid_handle")
  /\ UNCHANGED <<object, announced, locals, live, history>>

Announce ==
  /\ phase[Creator] = "attached" /\ announced = None
  /\ object.size > 0
  /\ announced' = [offset |-> object.offset, size |-> object.size]
  /\ UNCHANGED <<object, phase, locals, live, result, history>>

-----------------------------------------------------------------------------
(* A process goes, and the system closes its handle; the named mapping     *)
(* goes with the last one, the file stays.                                 *)
Gone(p) ==
  /\ Becomes(p, "left", "ok") /\ Forget(p)
  /\ live' = [live EXCEPT ![p] = Empty]
  /\ LET stays == FileBacked \/ \E q \in Process \ {p} : Inside(q)
     IN /\ object' = IF stays THEN object ELSE None
        /\ past' = IF stays THEN past \cup Range(live[p]) ELSE {}
  /\ UNCHANGED <<announced, lives, early>>

(* The creator's when it is released or has waited long enough.  The       *)
(* records of live_ have no region behind them any more.                   *)
Shutdown(p) == phase[p] = "attached" /\ Gone(p)

Crash(p) == Inside(p) /\ phase[p] # "attached" /\ Gone(p)

(* Another process comes with the same arguments.                          *)
Restart(p) ==
  /\ phase[p] = "left" /\ lives[p] < MaxLives
  /\ Becomes(p, "outside", "ok")
  /\ lives' = [lives EXCEPT ![p] = @ + 1]
  /\ UNCHANGED <<object, announced, locals, live, past, early>>

Next ==
  \/ CreateMapping \/ CreateRefused \/ WriteMagic \/ WriteNext
  \/ \E p \in Openers : Open(p) \/ OpenStale(p)
  \/ \E p \in Process : \/ \E req \in Request : AllocateRejected(p, req) \/ Allocate(p, req)
                        \/ Reserve(p) \/ Retry(p) \/ Free(p)
                        \/ Shutdown(p) \/ Crash(p) \/ Restart(p)
  \/ \E h \in 1..Total : PublishOffset(h)
  \/ PublishSize
  \/ PublishUnknown(0)
  \/ Announce

(* A process inside allocate() runs on.                                    *)
Spec == Init /\ [][Next]_vars /\ \A p \in Process : WF_vars(Reserve(p) \/ Retry(p))

-----------------------------------------------------------------------------
(* Properties.                                                             *)

(* Type invariant, the first part of NoByteTwice.                          *)
TypeOK ==
  /\ object = None \/ object \in [magic : BOOLEAN, offset : 0..Total, size : 0..Total,
                                  next : 0..Total]
  /\ announced = None \/ announced \in [offset : 0..Total, size : 1..Total]
  /\ phase \in [Process -> {"outside", "mapped", "marked", "attached", "reserving",
                            "publishing", "left"}]
  /\ \A p \in Process : \A h \in DOMAIN live[p] :
       live[p][h] \in [offset : 0..Total, size : 1..Total]

(* The extents of all processes that are attached.                         *)
Extents == UNION {{<<p, h>> : h \in DOMAIN live[p]} : p \in Process}
Extent(x) == live[x[1]][x[2]]
Owned == past \cup {Extent(x) : x \in Extents}
Apart(e, f) == e.offset + e.size <= f.offset \/ f.offset + f.size <= e.offset

(* No two processes own a byte, and none owns a byte of the header or one  *)
(* beyond the mapping, in whatever order they read and swap the pointer,   *)
(* and whoever dies on the way; what earlier processes were given in a     *)
(* file stays theirs.  That needs a header that was whole when it was      *)
(* opened: the magic number is written before the bump pointer, and a file *)
(* whose creator died in between is taken for a good one.                  *)
NoByteTwice ==
  /\ TypeOK
  /\ ~ early =>
       /\ \A e \in Owned : HeaderSize <= e.offset /\ e.offset + e.size <= Total
       /\ \A e, f \in Owned : e # f => Apart(e, f)
       /\ \A x, y \in Extents : x # y => Extent(x) # Extent(y)
       /\ \A x \in Extents : Extent(x) \notin past

(* The place the creator announced is what it published, and is given to   *)
(* nobody for as long as the mapping exists, when the creator has left     *)
(* too: what an opener reads there is what the creator wrote.              *)
AnnouncedStaysPut ==
  announced # None =>
    /\ \A p \in Openers : \A h \in DOMAIN live[p] : Apart(live[p][h], announced)
    /\ object # None => announced.offset + announced.size <= object.next
    /\ phase[Creator] # "left" => \E h \in DOMAIN live[Creator] : live[Creator][h] = announced

(* A process that loses the race for the pointer wins it later or finds    *)
(* the region full: every allocate() returns.                              *)
EveryCallReturns ==
  \A p \in Process : phase[p] = "reserving" ~> phase[p] # "reserving"
=============================================================================
