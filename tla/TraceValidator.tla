--------------------------- MODULE TraceValidator ---------------------------
(***************************************************************************)
(* validate_trace() and TraceReplayValidator (src/trace.cpp): the gate     *)
(* every generated, parsed or loaded trace passes before it is replayed.   *)
(*                                                                         *)
(* The entries arrive one at a time.  Two tables follow the replay side by *)
(* side: the validator's live_ids_, and live_sizes with cur_live_bytes in  *)
(* validate_trace().  The first entry that is not accepted ends the run.   *)
(***************************************************************************)
EXTENDS TraceRules, FiniteSets, SequencesExt, FiniteSetsExt

CONSTANTS Entry,         \* entries considered: [op, id, size, alignment]
          MaxEntries     \* bound on the length of the trace

Assumptions ==
  /\ \A e \in Entry : {"op", "id", "size", "alignment"} \subseteq DOMAIN e
  /\ \A e \in Entry : e.id \in Nat /\ e.size \in Nat /\ e.alignment \in Nat
  /\ MaxEntries \in Nat

VARIABLES entries,         \* the entries read so far, the rejected one included
          live_ids,        \* TraceReplayValidator::live_ids_
          live_,           \* TraceReplayValidator::live_
          live_sizes,      \* live_sizes of validate_trace()
          cur_live_bytes,  \* cur_live_bytes of validate_trace()
          error            \* the ErrorCode returned

tables == <<live_ids, live_, live_sizes, cur_live_bytes>>
tvars == <<entries, tables, error>>

Init ==
  /\ entries = <<>>
  /\ live_ids = <<>> /\ live_ = 0
  /\ live_sizes = [x \in {} |-> 0] /\ cur_live_bytes = 0
  /\ error = "ok"

(* is_live(): the linear search of live_ids_.                              *)
IsLive(id) == Contains(live_ids, id)

(* Mutant of Rejected: a second allocation of a live id passes.            *)
RejectedFreesOnly(e) == e.op \in {"Free", "Reallocate"} /\ ~ IsLive(e.id)

(* TraceReplayValidator::validate(): the entries it turns down.            *)
Rejected(e) ==
  \/ e.op = "Allocate" /\ IsLive(e.id)
  \/ e.op \in {"Free", "Reallocate"} /\ ~ IsLive(e.id)

PositionOf(id) == SelectInSeq(live_ids, LAMBDA x : x = id)

Reject(e) ==
  /\ error = "ok"
  /\ Malformed(e) \/ Rejected(e)
  /\ error' = IF Malformed(e) THEN "trace_malformed" ELSE "trace_rejected"
  /\ entries' = Append(entries, e)
  /\ UNCHANGED tables

Accepts(e) ==
  /\ error = "ok"
  /\ ~ Malformed(e) /\ ~ Rejected(e)
  /\ entries' = Append(entries, e)
  /\ UNCHANGED error

AcceptAllocate(e) ==
  /\ e.op = "Allocate"
  /\ Accepts(e)
  /\ live_ids' = Append(live_ids, e.id)
  /\ live_' = live_ + 1
  /\ live_sizes' = [x \in DOMAIN live_sizes \cup {e.id} |->
                      IF x = e.id THEN e.size ELSE live_sizes[x]]
  /\ cur_live_bytes' = cur_live_bytes + e.size

(* Mutant of AcceptFree: the size of the entry, not the recorded one.      *)
AcceptFreeByEntry(e) ==
  /\ e.op = "Free"
  /\ Accepts(e)
  /\ live_ids' = SwapRemove(live_ids, PositionOf(e.id))
  /\ live_' = live_ - 1
  /\ live_sizes' = [x \in DOMAIN live_sizes \ {e.id} |-> live_sizes[x]]
  /\ cur_live_bytes' = cur_live_bytes - e.size

AcceptFree(e) ==
  /\ e.op = "Free"
  /\ Accepts(e)
  /\ live_ids' = SwapRemove(live_ids, PositionOf(e.id))
  /\ live_' = live_ - 1
  /\ live_sizes' = [x \in DOMAIN live_sizes \ {e.id} |-> live_sizes[x]]
  /\ cur_live_bytes' = cur_live_bytes - live_sizes[e.id]

AcceptReallocate(e) ==
  /\ e.op = "Reallocate"
  /\ Accepts(e)
  /\ live_sizes' = [live_sizes EXCEPT ![e.id] = e.size]
  /\ cur_live_bytes' = cur_live_bytes - live_sizes[e.id] + e.size
  /\ UNCHANGED <<live_ids, live_>>

(* Trim, Reset, Barrier and PhaseMarker change neither table.              *)
AcceptOther(e) ==
  /\ e.op \in Operation \ {"Allocate", "Free", "Reallocate"}
  /\ Accepts(e)
  /\ UNCHANGED tables

Validate(e) ==
  AcceptAllocate(e) \/ AcceptFree(e) \/ AcceptReallocate(e) \/ AcceptOther(e) \/ Reject(e)

Next == Len(entries) < MaxEntries /\ \E e \in Entry : Validate(e)

Spec == Init /\ [][Next]_tvars

-----------------------------------------------------------------------------
(* Properties.                                                             *)

(* Type invariant, the first part of TablesAgree; the byte count, unsigned *)
(* in the code, never wraps.                                               *)
TypeOK ==
  /\ entries \in Seq(Entry) /\ Len(entries) <= MaxEntries
  /\ live_ids \in Seq(Nat \ {0})
  /\ live_ \in Nat
  /\ DOMAIN live_sizes \subseteq Nat \ {0}
  /\ \A x \in DOMAIN live_sizes : live_sizes[x] \in Nat
  /\ cur_live_bytes \in Nat
  /\ error \in {"ok", "trace_malformed", "trace_rejected"}

(* The two tables follow the same live set: no id twice in live_ids_, the  *)
(* counter is its length, live_sizes knows exactly these ids and           *)
(* cur_live_bytes is their sum.  The "size record conflict" branch of      *)
(* validate_trace() is dead code because of this.                          *)
TablesAgree ==
  /\ TypeOK
  /\ IsInjective(live_ids)
  /\ live_ = Len(live_ids)
  /\ DOMAIN live_sizes = ToSet(live_ids)
  /\ cur_live_bytes = MapThenSumSet(LAMBDA x : live_sizes[x], DOMAIN live_sizes)

(* The incremental check accepts a trace exactly when the trace is well    *)
(* formed: "free of a never-allocated id, duplicate live allocation ids,   *)
(* and invalid reallocation targets are rejected" (docs/TRACES.md), and    *)
(* so are malformed entries, and nothing else is.  The same sentence of    *)
(* the document has "invalid/zero alignment [...] rejected": the code      *)
(* accepts an alignment of 0 (trace.cpp:337), and well formed means here   *)
(* what the code accepts.                                                  *)
AcceptsExactly ==
  (error = "ok") <=> WellFormed(entries)
=============================================================================
