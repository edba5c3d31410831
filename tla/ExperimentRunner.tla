-------------------------- MODULE ExperimentRunner --------------------------
(***************************************************************************)
(* run_concurrent() (src/experiment.cpp): every worker thread replays its  *)
(* part of a trace against one shared allocator.  run_replay() has one     *)
(* worker and takes snapshots on the way.  Both end with a report.         *)
(*                                                                         *)
(* apply_entry() calls the allocator, which locks, and touches the payload *)
(* outside of that lock: a step here is one locked call or one access to   *)
(* payload memory, and the threads interleave between them.  The allocator *)
(* is the one AllocatorContract describes, so that what holds here holds   *)
(* over every strategy that implements it.                                 *)
(***************************************************************************)
EXTENDS TraceRules, FiniteSets, FiniteSetsExt, SequencesExt

CONSTANTS Runs,            \* [mode, threads]: "replay" or "concurrent", threads asked for
          SnapshotInterval, WarmupOps,   \* of ExperimentConfig
          Traces,          \* traces considered, validated ones
          Memory,          \* addresses the allocator hands out
          MaxIds,          \* bound on the allocation ids issued
          MovesOnRealloc   \* the strategy implements reallocate()

AllocationId == 1..MaxIds

(* An entry of a trace; a size of 0 is one that the validator accepts.     *)
Entry == [op : Operation, id : Nat, size : Nat, alignment : Nat, worker : Nat]

ASSUME RunnerAssumption ==
  /\ Runs \subseteq [mode : {"replay", "concurrent"}, threads : Nat]
  /\ {SnapshotInterval, WarmupOps, MaxIds} \subseteq Nat
  /\ Memory \subseteq Nat /\ IsFiniteSet(Memory)
  /\ MovesOnRealloc \in BOOLEAN
  /\ \A t \in Traces : t \in Seq(Entry) /\ WellFormed(t)

VARIABLES trace,       \* the trace being run
          run,         \* which of the two runs it
          per_worker,  \* per_worker[w]: the entries worker w replays
          issued,      \* allocator: ids published
          live,        \* allocator: extent of each live id
          payload,     \* payload[a]: what the byte at address a holds
          pos,         \* pos[w]: entries of its stream worker w has finished
          phase,       \* phase[w]: where in apply_entry() worker w is
          pending,     \* pending[w]: StreamState::live, by trace id
          ops, successes, failures,
          measured,    \* measured[w][op]: samples in alloc_lat, free_lat, realloc_lat
          invariant_failed,
          snapshots,   \* result.snapshots of run_replay()
          report       \* the rest of the ExperimentResult

allocator == <<issued, live>>
counters == <<successes, failures>>
input == <<trace, run, per_worker>>
result == <<snapshots, report>>
vars == <<input, allocator, payload, pos, phase, pending, ops, counters, measured,
          invariant_failed, result>>

(* per_worker has at least one stream, and run_replay() has only one.      *)
Threads == IF run.mode = "replay" \/ run.threads = 0 THEN 1 ELSE run.threads
Worker == 0..(Threads - 1)

Allocator == INSTANCE AllocatorContract

(* The loop that deals the entries out by their worker field, in order.    *)
Dealt ==
  LET after[n \in 0..Len(trace)] ==
        IF n = 0 THEN [w \in Worker |-> <<>>]
        ELSE [after[n - 1] EXCEPT ![trace[n].worker % Threads] = Append(@, trace[n])]
  IN after[Len(trace)]

Stream(w) == per_worker[w]
Current(w) == Stream(w)[pos[w] + 1]
Doing(w, op) == pos[w] < Len(Stream(w)) /\ Current(w).op = op
Known(w) == Current(w).id \in DOMAIN pending[w]
Bytes(e) == e.addr..(e.addr + e.size - 1)

(* Unwritten memory, and the bytes write_pattern() leaves for a trace id.  *)
Fresh == 0
Pattern(id) == id

Measured == {"Allocate", "Free", "Reallocate"}
Zero == [w \in Worker |-> 0]
NoReport == [done |-> FALSE]

Init ==
  /\ trace \in Traces /\ run \in Runs /\ per_worker = Dealt
  /\ Allocator!Init
  /\ payload = [a \in Memory |-> Fresh]
  /\ pos = Zero
  /\ phase = [w \in Worker |-> "call"]
  /\ pending = [w \in Worker |-> [x \in {} |-> 0]]
  /\ ops = Zero /\ successes = Zero /\ failures = Zero
  /\ measured = [w \in Worker |-> [op \in Measured |-> 0]]
  /\ invariant_failed = [w \in Worker |-> FALSE]
  /\ snapshots = <<>> /\ report = NoReport

Add(f, w) == f' = [f EXCEPT ![w] = @ + 1]

(* run_replay() takes a snapshot after the i-th entry, counted from 0.     *)
Due(i) ==
  /\ run.mode = "replay" /\ SnapshotInterval > 0
  /\ i >= Min({WarmupOps, Len(trace)}) /\ i % SnapshotInterval = 0

(* The entry is done and its duration measured: the next iteration of the  *)
(* worker's loop.                                                          *)
Finish(w) ==
  /\ phase' = [phase EXCEPT ![w] = IF Due(pos[w]) THEN "snapshot" ELSE "call"]
  /\ Add(pos, w)
  /\ Add(ops, w)
  /\ measured' = [measured EXCEPT ![w] =
                    [op \in Measured |-> @[op] + (IF op = Current(w).op THEN 1 ELSE 0)]]

Remember(w, id, handle, given) ==
  pending' = [pending EXCEPT ![w] =
                [x \in DOMAIN pending[w] \cup {id} |->
                   IF x = id THEN [handle |-> handle, given |-> given] ELSE pending[w][x]]]

Forget(w, id) ==
  pending' = [pending EXCEPT ![w] = [x \in DOMAIN pending[w] \ {id} |-> pending[w][x]]]

(* The memory a strategy may take for a request, at least one byte of it,  *)
(* and the address and size its AllocationResult says: some strategies     *)
(* report the size asked for, which may be 0, and some what they granted.  *)
Room(size) ==
  {e \in [addr : Memory, size : Max({size, 1})..Cardinality(Memory)] : Bytes(e) \subseteq Memory}
Told(size, extent) == [addr : {extent.addr}, size : size..extent.size]

(* What the caller was told of lies in what the allocator keeps for it.    *)
Within(given, extent) == given.addr = extent.addr /\ given.size <= extent.size

-----------------------------------------------------------------------------
(* Allocate: the locked call, then write_pattern() on memory of its own.   *)

AllocateSucceeds(w) ==
  /\ Doing(w, "Allocate") /\ phase[w] = "call"
  /\ \E id \in AllocationId, extent \in Room(Current(w).size) :
       /\ id = Cardinality(issued) + 1
       /\ live' = [h \in DOMAIN live \cup {id} |-> IF h = id THEN extent ELSE live[h]]
       /\ Allocator!Allocate(id)
       /\ \E given \in Told(Current(w).size, extent) : Remember(w, Current(w).id, id, given)
  /\ phase' = [phase EXCEPT ![w] = "write"]
  /\ Add(successes, w)
  /\ UNCHANGED <<input, result, payload, pos, ops, failures, invariant_failed, measured>>

(* Any allocator error; the trace goes on without the allocation.          *)
AllocateFails(w) ==
  /\ Doing(w, "Allocate") /\ phase[w] = "call"
  /\ Add(failures, w)
  /\ Finish(w)
  /\ UNCHANGED <<input, result, allocator, payload, pending, successes, invariant_failed>>

(* Mutant of WritePattern: one byte beyond the size told.                  *)
WritePatternInclusive(w) ==
  LET e == pending[w][Current(w).id].given
  IN /\ phase[w] = "write"
     /\ payload' = [a \in Memory |->
                      IF a \in e.addr..(e.addr + e.size) THEN Pattern(Current(w).id)
                      ELSE payload[a]]
     /\ Finish(w)
     /\ UNCHANGED <<input, result, allocator, pending, counters, invariant_failed>>

WritePattern(w) ==
  /\ phase[w] = "write"
  /\ payload' = [a \in Memory |->
                   IF a \in Bytes(pending[w][Current(w).id].given)
                   THEN Pattern(Current(w).id) ELSE payload[a]]
  /\ Finish(w)
  /\ UNCHANGED <<input, result, allocator, pending, counters, invariant_failed>>

-----------------------------------------------------------------------------
(* Free and Reallocate verify the payload first, without the lock.         *)

Intact(w, id) == \A a \in Bytes(pending[w][id].given) : payload[a] = Pattern(id)

(* A Free entry without a size is not verified.                            *)
Verifies(w) == Doing(w, "Reallocate") \/ Current(w).size # 0

VerifyPattern(w) ==
  /\ Doing(w, "Free") \/ Doing(w, "Reallocate")
  /\ phase[w] = "call" /\ Known(w)
  /\ invariant_failed' =
       [invariant_failed EXCEPT ![w] = @ \/ (Verifies(w) /\ ~ Intact(w, Current(w).id))]
  /\ phase' = [phase EXCEPT ![w] = "verified"]
  /\ UNCHANGED <<input, result, allocator, payload, pos, pending, ops, counters, measured>>

(* An id this worker does not know: never allocated by it, or refused.     *)
UnknownId(w) ==
  /\ Doing(w, "Free") \/ Doing(w, "Reallocate")
  /\ phase[w] = "call" /\ ~ Known(w)
  /\ Add(failures, w)
  /\ Finish(w)
  /\ UNCHANGED <<input, result, allocator, payload, pending, successes, invariant_failed>>

(* The pending entry is dropped whether or not the allocator accepts the   *)
(* handle, and it accepts a handle that is live.                           *)
Free(w) ==
  LET handle == pending[w][Current(w).id].handle
  IN /\ Doing(w, "Free") /\ phase[w] = "verified"
     /\ IF handle \in DOMAIN live
        THEN Allocator!Free(handle) /\ Add(successes, w) /\ UNCHANGED failures
        ELSE Add(failures, w) /\ UNCHANGED <<allocator, successes>>
     /\ Forget(w, Current(w).id)
     /\ Finish(w)
     /\ UNCHANGED <<input, result, payload, invariant_failed>>

(* reallocate() keeps the handle and may move the payload; the pattern is  *)
(* written anew over the new size.                                         *)
ReallocateSucceeds(w) ==
  LET id == Current(w).id
      handle == pending[w][id].handle
  IN /\ Doing(w, "Reallocate") /\ phase[w] = "verified"
     /\ MovesOnRealloc /\ handle \in DOMAIN live
     /\ \E extent \in Room(Current(w).size) :
          /\ live' = [live EXCEPT ![handle] = extent]
          /\ Allocator!Reallocate(handle)
          /\ \E given \in Told(Current(w).size, extent) : Remember(w, id, handle, given)
     /\ phase' = [phase EXCEPT ![w] = "write"]
     /\ Add(successes, w)
     /\ UNCHANGED <<input, result, payload, pos, ops, failures, invariant_failed, measured>>

(* Mutant of ReallocateFails: the pending entry is dropped.                *)
ReallocateFailsForgetting(w) ==
  /\ Doing(w, "Reallocate") /\ phase[w] = "verified"
  /\ Forget(w, Current(w).id)
  /\ Add(failures, w)
  /\ Finish(w)
  /\ UNCHANGED <<input, result, allocator, payload, successes, invariant_failed>>

(* not_supported, an unknown handle or no memory: the old payload stays.   *)
ReallocateFails(w) ==
  /\ Doing(w, "Reallocate") /\ phase[w] = "verified"
  /\ Add(failures, w)
  /\ Finish(w)
  /\ UNCHANGED <<input, result, allocator, payload, pending, successes, invariant_failed>>

-----------------------------------------------------------------------------
(* Trim and Reset are one call and count only when refused; a Barrier or a *)
(* PhaseMarker is none, and a Barrier does not make its worker wait.       *)

Reset(w) ==
  /\ Doing(w, "Reset") /\ phase[w] = "call"
  /\ Allocator!Discard
  /\ Finish(w)
  /\ UNCHANGED <<input, result, payload, pending, counters, invariant_failed>>

(* Mutant of NoEffect: a Barrier waits until every worker is at one.       *)
NoEffectRendezvous(w) ==
  /\ Doing(w, "Trim") \/ Doing(w, "PhaseMarker") \/ \A v \in Worker : Doing(v, "Barrier")
  /\ phase[w] = "call"
  /\ Finish(w)
  /\ UNCHANGED <<input, result, allocator, payload, pending, counters, invariant_failed>>

(* trim() moves no payload.                                                *)
NoEffect(w) ==
  /\ Doing(w, "Trim") \/ Doing(w, "Barrier") \/ Doing(w, "PhaseMarker")
  /\ phase[w] = "call"
  /\ Finish(w)
  /\ UNCHANGED <<input, result, allocator, payload, pending, counters, invariant_failed>>

NotSupported(w) ==
  /\ Doing(w, "Trim") \/ Doing(w, "Reset")
  /\ phase[w] = "call"
  /\ Add(failures, w)
  /\ Finish(w)
  /\ UNCHANGED <<input, result, allocator, payload, pending, successes, invariant_failed>>

ApplyEntry(w) ==
  \/ AllocateSucceeds(w) \/ AllocateFails(w) \/ WritePattern(w)
  \/ VerifyPattern(w) \/ UnknownId(w) \/ Free(w)
  \/ ReallocateSucceeds(w) \/ ReallocateFails(w)
  \/ Reset(w) \/ NoEffect(w) \/ NotSupported(w)

-----------------------------------------------------------------------------
(* The results.                                                            *)

Snapshot(w) ==
  /\ phase[w] = "snapshot"
  /\ snapshots' = Append(snapshots, [step |-> pos[w] - 1, live |-> Cardinality(DOMAIN live)])
  /\ phase' = [phase EXCEPT ![w] = "call"]
  /\ UNCHANGED <<input, report, allocator, payload, pos, pending, ops, counters, measured,
                 invariant_failed>>

Joined == \A w \in Worker : pos[w] = Len(Stream(w)) /\ phase[w] = "call"

Total(f) == MapThenSumSet(LAMBDA w : f[w], Worker)

(* Mutant of Samples: the collectors of the first worker stand for all.    *)
SamplesOfFirst(op) == measured[0][op]

(* The counts of the merged collectors.                                    *)
Samples(op) == Total([w \in Worker |-> measured[w][op]])

(* After the join: the counters are added up, the collectors merged.  The  *)
(* operations of run_replay() are those applied, those of run_concurrent() *)
(* those that succeeded or failed.  trim() before that changes nothing.    *)
Report ==
  /\ Joined /\ report = NoReport
  /\ report' = [done |-> TRUE,
                success_count |-> Total(successes), failure_count |-> Total(failures),
                operations |-> IF run.mode = "replay" THEN Total(ops)
                               ELSE Total(successes) + Total(failures),
                samples |-> [op \in Measured |-> Samples(op)],
                live |-> Cardinality(DOMAIN live)]
  /\ UNCHANGED <<input, snapshots, allocator, payload, pos, phase, pending, ops, counters,
                 measured, invariant_failed>>

Next == Report \/ \E w \in Worker : ApplyEntry(w) \/ Snapshot(w)

MaxThreads == Max({r.threads : r \in Runs} \cup {1})
WorkerStep(w) == w \in Worker /\ (ApplyEntry(w) \/ Snapshot(w))

(* Every worker is a thread the system schedules, and no call blocks for   *)
(* longer than the other workers' calls take; the main thread waits.       *)
Spec ==
  /\ Init /\ [][Next]_vars
  /\ WF_vars(Report)
  /\ \A w \in 0..(MaxThreads - 1) : WF_vars(WorkerStep(w))

-----------------------------------------------------------------------------
(* Properties.                                                             *)

(* Type invariant, the first part of NoHandleLost.                         *)
TypeOK ==
  /\ trace \in Traces
  /\ issued \subseteq AllocationId /\ DOMAIN live \subseteq issued
  /\ \A h \in DOMAIN live : Bytes(live[h]) \subseteq Memory
  /\ \A a \in Memory : payload[a] \in Nat
  /\ \A w \in Worker :
       /\ pos[w] \in 0..Len(Stream(w))
       /\ phase[w] \in {"call", "write", "verified", "snapshot"}
       /\ \A id \in DOMAIN pending[w] :
            pending[w][id].handle \in issued /\ pending[w][id].given \in [addr : Nat, size : Nat]
       /\ ops[w] \in Nat /\ successes[w] \in Nat /\ failures[w] \in Nat
       /\ invariant_failed[w] \in BOOLEAN

Writing(w, id) == phase[w] = "write" /\ Current(w).id = id

HasReset == \E i \in DOMAIN trace : trace[i].op = "Reset"

(* What a worker wrote stays as written until the worker gives it up, in   *)
(* spite of every other worker writing its own payloads without any lock.  *)
(* A RESET takes the memory from under the workers, so it is excluded.     *)
PayloadIntact ==
  HasReset \/
  \A w \in Worker :
    /\ ~ invariant_failed[w]
    /\ \A id \in DOMAIN pending[w] : Writing(w, id) \/ Intact(w, id)

Held == {<<w, id>> : w \in Worker, id \in {e.id : e \in ToSet(trace)}}
          \cap UNION {{<<w, id>> : id \in DOMAIN pending[w]} : w \in Worker}

(* No worker allocates under an id it has not freed itself.  A validated   *)
(* trace may break this: an id is freed by one worker, which does not know *)
(* it, and allocated again by the one that still holds it, whose pending   *)
(* entry is then overwritten and the first allocation never freed.         *)
StreamsStandAlone ==
  \A w \in Worker : \A n \in 1..Len(Stream(w)) :
    Stream(w)[n].op = "Allocate" => ~ LiveAfter(Stream(w), n - 1, Stream(w)[n].id)

(* A worker's pending entries name different allocations, with bytes of    *)
(* the memory the allocator keeps for them, and live ones unless a RESET   *)
(* came between.  If the streams stand alone, every live allocation is     *)
(* known to a worker, so that somebody can free it.                        *)
NoHandleLost ==
  /\ TypeOK
  /\ \A p \in Held :
       LET known == pending[p[1]][p[2]]
       IN /\ known.handle \in DOMAIN live => Within(known.given, live[known.handle])
          /\ HasReset \/ known.handle \in DOMAIN live
          /\ \A q \in Held \ {p} : pending[q[1]][q[2]].handle # known.handle
  /\ StreamsStandAlone =>
       \A h \in DOMAIN live : \E p \in Held : pending[p[1]][p[2]].handle = h

(* Each worker frees what it allocates, as generate_workload() with        *)
(* release_to_zero makes it.                                               *)
FreesItsOwn(w, id) ==
  \A i \in 1..Len(Stream(w)) :
    Stream(w)[i].op = "Allocate" /\ Stream(w)[i].id = id =>
      \E j \in (i + 1)..Len(Stream(w)) : Stream(w)[j].op = "Free" /\ Stream(w)[j].id = id

Balanced == \A w \in Worker : \A e \in ToSet(trace) : FreesItsOwn(w, e.id)

Entries(kinds) == Cardinality({i \in DOMAIN trace : trace[i].op \in kinds})

(* Every entry of the trace is in the report, whatever failed on the way   *)
(* and however the threads ran: as a sample of its kind, the warm-up ones  *)
(* included (WarmupNotTimed is about those), and as a success or a failure *)
(* unless it is an operation with no call, or a trim() or reset() the      *)
(* strategy carried out.  A replay has one snapshot at every step the      *)
(* interval gives, in order, and a concurrent run none.  "What matters is  *)
(* that every successfully-created live object is released"                *)
(* (tests/property_tests.cpp): a balanced trace reports none live, if its  *)
(* streams stand alone.                                                    *)
EveryEntryCounted ==
  report.done =>
    LET counted == report.success_count + report.failure_count
    IN /\ \A op \in Measured : report.samples[op] = Entries({op})
       /\ counted \in Entries(Measured)..Len(trace)
       /\ report.operations = IF run.mode = "replay" THEN Len(trace) ELSE counted
       /\ {snapshots[k].step : k \in DOMAIN snapshots} = {i \in 0..(Len(trace) - 1) : Due(i)}
       /\ \A k, m \in DOMAIN snapshots : k < m => snapshots[k].step < snapshots[m].step
       /\ Balanced /\ StreamsStandAlone => report.live = 0

(* warmup_ops: "skip this many ops from timing" (experiment.hpp).  No more *)
(* samples of a kind than there are entries of it after the warm-up.       *)
WarmupNotTimed ==
  report.done =>
    \A op \in Measured :
      report.samples[op] <= Cardinality({i \in (WarmupOps + 1)..Len(trace) : trace[i].op = op})

(* The join at the end of run_concurrent() returns, and there is a report. *)
WorkersFinish == <>[](report.done)

(* "Use after free" is among what is checked (docs/HARDENING.md): payload  *)
(* memory is read only while the allocator still owns it to the caller.    *)
ReadsLivePayload ==
  [][\A w \in Worker :
       VerifyPattern(w) /\ Verifies(w) => pending[w][Current(w).id].handle \in DOMAIN live]_vars
=============================================================================
