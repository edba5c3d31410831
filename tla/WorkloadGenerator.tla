------------------------- MODULE WorkloadGenerator -------------------------
(***************************************************************************)
(* generate_workload() (src/workload.cpp): a seeded loop that steers the   *)
(* number of live allocations along a warm-up, steady and cool-down        *)
(* profile and writes down a trace.                                        *)
(*                                                                         *)
(* The seed decides every draw of the generator; the model takes every     *)
(* value a draw can have.                                                  *)
(***************************************************************************)
EXTENDS WorkloadConfig, FiniteSets

CONSTANTS Configs        \* the configurations considered, as the caller gives them

GeneratorAssumptions ==
  /\ Whole \in Nat \ {0} /\ \A c \in Configs : Raw(c)
  /\ AlignmentBits \in Nat /\ AlignmentBits > 12   \* the largest of Pow2Choices

VARIABLES cfg,         \* cfg, sanitized
          step,        \* the loop counter
          live,        \* live: [id, size, worker, free_step]
          free_pool,   \* free_pool: ids freed and not yet reused
          next_id,     \* next_id
          out          \* out.entries

gvars == <<cfg, step, live, free_pool, next_id, out>>

ops == cfg.operations
Workers == 0..(cfg.threads - 1)

GeneratorInit ==
  /\ cfg \in {Sanitized(c) : c \in Configs}
  /\ step = 0
  /\ live = <<>> /\ free_pool = <<>>
  /\ next_id = 1
  /\ out = <<>>

(* The number of live allocations `done` of `phase` steer toward.          *)
Share(done, phase) == (done * Whole * cfg.live_target) \div (phase * ops)

(* T: the number of live allocations this step steers toward.              *)
SteerTarget ==
  IF step * Whole < cfg.warmup * ops THEN Share(step, cfg.warmup)
  ELSE IF (ops - step) * Whole < cfg.cooldown * ops THEN Share(ops - step, cfg.cooldown)
  ELSE cfg.live_target

(* Mutant of MaySelect: a step above the target may still allocate.        *)
MaySelectAbove(op) ==
  LET n == Len(live)
      T == SteerTarget
  IN CASE op = "Allocate"   -> n = 0 \/ n <= T + 1
       [] op = "Free"       -> n > 0 /\ (n >= T \/ 2 * cfg.ratio <= Whole)
       [] op = "Reallocate" -> n > 0 /\ n = T /\ cfg.realloc > 0

(* The operations the draws of a step can select.                          *)
MaySelect(op) ==
  LET n == Len(live)
      T == SteerTarget
  IN CASE op = "Allocate"   -> n = 0 \/ n <= T
       [] op = "Free"       -> n > 0 /\ (n >= T \/ 2 * cfg.ratio <= Whole)
       [] op = "Reallocate" -> n > 0 /\ n = T /\ cfg.realloc > 0

(* The entries the draws under c can make.                                 *)
EntriesUnder(c) ==
  UNION {[op : {"Allocate", "Free", "Reallocate"}, id : 1..c.operations, size : {size},
          alignment : DrawnAlignments(c, size), worker : 0..(c.threads - 1)] :
         size \in DrawnSizes(c)}
WrittenEntry == UNION {EntriesUnder(Sanitized(c)) : c \in Configs}

Record(op, id, size, alignment, worker) ==
  out' = Append(out, [op |-> op, id |-> id, size |-> size,
                              alignment |-> alignment, worker |-> worker])

(* The index free_order picks; ByLifetime takes the first of the earliest. *)
Victim(i) ==
  /\ i \in 1..Len(live)
  /\ cfg.free_order = "Fifo" => i = 1
  /\ cfg.free_order = "Lifo" => i = Len(live)
  /\ cfg.free_order = "ByLifetime" =>
       \A j \in 1..Len(live) :
         \/ live[i].free_step < live[j].free_step
         \/ live[i].free_step = live[j].free_step /\ i <= j

Running == step < ops

(* The id comes from next_id, or from the back of free_pool.               *)
Allocate(size, alignment, worker, lifetime, reuse) ==
  LET id == IF reuse THEN Last(free_pool) ELSE next_id
  IN /\ Running /\ MaySelect("Allocate")
     /\ reuse => cfg.reuse /\ free_pool # <<>>
     /\ free_pool' = IF reuse THEN Front(free_pool) ELSE free_pool
     /\ next_id' = IF reuse THEN next_id ELSE next_id + 1
     /\ live' = Append(live, [id |-> id, size |-> size, alignment |-> alignment,
                              worker |-> worker, free_step |-> step + lifetime])
     /\ Record("Allocate", id, size, alignment, worker)
     /\ step' = step + 1
     /\ UNCHANGED cfg

Free(i) ==
  /\ Running /\ MaySelect("Free")
  /\ Victim(i)
  /\ live' = SwapRemove(live, i)
  /\ free_pool' = Append(free_pool, live[i].id)
  /\ Record("Free", live[i].id, live[i].size, live[i].alignment, live[i].worker)
  /\ step' = step + 1
  /\ UNCHANGED <<cfg, next_id>>

(* A new size at least the old one half of the time.                       *)
NewSize(i, drawn, grow) == IF grow /\ drawn < live[i].size THEN live[i].size ELSE drawn

Reallocate(i, drawn, alignment, grow) ==
  LET size == NewSize(i, drawn, grow)
  IN /\ Running /\ MaySelect("Reallocate")
     /\ live' = [live EXCEPT ![i].size = size, ![i].alignment = alignment]
     /\ Record("Reallocate", live[i].id, size, alignment, live[i].worker)
     /\ step' = step + 1
     /\ UNCHANGED <<cfg, free_pool, next_id>>

(* Mutants of Release: every free is charged to worker 0; the first        *)
(* allocation is recorded but the last one dropped; one stays live.        *)
ReleaseByFirstWorker ==
  /\ ~ Running /\ cfg.release_to_zero /\ live # <<>>
  /\ live' = Front(live)
  /\ LET v == Last(live) IN Record("Free", v.id, v.size, v.alignment, 0)
  /\ UNCHANGED <<cfg, step, free_pool, next_id>>

ReleaseRecordsFirst ==
  /\ ~ Running /\ cfg.release_to_zero /\ live # <<>>
  /\ live' = Front(live)
  /\ LET v == Head(live) IN Record("Free", v.id, v.size, v.alignment, v.worker)
  /\ UNCHANGED <<cfg, step, free_pool, next_id>>

ReleaseLeavesOne ==
  /\ ~ Running /\ cfg.release_to_zero /\ Len(live) > 1
  /\ live' = Front(live)
  /\ LET v == Last(live) IN Record("Free", v.id, v.size, v.alignment, v.worker)
  /\ UNCHANGED <<cfg, step, free_pool, next_id>>

(* release_to_zero: the loop after the last step.                          *)
Release ==
  /\ ~ Running /\ cfg.release_to_zero /\ live # <<>>
  /\ live' = Front(live)
  /\ LET v == Last(live) IN Record("Free", v.id, v.size, v.alignment, v.worker)
  /\ UNCHANGED <<cfg, step, free_pool, next_id>>

GeneratorNext ==
  \/ \E size \in DrawnSizes(cfg), lifetime \in DrawnLifetimes(cfg), worker \in Workers :
       \E alignment \in DrawnAlignments(cfg, size), reuse \in BOOLEAN :
         Allocate(size, alignment, worker, lifetime, reuse)
  \/ \E i \in 1..Len(live) : Free(i)
  \/ \E i \in 1..Len(live), drawn \in DrawnSizes(cfg), grow \in BOOLEAN :
       \E alignment \in DrawnAlignments(cfg, NewSize(i, drawn, grow)) :
         Reallocate(i, drawn, alignment, grow)
  \/ Release

(* One thread runs the loop and nothing blocks it.                         *)
GeneratorSpec == GeneratorInit /\ [][GeneratorNext]_gvars /\ WF_gvars(GeneratorNext)

-----------------------------------------------------------------------------
(* Properties.                                                             *)

(* Type invariant, the first part of IdsPartitioned.                       *)
GeneratorTypeOK ==
  /\ step \in 0..ops
  /\ \A i \in DOMAIN live :
       /\ live[i].size \in DrawnSizes(cfg) /\ live[i].worker \in Workers
       /\ live[i].alignment \in DrawnAlignments(cfg, live[i].size)
  /\ next_id \in 1..(ops + 1)
  /\ out \in Seq(WrittenEntry)

(* Every id ever numbered is live or free to be reused, never both and     *)
(* never twice: what makes "reuse" of an id unable to duplicate a live     *)
(* one.  The profile holds: the live set overshoots the target of the run  *)
(* by at most the one allocation a step at the target may still make.      *)
IdsPartitioned ==
  LET ids == [i \in 1..Len(live) |-> live[i].id] \o free_pool
  IN /\ GeneratorTypeOK /\ IsInjective(ids)
     /\ (Running => ToSet(ids) = 1..(next_id - 1))
     /\ Len(live) <= cfg.live_target + 1

LastAllocation(n) ==
  CHOOSE i \in 1..(n - 1) :
    /\ out[i].op = "Allocate" /\ out[i].id = out[n].id
    /\ \A j \in (i + 1)..(n - 1) :
         ~ (out[j].op = "Allocate" /\ out[j].id = out[n].id)

(* Whoever allocates also frees: run_concurrent() hands each worker its    *)
(* own entries, and a worker finds no pending allocation for an id another *)
(* worker allocated.                                                       *)
OwnerFrees ==
  \A n \in 1..Len(out) :
    out[n].op # "Allocate" =>
      out[LastAllocation(n)].worker = out[n].worker

(* The generated trace is one validate_trace() accepts, entry by entry:    *)
(* its tables are the generator's own live set.                            *)
LiveIds == [i \in 1..Len(live) |-> live[i].id]
LiveSizes ==
  [x \in {live[i].id : i \in 1..Len(live)} |-> (CHOOSE v \in ToSet(live) : v.id = x).size]
SizeOf == [i \in DOMAIN live |-> live[i].size]
LiveBytes == MapThenSumSet(LAMBDA i : SizeOf[i], DOMAIN SizeOf)

Validator == INSTANCE TraceValidator
               WITH Entry <- WrittenEntry, entries <- out,
                    MaxEntries <- 2 * Max({Sanitized(c).operations : c \in Configs}),
                    live_ids <- LiveIds, live_ <- Len(live),
                    live_sizes <- LiveSizes, cur_live_bytes <- LiveBytes,
                    error <- "ok"

PassesValidation ==
  /\ Validator!Init
  /\ [][out' # out /\ Validator!Validate(Last(out'))]_gvars

(* The loop ends, and with release_to_zero nothing is left live.           *)
GenerationEndsReleased == <>[](step = ops /\ (cfg.release_to_zero => live = <<>>))
=============================================================================
