---------------------------- MODULE MCLaboratory ----------------------------
(***************************************************************************)
(* The laboratory around the strategies: experiments that replay traces,   *)
(* and what keeps the books, the registry, the event log and the latency   *)
(* collectors.  They share nothing here; `part` says which one runs, and   *)
(* every step is a step of that one.                                       *)
(***************************************************************************)
EXTENDS ExperimentRunner, AllocatorRegistry, EventLog

CONSTANTS s1, s2, s3, s4,      \* strategies
          t1, t2, plain, curious, \* emitting threads, and sinks
          Parts                \* the parts to run

VARIABLES part,
          collector, total, merged, taken      \* latency collectors

-----------------------------------------------------------------------------
(* For the runner: up to three workers over three addresses, with traces   *)
(* validate_trace() accepts.                                               *)
MCItem(o, i, s, w) == [op |-> o, id |-> i, size |-> s, worker |-> w, alignment |-> 0]

(* Reallocation, both workers busy at once, more demanded than there is.   *)
MCMoving == <<MCItem("Allocate", 1, 1, 0), MCItem("Allocate", 2, 2, 1),
              MCItem("Reallocate", 1, 2, 0), MCItem("Reallocate", 2, 1, 1),
              MCItem("Free", 1, 2, 0), MCItem("Free", 2, 1, 1)>>

(* One id freed by a worker and reused by the other (object_reuse_prob),   *)
(* with an operation on an id the worker no longer has memory for.         *)
MCReuse == <<MCItem("Allocate", 1, 2, 0), MCItem("Free", 1, 2, 0),
             MCItem("Allocate", 3, 1, 0), MCItem("Allocate", 1, 1, 1),
             MCItem("Barrier", 1, 1, 1), MCItem("Free", 3, 1, 0),
             MCItem("Trim", 1, 1, 1), MCItem("Free", 1, 0, 1)>>

(* Every worker holds several allocations while the other one moves its.   *)
MCPressure == <<MCItem("Allocate", 1, 1, 0), MCItem("Allocate", 3, 1, 0),
                MCItem("Allocate", 2, 1, 1), MCItem("Reallocate", 2, 2, 1),
                MCItem("Free", 3, 1, 0), MCItem("Allocate", 4, 1, 1),
                MCItem("Reallocate", 1, 2, 0), MCItem("Free", 2, 2, 1),
                MCItem("Free", 4, 1, 1), MCItem("Free", 1, 2, 0)>>

(* A worker field beyond the number of threads, and nothing freed.         *)
MCFolded == <<MCItem("Allocate", 1, 1, 2), MCItem("Allocate", 2, 1, 5),
              MCItem("PhaseMarker", 1, 1, 3), MCItem("Reallocate", 1, 2, 2)>>

(* An id freed by the worker that does not know it, and allocated again by *)
(* the one that does.                                                      *)
MCForeign == <<MCItem("Allocate", 1, 1, 0), MCItem("Free", 1, 1, 1),
               MCItem("Allocate", 1, 1, 0), MCItem("Free", 1, 1, 0)>>

MCReset == <<MCItem("Allocate", 1, 1, 0), MCItem("Allocate", 2, 1, 1),
             MCItem("Reset", 1, 1, 0), MCItem("Free", 1, 1, 0),
             MCItem("Free", 2, 1, 1)>>

(* One entry more for a third thread than for the others.                  *)
MCThree == <<MCItem("Allocate", 1, 1, 0), MCItem("Allocate", 2, 1, 1),
             MCItem("Allocate", 3, 1, 2), MCItem("Reallocate", 3, 2, 2),
             MCItem("Free", 1, 1, 0), MCItem("Free", 2, 1, 1), MCItem("Free", 3, 2, 2)>>

(* Sizes of 0, before and after a reallocation.                            *)
MCEmpty == <<MCItem("Allocate", 1, 0, 0), MCItem("Allocate", 2, 1, 1),
             MCItem("Reallocate", 1, 2, 0), MCItem("Reallocate", 2, 0, 1),
             MCItem("Free", 1, 2, 0), MCItem("Free", 2, 0, 1)>>

MCTraces == {MCThree, MCForeign, MCMoving, MCReuse, MCPressure, MCFolded, MCReset, MCEmpty}
MCResetOnly == {MCReset}
MCReuseOnly == {MCReuse}

MCConcurrently == {[mode |-> "concurrent", threads |-> 2]}
MCReplay == {[mode |-> "replay", threads |-> 1]}
MCRuns == MCConcurrently \cup
  {[mode |-> "concurrent", threads |-> 3], [mode |-> "replay", threads |-> 2],
   [mode |-> "concurrent", threads |-> 0]}

-----------------------------------------------------------------------------
(* Four strategies, one of which brings an id of its own.                  *)
MCStrategy == {s1, s2, s3, s4}
MCOneAssigned == [s \in Strategy |-> IF s = s1 THEN 2 ELSE 0]

(* The log has room for one event of three; one of the sinks uses it.      *)
MCEmitter == {t1, t2}
MCSink == {plain, curious}
MCCallingBack == {curious}

(* Four buckets for the code's 64, so that 9 is in the last one; half of   *)
(* the samples may have to be estimated from the histogram.                *)
Latency == INSTANCE LatencyCollector
             WITH Workers <- 2, Latencies <- {0, 1, 2, 9}, MaxRaw <- 2, Buckets <- 4,
                  MaxSamples <- 3,
                  Quantiles <- {[num |-> 1, den |-> 2], [num |-> 9, den |-> 10]}

-----------------------------------------------------------------------------
ASSUME PartAssumptions ==
  /\ Parts \subseteq {"runner", "registry", "events", "latency"}
  /\ RegistryAssumptions /\ LogAssumptions /\ Latency!Assumptions

of_latency == <<collector, total, merged, taken>>
all == <<part, vars, rvars, lvars, of_latency>>

(* The other parts do not vary the trace.                                  *)
LabInit ==
  /\ part \in Parts /\ Init /\ RegistryInit /\ LogInit /\ Latency!Init
  /\ part # "runner" => trace = MCReset /\ run \in MCConcurrently

Running(A) == part = "runner" /\ A /\ UNCHANGED <<part, rvars, lvars, of_latency>>
RegistryStep == part = "registry" /\ RegistryNext /\ UNCHANGED <<part, vars, lvars, of_latency>>
Emitting(A) == part = "events" /\ A /\ UNCHANGED <<part, vars, rvars, of_latency>>
LatencyStep == part = "latency" /\ Latency!Next /\ UNCHANGED <<part, vars, rvars, lvars>>

LabNext == Running(Next) \/ RegistryStep \/ Emitting(LogNext) \/ LatencyStep

(* The fairness of the runner's threads, and of the ones that emit.        *)
LabSpec ==
  /\ LabInit /\ [][LabNext]_all
  /\ WF_all(Running(Report))
  /\ \A w \in 0..(MaxThreads - 1) : WF_all(Running(WorkerStep(w)))
  /\ \A t \in Emitter : WF_all(Emitting(EmitStep(t)))

(* The properties of the registry and of the log hold in every part, and   *)
(* so do the runner's invariants; its liveness is for its own, and what    *)
(* the collectors promise is stated by their module.                       *)
EveryRunEnds == part = "runner" => WorkersFinish
SummariesHonest == Latency!SummariesHonest
=============================================================================
