----------------------------- MODULE TraceRules -----------------------------
(***************************************************************************)
(* The trace format (trace.hpp, docs/TRACES.md): what makes an entry       *)
(* malformed, and what makes a whole trace one that can be replayed.  A    *)
(* trace is a sequence of records with the fields op, id, size, alignment, *)
(* worker.                                                                 *)
(***************************************************************************)
EXTENDS Integers, Sequences

CONSTANT AlignmentBits   \* bits of an alignment: 64 in the code

Operation == {"Allocate", "Free", "Reallocate", "Trim", "Reset", "Barrier", "PhaseMarker"}

(* is_power_of_two().                                                      *)
PowersOfTwo == {2^k : k \in 0..(AlignmentBits - 1)}

(* The checks validate_trace() makes on an entry of its own.  An alignment *)
(* of 0 passes them: it asks for the strategy's default (trace.cpp:337).   *)
Malformed(e) ==
  \/ e.id = 0
  \/ e.op \notin Operation
  \/ e.op \in {"Allocate", "Reallocate"} /\ e.alignment \notin PowersOfTwo \cup {0}

(* id is live after the first n entries of t: some entry allocates it and  *)
(* no later one among them frees it.                                       *)
LiveAfter(t, n, id) ==
  \E i \in 1..n :
    /\ t[i].op = "Allocate" /\ t[i].id = id
    /\ \A j \in (i + 1)..n : ~ (t[j].op = "Free" /\ t[j].id = id)

(* Entry n of t can be replayed after the entries before it.               *)
WellFormedAt(t, n) ==
  /\ ~ Malformed(t[n])
  /\ t[n].op = "Allocate" => ~ LiveAfter(t, n - 1, t[n].id)
  /\ t[n].op \in {"Free", "Reallocate"} => LiveAfter(t, n - 1, t[n].id)

WellFormed(t) == \A n \in 1..Len(t) : WellFormedAt(t, n)

-----------------------------------------------------------------------------
(* v[i] = v.back(); v.pop_back(): how the generator and the validator drop *)
(* one of what they take to be live.                                       *)
SwapRemove(v, i) == [j \in 1..(Len(v) - 1) |-> IF j = i THEN v[Len(v)] ELSE v[j]]
=============================================================================
