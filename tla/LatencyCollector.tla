-------------------------- MODULE LatencyCollector --------------------------
(***************************************************************************)
(* LatencyCollector (metrics.hpp): latency samples of each worker, a       *)
(* bounded number of them kept raw, all of them counted in a log2          *)
(* histogram; the collectors are merged when the workers have been joined  *)
(* (run_concurrent(), src/experiment.cpp).                                 *)
(*                                                                         *)
(* A collector belongs to one thread at a time, so each method is one      *)
(* action.  sum_ and the interpolation between two raw samples, which are  *)
(* floating-point arithmetic, are left out.                                *)
(***************************************************************************)
EXTENDS Integers, Sequences, FiniteSets, SequencesExt

CONSTANTS Workers,       \* number of workers merged
          Latencies,     \* samples considered
          MaxRaw,        \* max_raw_samples_
          Buckets,       \* length of hist_
          Quantiles,     \* quantiles asked for, [num, den] for num/den
          MaxSamples     \* bound on the samples of one worker

Assumptions ==
  /\ Workers \in Nat \ {0} /\ MaxRaw \in Nat /\ Buckets \in Nat \ {0} /\ MaxSamples \in Nat
  /\ Latencies \subseteq Nat
  /\ \A p \in Quantiles : p.num \in 1..p.den /\ p.den \in Nat \ {0}

VARIABLES collector,     \* collector[w]: the one of worker w
          total,         \* the one the others are merged into
          merged,        \* how many workers' collectors have been merged
          taken          \* (history) taken[w]: every sample worker w took

vars == <<collector, total, merged, taken>>

Worker == 1..Workers
Bucket == 0..(Buckets - 1)

(* The first b with ns < 2^b, or the last bucket.                          *)
BucketFor(ns) ==
  CHOOSE b \in Bucket : /\ b = Buckets - 1 \/ ns < 2^b
                        /\ \A c \in 0..(b - 1) : 2^c <= ns

(* min_ starts at the largest number there is.                             *)
Unset == -1

NewCollector ==
  [n |-> 0, min |-> Unset, max |-> 0, hist |-> [b \in Bucket |-> 0], raw |-> <<>>]

Lower(a, b) == IF a = Unset \/ (b # Unset /\ b < a) THEN b ELSE a
Higher(a, b) == IF a < b THEN b ELSE a
AtMostRaw(s) == IF Len(s) > MaxRaw THEN SubSeq(s, 1, MaxRaw) ELSE s

Init ==
  /\ collector = [w \in Worker |-> NewCollector] /\ total = NewCollector
  /\ merged = 0 /\ taken = [w \in Worker |-> <<>>]

(* add().                                                                  *)
Added(c, ns) ==
  [n |-> c.n + 1, min |-> Lower(c.min, ns), max |-> Higher(c.max, ns),
   hist |-> [c.hist EXCEPT ![BucketFor(ns)] = @ + 1],
   raw |-> AtMostRaw(Append(c.raw, ns))]

(* Mutant of MergedWith: only the samples kept raw are counted.            *)
MergedWithRaw(c, o) ==
  [n |-> Len(AtMostRaw(c.raw \o o.raw)), min |-> Lower(c.min, o.min),
   max |-> Higher(c.max, o.max),
   hist |-> [b \in Bucket |-> c.hist[b] + o.hist[b]],
   raw |-> AtMostRaw(c.raw \o o.raw)]

(* merge(): what does not fit is cut from the raw samples, and only there. *)
MergedWith(c, o) ==
  [n |-> c.n + o.n, min |-> Lower(c.min, o.min), max |-> Higher(c.max, o.max),
   hist |-> [b \in Bucket |-> c.hist[b] + o.hist[b]],
   raw |-> AtMostRaw(c.raw \o o.raw)]

(* While the workers run; no collector has been merged.                    *)
Add(w, ns) ==
  /\ merged = 0 /\ collector[w].n < MaxSamples
  /\ collector' = [collector EXCEPT ![w] = Added(@, ns)]
  /\ taken' = [taken EXCEPT ![w] = Append(@, ns)]
  /\ UNCHANGED <<total, merged>>

(* The loop after the join, over the workers in order.                     *)
Merge ==
  /\ merged < Workers
  /\ merged' = merged + 1
  /\ total' = MergedWith(total, collector[merged'])
  /\ UNCHANGED <<collector, taken>>

Next == Merge \/ \E w \in Worker, ns \in Latencies : Add(w, ns)

Spec == Init /\ [][Next]_vars

-----------------------------------------------------------------------------
(* percentile().                                                           *)

(* ceil(p * n), and at least 1.                                            *)
Rank(p, n) == Higher(1, (p.num * n + p.den - 1) \div p.den)

UpTo(c, b) == FoldFunctionOnSet(+, 0, c.hist, 0..b)

(* Percentiles are exact when the raw samples are all the samples.         *)
Exact(c) == Len(c.raw) >= c.n /\ c.raw # <<>>

(* Otherwise the upper end of the bucket the sample of that rank is in.    *)
Estimate(c, p) ==
  2^(CHOOSE b \in Bucket : /\ UpTo(c, b) >= Rank(p, c.n)
                           /\ \A d \in 0..(b - 1) : UpTo(c, d) < Rank(p, c.n))

-----------------------------------------------------------------------------
(* Properties.                                                             *)

TypeOK ==
  /\ merged \in 0..Workers
  /\ taken \in [Worker -> Seq(Latencies)]
  /\ \A c \in {total, collector[1], collector[Workers]} :
       /\ c.n \in Nat /\ c.min \in Latencies \cup {Unset} /\ c.max \in Nat
       /\ c.hist \in [Bucket -> Nat] /\ c.raw \in Seq(Latencies)

(* The samples a collector stands for, in order.                           *)
Ordered(samples) == SortSeq(samples, <)
TakenBy(last) == FlattenSeq(SubSeq(taken, 1, last))

(* A collector's account of the samples it stands for.  "Raw samples are   *)
(* retained up to a bounded limit for exact percentiles; beyond that a     *)
(* bounded log2 histogram provides estimates" (docs/METRICS.md): what is   *)
(* reported as exact is computed from every sample, and an estimate of a   *)
(* quantile is above the sample of its rank and at most twice that, unless *)
(* that sample is in the last bucket.                                      *)
Honest(c, samples) ==
  LET sorted == Ordered(samples)
  IN /\ c.n = Len(samples) /\ Len(c.raw) <= MaxRaw
     /\ c.n > 0 => c.min = sorted[1] /\ c.max = sorted[c.n]
     /\ Exact(c) => Ordered(c.raw) = sorted
     /\ c.n > 0 /\ ~ Exact(c) =>
          \A p \in Quantiles :
            LET sample == sorted[Rank(p, c.n)]
            IN \/ BucketFor(sample) = Buckets - 1
               \/ sample < Estimate(c, p) /\ Estimate(c, p) <= Higher(1, 2 * sample)

(* Merging, in whatever state the workers left their collectors and with   *)
(* raw samples cut or not, gives the account one collector would have kept.*)
SummariesHonest ==
  /\ TypeOK
  /\ \A w \in Worker : Honest(collector[w], taken[w])
  /\ Honest(total, TakenBy(merged))
=============================================================================
