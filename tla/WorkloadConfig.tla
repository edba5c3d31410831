--------------------------- MODULE WorkloadConfig ---------------------------
(***************************************************************************)
(* WorkloadConfig (workload.hpp), what sanitize_workload_config() makes of *)
(* one, and the values that choose_size(), choose_alignment() and          *)
(* choose_lifetime() can draw under it (src/workload.cpp).                 *)
(*                                                                         *)
(* Fractions and the ratio are in parts of Whole.  The fields that nothing *)
(* but sanitize_workload_config() reads (burstiness, the class counts) and *)
(* those nothing reads at all (size_sequence among them) are left out.     *)
(***************************************************************************)
EXTENDS TraceRules, FiniteSetsExt, SequencesExt

CONSTANT Whole           \* 1.0

Clamped(x, lo, hi) == IF x < lo THEN lo ELSE IF x > hi THEN hi ELSE x
AtMost(x, bound) == Clamped(x, 0, bound)

MaxThreads == 4096
DefaultTarget == 256

Sanitized(in) ==
  LET operations == IF in.operations = 0 THEN 1 ELSE in.operations
      wf == AtMost(in.warmup, Whole)
      cf == AtMost(in.cooldown, Whole)
      over == wf + cf > Whole
  IN [in EXCEPT
        !.min_size = IF @ = 0 THEN 1 ELSE @,
        !.max_size = IF @ < in.min_size THEN in.min_size ELSE @,
        !.operations = operations,
        !.live_target = AtMost(IF @ = 0 THEN DefaultTarget ELSE @, operations),
        !.warmup = IF over /\ wf >= cf THEN Whole - cf ELSE wf,
        !.cooldown = IF over /\ wf < cf THEN Whole - wf ELSE cf,
        !.realloc = AtMost(@, (9 * Whole) \div 10),
        !.ratio = AtMost(@, 4 * Whole),
        !.threads = Clamped(@, 1, MaxThreads)]

-----------------------------------------------------------------------------
(* The draws.                                                              *)

(* SplitMix64::next(bound), next_in(lo, hi): nothing to draw from gives 0, *)
(* and an empty range its lower end.                                       *)
Below(bound) == IF bound = 0 THEN {0} ELSE 0..(bound - 1)
Between(lo, hi) == {lo + d : d \in Below(hi - lo + 1)}

(* std::clamp(), with any of its bounds when they are the wrong way round. *)
Clamps(lo, hi) == IF lo <= hi THEN lo..hi ELSE {lo, hi}

(* The buckets of size_histogram that a draw can fall into, the last one   *)
(* if all weights are 0, and the size of bucket k of n: the logarithm at   *)
(* (k - 1) / (n - 1) of the way, rounded down.                             *)
Buckets(w) ==
  LET drawn == {k \in DOMAIN w : w[k] > 0} IN IF drawn = {} THEN {Len(w)} ELSE drawn
SizeAt(k, n, lo, hi) ==
  Max({s \in Clamps(lo, hi) : s^(n - 1) <= lo^(n - k) * hi^(k - 1)} \cup {Min({lo, hi})})

DrawnSizes(c) ==
  LET lo == c.min_size
      hi == c.max_size
      n  == Len(c.size_histogram)
  IN CASE c.size_dist = "Fixed"      -> {hi}
       [] c.size_dist = "Uniform"    -> Between(lo, hi)
       [] c.size_dist \in {"LogUniform", "Geometric", "PowerLaw"} -> Clamps(lo, hi)
       [] c.size_dist = "Bimodal"    -> {lo, hi}
       [] c.size_dist = "MultiModal" ->
            IF c.multimodal_peaks # <<>> THEN ToSet(c.multimodal_peaks)
            ELSE {lo, Min({hi, lo * 8 + 32})}
       [] c.size_dist = "Histogram" /\ n = 1 -> {lo}
       [] c.size_dist = "Histogram" /\ n > 1 ->
            {SizeAt(k, n, lo, hi) : k \in Buckets(c.size_histogram)}
       [] OTHER                      -> Between(lo, hi)   \* CallerSequence too

Pow2Choices == {2^k : k \in 3..9 \cup {12}}   \* 8, 16, ..., 512, 4096

DrawnAlignments(c, size) ==
  CASE c.alignment_dist = "Fixed" /\ c.alignments # <<>> -> ToSet(c.alignments)
    [] c.alignment_dist = "UniformPow2" ->
         {IF a > size /\ size > 0 THEN 0 ELSE a : a \in Pow2Choices}
    [] OTHER -> {0}

(* One step more than a draw below the mean.                               *)
Around(mean) == {1 + d : d \in Below(mean)}

DrawnLifetimes(c) ==
  CASE c.lifetime_dist = "Immediate"  -> {1}
    [] c.lifetime_dist = "Short"      -> Around(c.short_mean)
    [] c.lifetime_dist = "Medium"     -> Around(c.medium_mean)
    [] c.lifetime_dist = "Long"       -> Around(c.long_mean)
    [] c.lifetime_dist = "Mixed"      ->
         Around(c.short_mean) \cup Around(c.medium_mean) \cup Around(c.long_mean)
    [] c.lifetime_dist = "Fixed"      -> {c.fixed_lifetime_steps}
    [] c.lifetime_dist \in {"Random", "CallerProvided"} ->
         Between(c.lifetime_min, c.lifetime_max)
    [] c.lifetime_dist = "PhaseBound" -> {c.short_mean * 4}

(* What the caller may pass.  Alignments are powers of two and a range of  *)
(* lifetimes is not the wrong way round, which nothing checks.             *)
Raw(c) ==
  /\ c \in [operations : Nat, live_target : Nat, min_size : Nat, max_size : Nat,
            size_dist : STRING, size_histogram : Seq(Nat), multimodal_peaks : Seq(Nat),
            alignment_dist : STRING, alignments : Seq({0} \cup PowersOfTwo),
            lifetime_dist : STRING, fixed_lifetime_steps : Nat,
            lifetime_min : Nat, lifetime_max : Nat,
            short_mean : Nat, medium_mean : Nat, long_mean : Nat,
            warmup : Int, cooldown : Int, realloc : Int, ratio : Int, reuse : BOOLEAN,
            threads : Nat, free_order : {"Fifo", "Lifo", "Random", "ByLifetime"},
            release_to_zero : BOOLEAN]
  /\ c.lifetime_min <= c.lifetime_max + 1

(* What sanitize_workload_config() promises.  Asked for sizes from 0 to 0, *)
(* it leaves a smallest size of 1 over a largest size of 0.                *)
Sane(in, c) ==
  /\ c.operations > 0 /\ c.live_target \in 1..c.operations
  /\ {c.warmup, c.cooldown} \subseteq 0..Whole /\ c.warmup + c.cooldown <= Whole
  /\ c.realloc \in 0..(Whole - 1) /\ c.threads \in 1..MaxThreads
  /\ c.min_size > 0
  /\ c.min_size <= c.max_size \/ (in.min_size = 0 /\ in.max_size = 0)
=============================================================================
