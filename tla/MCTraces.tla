------------------------------ MODULE MCTraces ------------------------------
(***************************************************************************)
(* Where traces come from: generated, validated, saved and loaded.  The    *)
(* three share nothing but the rules; `part` says which one runs, and      *)
(* every step is a step of that one.                                       *)
(***************************************************************************)
EXTENDS TraceValidator, WorkloadGenerator

CONSTANTS Damage,        \* bound on the damage to a file
          Parts          \* the parts to run

VARIABLES part,
          original, format, file, damage, intact, loaded      \* codec

-----------------------------------------------------------------------------
(* The configurations: each free order, each distribution, the phases that *)
(* overlap, the fields that are filled in.                                 *)
Plain ==
  [operations |-> 4, live_target |-> 2, min_size |-> 1, max_size |-> 2,
   size_dist |-> "Uniform", size_histogram |-> <<>>, multimodal_peaks |-> <<>>,
   alignment_dist |-> "Natural", alignments |-> <<>>,
   lifetime_dist |-> "Immediate", fixed_lifetime_steps |-> 2,
   lifetime_min |-> 1, lifetime_max |-> 3, short_mean |-> 1, medium_mean |-> 2, long_mean |-> 3,
   warmup |-> 0, cooldown |-> 0, realloc |-> 0, ratio |-> 30, reuse |-> FALSE,
   threads |-> 1, free_order |-> "Fifo", release_to_zero |-> TRUE]

Sized(dist, lo, hi) == [Plain EXCEPT !.size_dist = dist, !.min_size = lo, !.max_size = hi]
Lasting(dist) ==
  [Plain EXCEPT !.operations = 5, !.size_dist = "Fixed", !.lifetime_dist = dist,
                !.free_order = "ByLifetime"]

Busy ==
  [Plain EXCEPT !.warmup = 10, !.cooldown = 10, !.realloc = 3, !.ratio = 15, !.reuse = TRUE,
                !.threads = 2, !.free_order = "Random"]

MCConfigs ==
  {Plain, [Plain EXCEPT !.operations = 0],
   [Busy EXCEPT !.operations = 6], [Busy EXCEPT !.operations = 7, !.size_dist = "Fixed"],
   [Plain EXCEPT !.operations = 5, !.live_target = 0, !.warmup = 40, !.cooldown = 12,
                 !.threads = 0, !.free_order = "Lifo", !.release_to_zero = FALSE],
   [Sized("Fixed", 0, 0) EXCEPT !.operations = 0, !.live_target = 7],
   Sized("Bimodal", 0, 0), Sized("Geometric", 0, 0),
   [Sized("Histogram", 1, 16) EXCEPT !.size_histogram = <<1, 5, 0>>, !.realloc = 40],
   [Sized("Histogram", 1, 16) EXCEPT !.size_histogram = <<0, 0>>],
   [Sized("Histogram", 3, 2) EXCEPT !.size_histogram = <<1>>],
   [Sized("MultiModal", 1, 2) EXCEPT !.multimodal_peaks = <<7, 1>>],
   Sized("MultiModal", 1, 64), Sized("PowerLaw", 2, 4), Sized("CallerSequence", 0, 2),
   [Sized("Bimodal", 1, 16) EXCEPT !.alignment_dist = "UniformPow2", !.operations = 3],
   [Sized("LogUniform", 1, 2) EXCEPT !.alignment_dist = "Fixed", !.alignments = <<4, 1>>],
   [Plain EXCEPT !.alignment_dist = "Fixed", !.threads = 3, !.reuse = TRUE]}
    \cup {Lasting(d) : d \in {"Short", "Medium", "Long", "Mixed", "Fixed", "Random", "PhaseBound"}}

-----------------------------------------------------------------------------
(* For the validator: two ids and two sizes for every operation on an      *)
(* allocation, one with the default alignment and one with an alignment of *)
(* its own, a marker entry, and the malformed entries.                     *)
Item(o, i, s, a) == [op |-> o, id |-> i, size |-> s, alignment |-> a]

MCEntry ==
  {Item(o, i, s, a) : o \in {"Allocate", "Reallocate"}, i \in {1, 2},
                      <<s, a>> \in {<<1, 0>>, <<3, 16>>}}
    \cup {Item("Free", i, 1, 0) : i \in {1, 2}}
    \cup {Item("Reset", 1, 0, 0), Item("Free", 0, 1, 0), Item("Unknown", 1, 1, 0),
          Item("Allocate", 2, 1, 24)}

-----------------------------------------------------------------------------
(* For the codec, with bytes of three bits: an entry with every field set, a *)
(* name the JSON parser cannot read back, two entries.                     *)
Full(o, i, size, a, d, w, status, code) ==
  [seq |-> 0, step |-> 3, op |-> o, id |-> i, size |-> size, alignment |-> a, domain |-> d,
   worker |-> w, tag |-> 1, has_status |-> status, status_success |-> FALSE, error_code |-> code]

MCOriginals ==
  {[seed |-> 5, name |-> <<2>>, entries |-> <<Full("Allocate", 17, 200, 64, 0, 9, TRUE, 3)>>],
   [seed |-> 5, name |-> <<0>>, entries |-> <<>>],
   [seed |-> 0, name |-> <<>>, entries |-> <<Full("Allocate", 1, 2, 0, 5, 0, FALSE, 0),
                                             Full("Free", 1, 2, 0, 5, 0, FALSE, 0)>>]}

(* The numbers: small ones, one past the operations, past a u16 (the error *)
(* code), past an int and past a u32.                                      *)
MCValues ==
  [type : {"uint"}, val : {0, 1, 7, 8, 40, 65}]
    \cup {[type |-> "bool", val |-> TRUE], [type |-> "string", val |-> <<0>>],
          [type |-> "missing"]}

Codec == INSTANCE TraceCodec
           WITH Byte <- 8, Magic <- 10, Version <- 1, ControlChars <- {0},
                MaxName <- 2, MaxReserve <- 8, MaxFile <- 90, Originals <- MCOriginals,
                OtherBytes <- {0, 1, 7}, OtherValues <- MCValues, MaxDamage <- Damage

-----------------------------------------------------------------------------
ASSUME PartAssumptions ==
  /\ Parts \subseteq {"workload", "validator", "codec"}
  /\ Assumptions /\ GeneratorAssumptions /\ Codec!Assumptions

of_codec == <<original, format, file, damage, intact, loaded>>
all == <<part, gvars, tvars, of_codec>>

TracesInit ==
  /\ part \in Parts /\ GeneratorInit /\ Init /\ Codec!Init
  /\ part # "workload" => cfg = Sanitized(Plain)
  /\ part # "codec" => format = "json" /\ original.name = <<0>>

WorkloadStep == part = "workload" /\ GeneratorNext /\ UNCHANGED <<part, tvars, of_codec>>
ValidatorStep == part = "validator" /\ Next /\ UNCHANGED <<part, gvars, of_codec>>
CodecStep == part = "codec" /\ Codec!Next /\ UNCHANGED <<part, gvars, tvars>>

TracesNext == WorkloadStep \/ ValidatorStep \/ CodecStep

TracesSpec == TracesInit /\ [][TracesNext]_all /\ WF_all(WorkloadStep)

(* What the codecs promise; the safety properties of the generator and of  *)
(* the validator hold in every part.                                       *)
EndsReleased == part = "workload" => GenerationEndsReleased
BinaryExact == Codec!BinaryExact
JsonExact == Codec!JsonExact
NeverCoerced == Codec!NeverCoerced
=============================================================================
