---------------------------- MODULE RunnerProofs ----------------------------
(***************************************************************************)
(* Theorems of ExperimentRunner for any number of workers, every set of    *)
(* traces the validator accepts and every strategy that keeps the          *)
(* allocator contract.                                                     *)
(*                                                                         *)
(* A worker reads and writes payloads outside the allocator's lock.  That  *)
(* the accesses do not meet follows from three facts that need each other: *)
(* the allocator's extents are apart (Extents), every pending entry is the *)
(* only one with its handle and has bytes of the allocator's extent for it *)
(* (AllRegistered), and a worker between two calls of one entry still has  *)
(* the allocation it works on (InCall).  That none is forgotten needs what *)
(* the trace says has been allocated and not freed so far (Owned).         *)
(*                                                                         *)
(* That every entry is counted adds up over the workers what each has      *)
(* counted of its own stream so far (Tallies): the streams have between    *)
(* them what the trace has of every kind (DealtCounts).                    *)
(***************************************************************************)
EXTENDS ExperimentRunner, ArithmeticLemmas

-----------------------------------------------------------------------------
(* The streams.                                                            *)

InTrace == {trace[i] : i \in 1..Len(trace)}

(* F records what has been dealt out after each of the first n entries.    *)
DealsUpTo(F, n) ==
  F = [k \in 0..n |->
         IF k = 0 THEN [w \in Worker |-> <<>>]
         ELSE [F[k - 1] EXCEPT ![trace[k].worker % Threads] = Append(@, trace[k])]]

LEMMA RunFacts ==
  ASSUME trace \in Traces, run \in Runs
  PROVE  /\ trace \in Seq(Entry) /\ WellFormed(trace) /\ Len(trace) \in Nat
         /\ Threads \in Nat /\ Threads > 0
         /\ \A x \in Nat : x % Threads \in Worker
<1>1. trace \in Seq(Entry) /\ WellFormed(trace) /\ Len(trace) \in Nat
  BY RunnerAssumption
<1>2. Threads \in Nat /\ Threads > 0
  <2>1. run.threads \in Nat
    BY RunnerAssumption
  <2>2. QED
    BY <2>1 DEF Threads
<1>3. \A x \in Nat : x % Threads \in Worker
  <2> TAKE x \in Nat
  <2>1. x % Threads \in Nat /\ x % Threads < Threads
    BY <1>2, DivMod
  <2>2. QED
    BY <1>2, <2>1 DEF Worker
<1>4. QED
  BY <1>1, <1>2, <1>3

LEMMA DealingExists ==
  ASSUME trace \in Traces
  PROVE  \A n \in 0..Len(trace) : \E F : DealsUpTo(F, n)
<1> DEFINE T == {n \in 0..Len(trace) : ~ \E F : DealsUpTo(F, n)}
<1>1. SUFFICES ASSUME T # {} PROVE FALSE
  OBVIOUS
<1>2. T \in SUBSET Nat /\ Len(trace) \in Nat
  BY RunnerAssumption
<1>3. PICK n \in T : \A m \in T : n <= m
  <2> HIDE DEF T
  <2>1. QED
    BY <1>1, <1>2, NatMin
<1>4. n \in 0..Len(trace) /\ n \in Nat
  BY <1>2, <1>3
<1> DEFINE next(f, k) == [f EXCEPT ![trace[k].worker % Threads] = Append(@, trace[k])]
           first == [w \in Worker |-> <<>>]
<1>5. CASE n = 0
  <2> DEFINE F == [k \in 0..0 |-> first]
  <2>1. \A k \in 0..0 : k = 0
    OBVIOUS
  <2>2. F = [k \in 0..0 |-> IF k = 0 THEN first ELSE next(F[k - 1], k)]
    <3> HIDE DEF first, next
    <3>1. \A k \in 0..0 : first = IF k = 0 THEN first ELSE next(F[k - 1], k)
      BY <2>1
    <3>2. [k \in 0..0 |-> first]
          = [k \in 0..0 |-> IF k = 0 THEN first ELSE next(F[k - 1], k)]
      <4> HIDE DEF F
      <4>1. QED
        BY <3>1
    <3>3. QED
      BY <3>2
  <2>3. DealsUpTo(F, 0)
    <3> HIDE DEF F
    <3>1. QED
      BY <2>2 DEF DealsUpTo
  <2>4. QED
    BY <1>3, <1>5, <2>3
<1>6. CASE n # 0
  <2>1. n - 1 \in 0..Len(trace) /\ n - 1 \notin T /\ n - 1 \in Nat
    BY <1>2, <1>3, <1>4, <1>6
  <2>2. PICK G : DealsUpTo(G, n - 1)
    BY <2>1
  <2> DEFINE step(H, k) == IF k = 0 THEN first ELSE next(H[k - 1], k)
             F == [k \in 0..n |-> IF k = n THEN next(G[n - 1], n) ELSE G[k]]
  <2>3. \A k \in 0..(n - 1) : G[k] = step(G, k)
    BY <2>2 DEF DealsUpTo
  <2>4. \A k \in 0..n : F[k] = step(F, k)
    <3> TAKE k \in 0..n
    <3> HIDE DEF first, next
    <3>1. CASE k = n
      <4>1. F[n] = next(G[n - 1], n) /\ F[n - 1] = G[n - 1]
        BY <1>4, <1>6, <2>1
      <4>2. step(F, n) = next(F[n - 1], n)
        BY <1>6
      <4> HIDE DEF F, step
      <4>3. QED
        BY <3>1, <4>1, <4>2
    <3>2. CASE k # n
      <4>1. k \in 0..(n - 1) /\ F[k] = G[k]
        BY <1>4, <3>2
      <4>2. k # 0 => F[k - 1] = G[k - 1]
        BY <1>4, <3>2
      <4>3. step(F, k) = step(G, k)
        <5> HIDE DEF F
        <5>1. QED
          BY <4>2
      <4> HIDE DEF F, step
      <4>4. QED
        BY <2>3, <4>1, <4>3
    <3>3. QED
      BY <3>1, <3>2
  <2>5. F = [k \in 0..n |-> step(F, k)]
    <3>1. DOMAIN F = 0..n /\ F = [k \in 0..n |-> F[k]]
      OBVIOUS
    <3> HIDE DEF F, step
    <3>2. QED
      BY <2>4, <3>1
  <2>6. DealsUpTo(F, n)
    <3> HIDE DEF F
    <3>1. QED
      BY <2>5 DEF DealsUpTo
  <2>7. QED
    BY <1>3, <2>6
<1>7. QED
  BY <1>5, <1>6

(* What has been dealt out so far is sequences of entries of the trace.    *)
LEMMA DealtSteps ==
  ASSUME trace \in Traces, run \in Runs
  PROVE  \E G : /\ DealsUpTo(G, Len(trace)) /\ Dealt = G[Len(trace)]
               /\ \A k \in 0..Len(trace) : G[k] \in [Worker -> Seq(InTrace)]
<1> DEFINE G == CHOOSE F : DealsUpTo(F, Len(trace))
<1>1. /\ trace \in Seq(Entry) /\ Len(trace) \in Nat
      /\ \A x \in Nat : x % Threads \in Worker
  BY RunFacts
<1>2. DealsUpTo(G, Len(trace))
  <2>1. \E F : DealsUpTo(F, Len(trace))
    BY <1>1, DealingExists
  <2>2. QED
    BY <2>1
<1>3. Dealt = G[Len(trace)]
  BY DEF Dealt, DealsUpTo
<1> HIDE DEF G
<1> DEFINE T == {k \in 0..Len(trace) : G[k] \notin [Worker -> Seq(InTrace)]}
<1>4. T = {}
  <2>1. SUFFICES ASSUME T # {} PROVE FALSE
    OBVIOUS
  <2>2. PICK k \in T : \A m \in T : k <= m
    <3>1. T \in SUBSET Nat
      BY <1>1
    <3> HIDE DEF T
    <3>2. QED
      BY <2>1, <3>1, NatMin
  <2>3. k \in 0..Len(trace) /\ k \in Nat
    BY <1>1, <2>2
  <2>4. G[k] = IF k = 0 THEN [w \in Worker |-> <<>>]
               ELSE [G[k - 1] EXCEPT ![trace[k].worker % Threads] = Append(@, trace[k])]
    BY <1>2, <2>3 DEF DealsUpTo
  <2>5. k # 0
    <3>1. [w \in Worker |-> <<>>] \in [Worker -> Seq(InTrace)]
      OBVIOUS
    <3>2. k = 0 => G[k] = [w \in Worker |-> <<>>]
      BY <2>4
    <3>3. G[k] \notin [Worker -> Seq(InTrace)]
      OBVIOUS
    <3> HIDE DEF T
    <3>4. QED
      BY <3>1, <3>2, <3>3
  <2>6. k - 1 \in 0..Len(trace) /\ ~ (k <= k - 1)
    BY <1>1, <2>3, <2>5
  <2>7. G[k - 1] \in [Worker -> Seq(InTrace)]
    BY <2>2, <2>6
  <2>8. k \in 1..Len(trace) /\ trace[k] \in InTrace /\ trace[k].worker \in Nat
    <3>1. k \in 1..Len(trace) /\ trace[k] \in Entry
      BY <1>1, <2>3, <2>5
    <3>2. trace[k] \in InTrace
      BY <3>1 DEF InTrace
    <3>3. trace[k].worker \in Nat
      BY <3>1 DEF Entry
    <3>4. QED
      BY <3>1, <3>2, <3>3
  <2> DEFINE v == trace[k].worker % Threads
             f == G[k - 1]
             e == trace[k]
  <2>9. v \in Worker
    BY <1>1, <2>8
  <2>10. G[k] = [f EXCEPT ![v] = Append(@, e)]
    BY <2>4, <2>5
  <2>11. f \in [Worker -> Seq(InTrace)] /\ e \in InTrace
    BY <2>7, <2>8
  <2> HIDE DEF v, f, e
  <2>12. G[k] \in [Worker -> Seq(InTrace)]
    <3>1. Append(f[v], e) \in Seq(InTrace)
      BY <2>9, <2>11
    <3>2. QED
      BY <2>9, <2>10, <2>11, <3>1
  <2>13. QED
    BY <2>2, <2>12
<1>5. QED
  BY <1>2, <1>3, <1>4

LEMMA DealtStreams ==
  ASSUME trace \in Traces, run \in Runs
  PROVE  Dealt \in [Worker -> Seq(InTrace)]
<1>1. Len(trace) \in 0..Len(trace)
  BY RunFacts
<1>2. QED
  BY <1>1, DealtSteps

-----------------------------------------------------------------------------
(* The inductive invariant.                                                *)

Phases == {"call", "write", "verified", "snapshot"}

Shape ==
  /\ trace \in Traces /\ run \in Runs /\ per_worker \in [Worker -> Seq(InTrace)]
  /\ issued \subseteq AllocationId /\ DOMAIN live \subseteq issued
  /\ payload \in [Memory -> Nat]
  /\ pos \in [Worker -> Nat] /\ \A w \in Worker : pos[w] <= Len(Stream(w))
  /\ phase \in [Worker -> Phases]
  /\ DOMAIN pending = Worker
  /\ ops \in [Worker -> Nat] /\ successes \in [Worker -> Nat] /\ failures \in [Worker -> Nat]
  /\ invariant_failed \in [Worker -> BOOLEAN]

(* Between the calls of one entry, the worker has the entry's allocation.  *)
InCall ==
  \A w \in Worker : phase[w] \in {"write", "verified"} =>
    /\ pos[w] < Len(Stream(w)) /\ Known(w)
    /\ phase[w] = "write" => Doing(w, "Allocate") \/ Doing(w, "Reallocate")
    /\ phase[w] = "verified" => Doing(w, "Free") \/ Doing(w, "Reallocate")

(* The allocator's extents lie in memory and do not meet.                  *)
Extents ==
  \A h \in DOMAIN live :
    /\ live[h] \in Allocator!Extent /\ Bytes(live[h]) \subseteq Memory
    /\ \A g \in DOMAIN live \ {h} : Allocator!Apart(live[g], live[h])

(* What a worker knows of id is what the allocator has, and no two pending *)
(* entries have the same handle.                                           *)
Registered(w, id) ==
  LET known == pending[w][id]
  IN /\ id \in {e.id : e \in InTrace}
     /\ known.handle \in issued /\ known.given \in [addr : Nat, size : Nat]
     /\ known.handle \in DOMAIN live => Within(known.given, live[known.handle])
     /\ HasReset \/ known.handle \in DOMAIN live
     /\ \A v \in Worker : \A j \in DOMAIN pending[v] :
          pending[v][j].handle = known.handle => v = w /\ j = id

AllRegistered == \A w \in Worker : \A id \in DOMAIN pending[w] : Registered(w, id)

(* The entries before the current one leave id allocated in w's stream, or *)
(* the current one is allocating it.                                       *)
OnRecord(w, id) ==
  \/ LiveAfter(Stream(w), pos[w], id)
  \/ Writing(w, id) /\ Doing(w, "Allocate")

Owned ==
  StreamsStandAlone =>
    /\ \A h \in DOMAIN live : \E w \in Worker : \E id \in DOMAIN pending[w] :
         pending[w][id].handle = h
    /\ \A w \in Worker : \A id \in DOMAIN pending[w] : OnRecord(w, id)

RInv == Shape /\ InCall /\ Extents /\ AllRegistered /\ Owned /\ PayloadIntact

-----------------------------------------------------------------------------
(* Steps that leave the input alone.                                       *)

LEMMA SameInput ==
  ASSUME UNCHANGED input
  PROVE  /\ Worker' = Worker /\ InTrace' = InTrace /\ HasReset' = HasReset
         /\ \A w : Stream(w)' = Stream(w)
         /\ StreamsStandAlone' = StreamsStandAlone
<1>1. trace' = trace /\ run' = run /\ per_worker' = per_worker
  BY DEF input
<1>2. Worker' = Worker
  BY <1>1 DEF Worker, Threads
<1>3. InTrace' = InTrace /\ HasReset' = HasReset
  BY <1>1 DEF InTrace, HasReset
<1>4. \A w : Stream(w)' = Stream(w)
  BY <1>1 DEF Stream
<1>5. StreamsStandAlone' = StreamsStandAlone
  BY <1>1, <1>2 DEF StreamsStandAlone, Stream
<1>6. QED
  BY <1>2, <1>3, <1>4, <1>5

(* What the entry being applied is.                                        *)
LEMMA CurrentFacts ==
  ASSUME Shape, NEW w \in Worker, pos[w] < Len(Stream(w))
  PROVE  /\ Stream(w) \in Seq(InTrace) /\ pos[w] + 1 \in 1..Len(Stream(w))
         /\ Current(w) \in InTrace /\ Current(w) \in Entry
         /\ pos[w] \in Nat
<1>1. /\ trace \in Seq(Entry) /\ Stream(w) \in Seq(InTrace)
      /\ pos[w] \in Nat /\ Len(Stream(w)) \in Nat
  BY RunFacts DEF Shape, Stream
<1>2. InTrace \subseteq Entry
  BY <1>1 DEF InTrace
<1>3. pos[w] + 1 \in 1..Len(Stream(w))
  BY <1>1
<1>4. Current(w) \in InTrace
  BY <1>1, <1>3 DEF Current
<1>5. QED
  BY <1>1, <1>2, <1>3, <1>4

LEMMA FinishFacts ==
  ASSUME Shape, NEW w \in Worker, pos[w] < Len(Stream(w)), Finish(w), UNCHANGED input
  PROVE  /\ pos' \in [Worker -> Nat] /\ \A v \in Worker : pos'[v] <= Len(Stream(v))
         /\ phase' \in [Worker -> Phases] /\ ops' \in [Worker -> Nat]
         /\ pos'[w] = pos[w] + 1 /\ phase'[w] \in {"call", "snapshot"}
         /\ \A v \in Worker \ {w} : pos'[v] = pos[v] /\ phase'[v] = phase[v]
<1>1. /\ pos \in [Worker -> Nat] /\ \A v \in Worker : pos[v] <= Len(Stream(v))
      /\ phase \in [Worker -> Phases] /\ ops \in [Worker -> Nat]
      /\ per_worker \in [Worker -> Seq(InTrace)]
  BY DEF Shape
<1>2. \A v \in Worker : Len(Stream(v)) \in Nat
  BY <1>1 DEF Stream
<1>3. /\ pos' = [pos EXCEPT ![w] = @ + 1] /\ ops' = [ops EXCEPT ![w] = @ + 1]
      /\ phase' = [phase EXCEPT ![w] = IF Due(pos[w]) THEN "snapshot" ELSE "call"]
  BY DEF Finish, Add
<1>4. (IF Due(pos[w]) THEN "snapshot" ELSE "call") \in {"call", "snapshot"}
  OBVIOUS
<1> DEFINE p == IF Due(pos[w]) THEN "snapshot" ELSE "call"
<1> HIDE DEF p
<1>5. p \in {"call", "snapshot"} /\ phase' = [phase EXCEPT ![w] = p]
  BY <1>3, <1>4 DEF p
<1>6. phase' \in [Worker -> Phases] /\ phase'[w] = p
      /\ \A v \in Worker \ {w} : phase'[v] = phase[v]
  BY <1>1, <1>5 DEF Phases
<1>7. pos' \in [Worker -> Nat] /\ ops' \in [Worker -> Nat] /\ pos'[w] = pos[w] + 1
      /\ \A v \in Worker \ {w} : pos'[v] = pos[v]
  BY <1>1, <1>3
<1>8. \A v \in Worker : pos'[v] <= Len(Stream(v))
  <2> TAKE v \in Worker
  <2>1. pos[w] \in Nat /\ Len(Stream(w)) \in Nat
    BY <1>1, <1>2
  <2>2. pos'[w] <= Len(Stream(w))
    BY <1>7, <2>1
  <2>3. QED
    BY <1>1, <1>7, <2>2
<1>9. QED
  BY <1>5, <1>6, <1>7, <1>8

-----------------------------------------------------------------------------
(* Shape.                                                                  *)

LEMMA InitRInv == Init => RInv
<1> SUFFICES ASSUME Init PROVE RInv
  OBVIOUS
<1>1. /\ trace \in Traces /\ run \in Runs /\ per_worker = Dealt
      /\ issued = {} /\ DOMAIN live = {}
      /\ payload = [a \in Memory |-> Fresh]
      /\ phase = [w \in Worker |-> "call"]
      /\ pending = [w \in Worker |-> [x \in {} |-> 0]]
      /\ invariant_failed = [w \in Worker |-> FALSE]
  BY DEF Init, Allocator!Init
<1>2. pos = Zero /\ ops = Zero /\ successes = Zero /\ failures = Zero
  BY DEF Init
<1>3. per_worker \in [Worker -> Seq(InTrace)]
  BY <1>1, DealtStreams
<1>4. \A w \in Worker : Len(Stream(w)) \in Nat
  BY <1>3 DEF Stream
<1>5. \A w \in Worker : DOMAIN pending[w] = {} /\ phase[w] = "call" /\ ~ invariant_failed[w]
  BY <1>1
<1>6. Shape
  BY <1>1, <1>2, <1>3, <1>4 DEF Shape, Zero, Phases, Fresh
<1>7. QED
  BY <1>1, <1>5, <1>6 DEF RInv, InCall, Extents, AllRegistered, Owned, PayloadIntact

LEMMA Incremented ==
  ASSUME NEW f \in [Worker -> Nat], NEW g, NEW w \in Worker, g = [f EXCEPT ![w] = @ + 1]
  PROVE  g \in [Worker -> Nat]
OBVIOUS

(* Every step of a worker is one on its current entry.                     *)
LEMMA HasEntry ==
  ASSUME RInv, NEW w \in Worker, ApplyEntry(w)
  PROVE  pos[w] < Len(Stream(w))
BY
  DEF RInv, InCall, ApplyEntry, AllocateSucceeds, AllocateFails, WritePattern, VerifyPattern,
       UnknownId, Free, ReallocateSucceeds, ReallocateFails, Reset, NoEffect, NotSupported, Doing

LEMMA ShapeStep ==
  ASSUME RInv, NEW w \in Worker, ApplyEntry(w)
  PROVE  Shape'
<1>1. /\ trace \in Traces /\ run \in Runs /\ per_worker \in [Worker -> Seq(InTrace)]
      /\ issued \subseteq AllocationId /\ DOMAIN live \subseteq issued
      /\ payload \in [Memory -> Nat]
      /\ pos \in [Worker -> Nat] /\ \A v \in Worker : pos[v] <= Len(Stream(v))
      /\ phase \in [Worker -> Phases] /\ DOMAIN pending = Worker
      /\ ops \in [Worker -> Nat] /\ successes \in [Worker -> Nat] /\ failures \in [Worker -> Nat]
      /\ invariant_failed \in [Worker -> BOOLEAN]
  BY DEF RInv, Shape
<1>2. pos[w] < Len(Stream(w))
  BY HasEntry
<1>3. UNCHANGED input
  BY DEF ApplyEntry, AllocateSucceeds, AllocateFails, WritePattern, VerifyPattern,
         UnknownId, Free, ReallocateSucceeds, ReallocateFails, Reset, NoEffect, NotSupported
<1>4. /\ Worker' = Worker /\ InTrace' = InTrace /\ \A v : Stream(v)' = Stream(v)
      /\ trace' = trace /\ run' = run /\ per_worker' = per_worker
  BY <1>3, SameInput DEF input
<1>5. Current(w).id \in Nat
  BY <1>2, CurrentFacts DEF RInv, Entry
<1>6. successes' \in [Worker -> Nat] /\ failures' \in [Worker -> Nat]
  <2>1. \/ successes' = successes \/ successes' = [successes EXCEPT ![w] = @ + 1]
    BY
      DEF ApplyEntry, AllocateSucceeds, AllocateFails, WritePattern, VerifyPattern, Add, counters,
           UnknownId, Free, ReallocateSucceeds, ReallocateFails, Reset, NoEffect, NotSupported
  <2>2. \/ failures' = failures \/ failures' = [failures EXCEPT ![w] = @ + 1]
    BY
      DEF ApplyEntry, AllocateSucceeds, AllocateFails, WritePattern, VerifyPattern, Add, counters,
           UnknownId, Free, ReallocateSucceeds, ReallocateFails, Reset, NoEffect, NotSupported
  <2>3. QED
    BY <1>1, <2>1, <2>2, Incremented
<1>7. /\ pos' \in [Worker -> Nat] /\ \A v \in Worker : pos'[v] <= Len(Stream(v))
      /\ phase' \in [Worker -> Phases] /\ ops' \in [Worker -> Nat]
  <2>1. CASE Finish(w)
    BY <1>2, <1>3, <2>1, FinishFacts DEF RInv
  <2>2. CASE UNCHANGED <<pos, ops>> /\ \E p \in Phases : phase' = [phase EXCEPT ![w] = p]
    BY <1>1, <2>2
  <2>3. QED
    BY <2>1, <2>2
      DEF ApplyEntry, AllocateSucceeds, AllocateFails, WritePattern, VerifyPattern,
           UnknownId, Free, ReallocateSucceeds, ReallocateFails, Reset, NoEffect, NotSupported,
           Phases
<1>8. DOMAIN pending' = Worker
  BY <1>1
    DEF ApplyEntry, AllocateSucceeds, AllocateFails, WritePattern, VerifyPattern, Remember,
           Forget, UnknownId, Free, ReallocateSucceeds, ReallocateFails, Reset, NoEffect,
           NotSupported
<1>9. invariant_failed' \in [Worker -> BOOLEAN]
  <2>1. \/ invariant_failed' = invariant_failed
        \/ invariant_failed' =
             [invariant_failed EXCEPT ![w] = @ \/ (Verifies(w) /\ ~ Intact(w, Current(w).id))]
    BY DEF ApplyEntry, AllocateSucceeds, AllocateFails, WritePattern, VerifyPattern,
           UnknownId, Free, ReallocateSucceeds, ReallocateFails, Reset, NoEffect, NotSupported
  <2> DEFINE bad == Verifies(w) /\ ~ Intact(w, Current(w).id)
  <2>2. bad \in BOOLEAN
    OBVIOUS
  <2> HIDE DEF bad
  <2>3. QED
    BY <1>1, <2>1, <2>2 DEF bad
<1>10. payload' \in [Memory -> Nat]
  <2>1. CASE payload' = payload
    BY <1>1, <2>1
  <2>2. CASE WritePattern(w)
    BY <1>1, <1>5, <2>2 DEF WritePattern, Pattern
  <2>3. QED
    BY <2>1, <2>2 DEF ApplyEntry, AllocateSucceeds, AllocateFails, VerifyPattern,
           UnknownId, Free, ReallocateSucceeds, ReallocateFails, Reset, NoEffect, NotSupported
<1>11. issued' \subseteq AllocationId /\ DOMAIN live' \subseteq issued'
  <2>1. CASE UNCHANGED allocator
    BY <1>1, <2>1 DEF allocator
  <2>2. CASE AllocateSucceeds(w)
    BY <1>1, <2>2 DEF AllocateSucceeds, Allocator!Allocate
  <2>3. CASE \E h \in DOMAIN live : Allocator!Free(h) \/ Allocator!Reallocate(h)
    BY <1>1, <2>3 DEF Allocator!Free, Allocator!Reallocate
  <2>4. CASE Allocator!Discard
    BY <1>1, <2>4 DEF Allocator!Discard
  <2>5. QED
    BY <2>1, <2>2, <2>3, <2>4 DEF ApplyEntry, AllocateFails, VerifyPattern, WritePattern,
           UnknownId, Free, ReallocateSucceeds, ReallocateFails, Reset, NoEffect, NotSupported
<1>12. QED
  BY <1>1, <1>4, <1>6, <1>7, <1>8, <1>9, <1>10, <1>11 DEF Shape

-----------------------------------------------------------------------------
(* The other parts, for one worker and then for the others.                *)

LEMMA LiveFurther ==
  ASSUME NEW s, NEW n \in Nat, NEW id, LiveAfter(s, n, id),
         ~ (s[n + 1].op = "Free" /\ s[n + 1].id = id)
  PROVE  LiveAfter(s, n + 1, id)
<1>1. PICK i \in 1..n :
        /\ s[i].op = "Allocate" /\ s[i].id = id
        /\ \A j \in (i + 1)..n : ~ (s[j].op = "Free" /\ s[j].id = id)
  BY DEF LiveAfter
<1>2. i \in 1..(n + 1) /\ \A j \in (i + 1)..(n + 1) : j \in (i + 1)..n \/ j = n + 1
  OBVIOUS
<1>3. \A j \in (i + 1)..(n + 1) : ~ (s[j].op = "Free" /\ s[j].id = id)
  BY <1>1, <1>2
<1>4. QED
  BY <1>1, <1>2, <1>3 DEF LiveAfter

LEMMA LiveAtOnce ==
  ASSUME NEW s, NEW n \in Nat, s[n + 1].op = "Allocate"
  PROVE  LiveAfter(s, n + 1, s[n + 1].id)
<1>1. n + 1 \in 1..(n + 1) /\ ((n + 1) + 1)..(n + 1) = {}
  OBVIOUS
<1>2. QED
  BY <1>1 DEF LiveAfter

(* A worker that does not move keeps its current entry.                    *)
LEMMA Unmoved ==
  ASSUME UNCHANGED input, NEW v \in Worker, pos'[v] = pos[v]
  PROVE  /\ Stream(v)' = Stream(v) /\ Current(v)' = Current(v)
         /\ \A op : Doing(v, op)' = Doing(v, op)
         /\ phase'[v] = phase[v] => \A id : /\ Writing(v, id)' = Writing(v, id)
                                           /\ OnRecord(v, id)' = OnRecord(v, id)
<1>1. Stream(v)' = Stream(v)
  BY SameInput
<1>2. Current(v)' = Current(v)
  BY <1>1 DEF Current
<1>3. \A op : Doing(v, op)' = Doing(v, op)
  BY <1>1, <1>2 DEF Doing
<1>4. ASSUME phase'[v] = phase[v], NEW id
      PROVE  Writing(v, id)' = Writing(v, id) /\ OnRecord(v, id)' = OnRecord(v, id)
  <2>1. Writing(v, id)' = Writing(v, id)
    BY <1>2, <1>4 DEF Writing
  <2>2. QED
    BY <1>1, <1>3, <2>1 DEF OnRecord
<1>5. QED
  BY <1>1, <1>2, <1>3, <1>4

LEMMA InCallStep ==
  ASSUME InCall, UNCHANGED input, NEW w \in Worker,
         \A v \in Worker \ {w} : /\ pos'[v] = pos[v] /\ phase'[v] = phase[v]
                                 /\ DOMAIN pending'[v] = DOMAIN pending[v],
         \/ phase'[w] \in {"call", "snapshot"}
         \/ /\ pos'[w] = pos[w] /\ pos[w] < Len(Stream(w))
            /\ Current(w).id \in DOMAIN pending'[w]
            /\ \/ phase'[w] = "write" /\ (Doing(w, "Allocate") \/ Doing(w, "Reallocate"))
               \/ phase'[w] = "verified" /\ (Doing(w, "Free") \/ Doing(w, "Reallocate"))
  PROVE  InCall'
<1>1. Worker' = Worker
  BY SameInput
<1>2. ASSUME NEW v \in Worker, phase'[v] \in {"write", "verified"}
      PROVE  /\ pos'[v] < Len(Stream(v)') /\ Current(v)'.id \in DOMAIN pending'[v]
             /\ phase'[v] = "write" => Doing(v, "Allocate")' \/ Doing(v, "Reallocate")'
             /\ phase'[v] = "verified" => Doing(v, "Free")' \/ Doing(v, "Reallocate")'
  <2>1. pos'[v] = pos[v]
    BY <1>2
  <2>2. Stream(v)' = Stream(v) /\ Current(v)' = Current(v) /\ \A op : Doing(v, op)' = Doing(v, op)
    BY <2>1, Unmoved
  <2>3. CASE v = w
    BY <1>2, <2>1, <2>2, <2>3
  <2>4. CASE v # w
    BY <1>2, <2>1, <2>2, <2>4 DEF InCall, Known
  <2>5. QED
    BY <2>3, <2>4
<1>3. QED
  BY <1>1, <1>2 DEF InCall, Known

(* The record of pending entries after one entry, which frees none of them.*)
LEMMA RecordMoves ==
  ASSUME Shape, NEW w \in Worker, NEW id, OnRecord(w, id), UNCHANGED input,
         pos[w] < Len(Stream(w)), pos'[w] = pos[w] + 1,
         ~ (Current(w).op = "Free" /\ Current(w).id = id)
  PROVE  OnRecord(w, id)'
<1>1. pos[w] \in Nat /\ Stream(w)' = Stream(w)
  BY CurrentFacts, SameInput
<1>2. LiveAfter(Stream(w), pos[w] + 1, id)
  <2>1. CASE LiveAfter(Stream(w), pos[w], id)
    <3> DEFINE s == Stream(w)
    <3>1. ~ (s[pos[w] + 1].op = "Free" /\ s[pos[w] + 1].id = id)
      BY DEF Current
    <3> HIDE DEF s
    <3>2. LiveAfter(s, pos[w] + 1, id)
      BY <1>1, <2>1, <3>1, LiveFurther DEF s
    <3>3. QED
      BY <3>2 DEF s
  <2>2. CASE Writing(w, id) /\ Doing(w, "Allocate")
    <3> DEFINE s == Stream(w)
    <3>1. s[pos[w] + 1].op = "Allocate" /\ s[pos[w] + 1].id = id
      BY <2>2 DEF Writing, Doing, Current
    <3> HIDE DEF s
    <3>2. LiveAfter(s, pos[w] + 1, id)
      BY <1>1, <3>1, LiveAtOnce
    <3>3. QED
      BY <3>2 DEF s
  <2>3. QED
    BY <2>1, <2>2 DEF OnRecord
<1>3. LiveAfter(Stream(w), pos[w], id)'
  BY <1>1, <1>2
<1>4. QED
  BY <1>3 DEF OnRecord

(* A step that leaves the memory and the tables alone.                     *)
LEMMA IdleStep ==
  ASSUME RInv, Shape', NEW w \in Worker, UNCHANGED <<input, allocator, payload, pending>>,
         \A v \in Worker \ {w} : /\ pos'[v] = pos[v] /\ phase'[v] = phase[v]
                                 /\ invariant_failed'[v] = invariant_failed[v],
         phase[w] # "write", HasReset \/ ~ invariant_failed'[w],
         \/ pos'[w] = pos[w] /\ phase'[w] \in {"call", "snapshot"}
         \/ /\ pos'[w] = pos[w] /\ phase'[w] = "verified" /\ Known(w)
            /\ Doing(w, "Free") \/ Doing(w, "Reallocate")
         \/ /\ pos'[w] = pos[w] + 1 /\ phase'[w] \in {"call", "snapshot"}
            /\ pos[w] < Len(Stream(w)) /\ ~ (Doing(w, "Free") /\ Known(w))
  PROVE  RInv'
<1>1. /\ Worker' = Worker /\ InTrace' = InTrace /\ HasReset' = HasReset
      /\ StreamsStandAlone' = StreamsStandAlone
      /\ issued' = issued /\ live' = live /\ payload' = payload /\ pending' = pending
  BY SameInput DEF allocator
<1>2. InCall'
  <2>1. Doing(w, "Free") \/ Doing(w, "Reallocate") => pos[w] < Len(Stream(w))
    BY DEF Doing
  <2>2. QED
    BY <1>1, <2>1, InCallStep DEF RInv, Known
<1>3. Extents' /\ AllRegistered'
  BY <1>1 DEF RInv, Extents, AllRegistered, Registered
<1>4. ASSUME StreamsStandAlone, NEW v \in Worker, NEW id \in DOMAIN pending[v]
      PROVE  OnRecord(v, id)'
  <2>1. OnRecord(v, id)
    BY <1>4 DEF RInv, Owned
  <2>2. CASE v # w
    BY <2>1, <2>2, Unmoved
  <2>3. CASE v = w /\ pos'[w] = pos[w]
    <3>1. LiveAfter(Stream(w), pos[w], id)
      BY <2>1, <2>3 DEF OnRecord, Writing
    <3>2. Stream(w)' = Stream(w)
      BY SameInput
    <3>3. LiveAfter(Stream(w), pos[w], id)'
      BY <2>3, <3>1, <3>2
    <3>4. QED
      BY <2>3, <3>3 DEF OnRecord
  <2>4. CASE v = w /\ pos'[w] = pos[w] + 1
    <3>1. pos[w] \in Nat
      BY DEF RInv, Shape
    <3>2. pos[w] < Len(Stream(w)) /\ ~ (Current(w).op = "Free" /\ Current(w).id = id)
      BY <2>4, <3>1, <1>4 DEF Doing, Known
    <3>3. QED
      BY <2>1, <2>4, <3>2, RecordMoves DEF RInv
  <2>5. QED
    BY <2>2, <2>3, <2>4
<1>5. Owned'
  BY <1>1, <1>4 DEF RInv, Owned
<1>6. PayloadIntact'
  <2>1. SUFFICES ASSUME ~ HasReset PROVE PayloadIntact'
    BY <1>1 DEF PayloadIntact
  <2>2. ASSUME NEW v \in Worker
        PROVE  /\ ~ invariant_failed'[v]
               /\ \A id \in DOMAIN pending[v] : Writing(v, id)' \/ Intact(v, id)'
    <3>1. ~ invariant_failed'[v]
      BY <2>1 DEF RInv, PayloadIntact
    <3>2. ASSUME NEW id \in DOMAIN pending[v] PROVE Writing(v, id)' \/ Intact(v, id)'
      <4>1. Writing(v, id) \/ Intact(v, id)
        BY <2>1 DEF RInv, PayloadIntact
      <4>2. Intact(v, id)' = Intact(v, id)
        BY <1>1 DEF Intact
      <4>3. CASE v = w
        BY <4>1, <4>2, <4>3 DEF Writing
      <4>4. CASE v # w
        BY <4>1, <4>2, <4>4, Unmoved
      <4>5. QED
        BY <4>3, <4>4
    <3>3. QED
      BY <3>1, <3>2
  <2>3. QED
    BY <1>1, <2>2 DEF PayloadIntact
<1>7. QED
  BY <1>2, <1>3, <1>5, <1>6 DEF RInv

LEMMA IdleActions ==
  ASSUME RInv, NEW w \in Worker,
         \/ AllocateFails(w) \/ VerifyPattern(w) \/ UnknownId(w)
         \/ ReallocateFails(w) \/ NoEffect(w) \/ NotSupported(w)
  PROVE  RInv'
<1>1. Shape'
  BY ShapeStep DEF ApplyEntry
<1>2. pos[w] < Len(Stream(w))
  BY HasEntry DEF ApplyEntry
<1>3. UNCHANGED <<input, allocator, payload, pending>>
  BY DEF AllocateFails, VerifyPattern, UnknownId, ReallocateFails, NoEffect, NotSupported
<1>4. /\ phase \in [Worker -> Phases] /\ invariant_failed \in [Worker -> BOOLEAN]
      /\ HasReset \/ ~ invariant_failed[w]
  BY DEF RInv, Shape, PayloadIntact
<1>5. CASE VerifyPattern(w)
  <2>1. /\ Doing(w, "Free") \/ Doing(w, "Reallocate")
        /\ phase[w] = "call" /\ Known(w)
        /\ invariant_failed' =
             [invariant_failed EXCEPT ![w] = @ \/ (Verifies(w) /\ ~ Intact(w, Current(w).id))]
        /\ phase' = [phase EXCEPT ![w] = "verified"]
        /\ pos' = pos
    BY <1>5 DEF VerifyPattern
  <2>2. HasReset \/ Intact(w, Current(w).id)
    BY <2>1 DEF RInv, PayloadIntact, Known, Writing
  <2>3. HasReset \/ ~ invariant_failed'[w]
    BY <1>4, <2>1, <2>2
  <2>4. /\ phase'[w] = "verified" /\ pos'[w] = pos[w] /\ phase[w] # "write"
        /\ \A v \in Worker \ {w} : /\ pos'[v] = pos[v] /\ phase'[v] = phase[v]
                                  /\ invariant_failed'[v] = invariant_failed[v]
    BY <1>4, <2>1
  <2>5. QED
    BY <1>1, <1>3, <2>1, <2>3, <2>4, IdleStep
<1>6. CASE ~ VerifyPattern(w)
  <2>1. Finish(w) /\ invariant_failed' = invariant_failed /\ phase[w] # "write"
        /\ ~ (Doing(w, "Free") /\ Known(w))
    BY <1>6 DEF AllocateFails, UnknownId, ReallocateFails, NoEffect, NotSupported, Doing
  <2>2. /\ pos'[w] = pos[w] + 1 /\ phase'[w] \in {"call", "snapshot"}
        /\ \A v \in Worker \ {w} : pos'[v] = pos[v] /\ phase'[v] = phase[v]
    BY <1>2, <1>3, <2>1, FinishFacts DEF RInv
  <2>3. QED
    BY <1>1, <1>2, <1>3, <1>4, <2>1, <2>2, IdleStep
<1>7. QED
  BY <1>5, <1>6

LEMMA SnapshotStep ==
  ASSUME RInv, NEW w \in Worker, Snapshot(w)
  PROVE  RInv'
<1>1. /\ phase[w] = "snapshot" /\ phase' = [phase EXCEPT ![w] = "call"]
      /\ pos' = pos /\ ops' = ops /\ successes' = successes /\ failures' = failures
      /\ invariant_failed' = invariant_failed
      /\ UNCHANGED <<input, allocator, payload, pending>>
  BY DEF Snapshot, counters
<1>2. /\ phase \in [Worker -> Phases]
      /\ HasReset \/ ~ invariant_failed[w]
  BY DEF RInv, Shape, PayloadIntact
<1>3. phase' \in [Worker -> Phases] /\ phase'[w] = "call"
      /\ \A v \in Worker \ {w} : phase'[v] = phase[v]
  BY <1>1, <1>2 DEF Phases
<1>4. Worker' = Worker /\ InTrace' = InTrace /\ \A v : Stream(v)' = Stream(v)
  BY <1>1, SameInput
<1>5. Shape'
  BY <1>1, <1>3, <1>4 DEF RInv, Shape, input, allocator
<1>6. QED
  BY <1>1, <1>2, <1>3, <1>5, IdleStep

(* Neither does anything to what the invariant is about.                   *)
LEMMA StillStep ==
  ASSUME RInv,
         UNCHANGED <<input, allocator, payload, pos, phase, pending, ops, counters,
                     invariant_failed>>
  PROVE  RInv'
<1>1. /\ Worker' = Worker /\ InTrace' = InTrace /\ HasReset' = HasReset
      /\ StreamsStandAlone' = StreamsStandAlone
      /\ \A v : Stream(v)' = Stream(v)
      /\ trace' = trace /\ run' = run /\ per_worker' = per_worker
  BY SameInput DEF input
<1>2. /\ issued' = issued /\ live' = live /\ payload' = payload /\ pending' = pending
      /\ pos' = pos /\ phase' = phase /\ ops' = ops /\ successes' = successes
      /\ failures' = failures /\ invariant_failed' = invariant_failed
  BY DEF allocator, counters
<1>3. Shape'
  BY <1>1, <1>2 DEF RInv, Shape
<1>4. \A v \in Worker : Current(v)' = Current(v)
  BY <1>1, <1>2 DEF Current
<1>5. InCall'
  BY <1>1, <1>2, <1>4 DEF RInv, InCall, Known, Doing
<1>6. Extents' /\ AllRegistered'
  BY <1>1, <1>2 DEF RInv, Extents, AllRegistered, Registered
<1>7. Owned' /\ PayloadIntact'
  BY <1>1, <1>2, <1>4 DEF RInv, Owned, OnRecord, Doing, PayloadIntact, Intact, Writing
<1>8. QED
  BY <1>3, <1>5, <1>6, <1>7 DEF RInv

-----------------------------------------------------------------------------
(* The calls that change what the worker knows.                            *)

LEMMA RememberFacts ==
  ASSUME Shape, NEW w \in Worker, NEW k, NEW handle, NEW given, Remember(w, k, handle, given)
  PROVE  /\ DOMAIN pending'[w] = DOMAIN pending[w] \cup {k}
         /\ pending'[w][k] = [handle |-> handle, given |-> given]
         /\ \A x \in DOMAIN pending[w] \ {k} : pending'[w][x] = pending[w][x]
         /\ \A v \in Worker \ {w} : pending'[v] = pending[v]
BY DEF Shape, Remember

LEMMA ForgetFacts ==
  ASSUME Shape, NEW w \in Worker, NEW k, Forget(w, k)
  PROVE  /\ DOMAIN pending'[w] = DOMAIN pending[w] \ {k}
         /\ \A x \in DOMAIN pending[w] \ {k} : pending'[w][x] = pending[w][x]
         /\ \A v \in Worker \ {w} : pending'[v] = pending[v]
BY DEF Shape, Forget

LEMMA ApartSym ==
  ASSUME NEW e, NEW f
  PROVE  Allocator!Apart(e, f) <=> Allocator!Apart(f, e)
BY DEF Allocator!Apart

(* What lies within extents that are apart shares no address.              *)
LEMMA ApartBytes ==
  ASSUME NEW e \in Allocator!Extent, NEW f \in Allocator!Extent, Allocator!Apart(e, f),
         NEW d \in [addr : Nat, size : Nat], NEW g \in [addr : Nat, size : Nat],
         Within(d, e), Within(g, f)
  PROVE  Bytes(d) \cap Bytes(g) = {}
BY DEF Allocator!Extent, Allocator!Apart, Bytes, Within

LEMMA WithinBytes ==
  ASSUME NEW e \in Allocator!Extent, NEW d \in [addr : Nat, size : Nat], Within(d, e)
  PROVE  Bytes(d) \subseteq Bytes(e)
BY DEF Allocator!Extent, Bytes, Within

(* What an entry with size bytes is told of.                               *)
LEMMA ToldFacts ==
  ASSUME NEW size \in Nat, NEW extent \in Allocator!Extent, NEW given \in Told(size, extent)
  PROVE  given \in [addr : Nat, size : Nat] /\ Within(given, extent)
BY DEF Allocator!Extent, Told, Within

LEMMA AllocateStep ==
  ASSUME RInv, NEW w \in Worker, AllocateSucceeds(w)
  PROVE  RInv'
<1>1. Shape'
  BY ShapeStep DEF ApplyEntry
<1> DEFINE k == Current(w).id
<1>a. PICK id \in AllocationId, extent \in Room(Current(w).size) :
        /\ live' = [h \in DOMAIN live \cup {id} |-> IF h = id THEN extent ELSE live[h]]
        /\ Allocator!Allocate(id)
        /\ \E given \in Told(Current(w).size, extent) : Remember(w, k, id, given)
  BY DEF AllocateSucceeds
<1>2. PICK given \in Told(Current(w).size, extent) : Remember(w, k, id, given)
  BY <1>a
<1>3. /\ Shape /\ Doing(w, "Allocate") /\ phase[w] = "call" /\ pos[w] < Len(Stream(w))
      /\ phase' = [phase EXCEPT ![w] = "write"] /\ pos' = pos /\ payload' = payload
      /\ invariant_failed' = invariant_failed /\ UNCHANGED input
      /\ phase \in [Worker -> Phases]
  BY DEF AllocateSucceeds, Doing, RInv, Shape
<1>4. /\ Worker' = Worker /\ InTrace' = InTrace /\ HasReset' = HasReset
      /\ StreamsStandAlone' = StreamsStandAlone
  BY <1>3, SameInput
<1>5. /\ id \notin issued /\ issued' = issued \cup {id} /\ DOMAIN live \subseteq issued
      /\ DOMAIN live' = DOMAIN live \cup {id} /\ live'[id] = extent
      /\ extent \in Allocator!Extent
      /\ \A h \in DOMAIN live : live'[h] = live[h] /\ Allocator!Apart(extent, live[h])
  BY <1>a, <1>3 DEF Allocator!Allocate, Shape
<1>6. Bytes(extent) \subseteq Memory
  BY DEF Room
<1>7. /\ DOMAIN pending'[w] = DOMAIN pending[w] \cup {k}
      /\ pending'[w][k] = [handle |-> id, given |-> given]
      /\ \A x \in DOMAIN pending[w] \ {k} : pending'[w][x] = pending[w][x]
      /\ \A v \in Worker \ {w} : pending'[v] = pending[v]
  BY <1>2, <1>3, RememberFacts
<1>8. /\ Current(w) \in InTrace /\ pos[w] \in Nat /\ pos[w] + 1 \in 1..Len(Stream(w))
      /\ given \in [addr : Nat, size : Nat] /\ Within(given, extent)
  <2>1. Current(w) \in InTrace /\ pos[w] \in Nat /\ pos[w] + 1 \in 1..Len(Stream(w))
    BY <1>3, CurrentFacts
  <2>2. Current(w).size \in Nat
    BY <1>3, CurrentFacts DEF Entry
  <2>3. QED
    BY <1>5, <2>1, <2>2, ToldFacts
<1>9. /\ phase'[w] = "write" /\ \A v \in Worker \ {w} : phase'[v] = phase[v]
  BY <1>3
<1>10. \A v \in Worker : \A j \in DOMAIN pending[v] : Registered(v, j)
  BY DEF RInv, AllRegistered
(* An entry of the new table is the new one or an old one.                 *)
<1>11. ASSUME NEW v \in Worker, NEW j \in DOMAIN pending'[v], ~ (v = w /\ j = k)
       PROVE  j \in DOMAIN pending[v] /\ pending'[v][j] = pending[v][j]
  BY <1>7, <1>11
<1> HIDE DEF k
<1>12. InCall'
  <2>1. Current(w).id \in DOMAIN pending'[w]
    BY <1>7 DEF k
  <2>2. QED
    BY <1>3, <1>7, <1>9, <2>1, InCallStep DEF RInv
<1>13. Extents'
  <2>1. \A h \in DOMAIN live :
          /\ live[h] \in Allocator!Extent /\ Bytes(live[h]) \subseteq Memory
          /\ \A g \in DOMAIN live \ {h} : Allocator!Apart(live[g], live[h])
    BY DEF RInv, Extents
  <2>2. \A h \in DOMAIN live : Allocator!Apart(live[h], extent)
    BY <1>5, ApartSym
  <2>3. QED
    BY <1>5, <1>6, <2>1, <2>2 DEF Extents
<1>14. ASSUME NEW v \in Worker, NEW j \in DOMAIN pending'[v]
       PROVE  Registered(v, j)'
  <2> DEFINE known == pending'[v][j]
  <2>1. \A x \in Worker : \A i \in DOMAIN pending[x] : pending[x][i].handle \in issued
    BY <1>10 DEF Registered
  <2>2. CASE v = w /\ j = k
    <3>1. /\ known.handle = id /\ known.given = given
      BY <1>7, <2>2
    <3>2. j \in {e.id : e \in InTrace}
      BY <1>8, <2>2 DEF k
    <3>3. \A x \in Worker : \A i \in DOMAIN pending'[x] :
            pending'[x][i].handle = id => x = v /\ i = j
      BY <1>5, <1>11, <2>1, <2>2
    <3>4. QED
      BY <1>4, <1>5, <1>8, <3>1, <3>2, <3>3 DEF Registered
  <2>3. CASE ~ (v = w /\ j = k)
    <3>1. j \in DOMAIN pending[v] /\ known = pending[v][j]
      BY <1>11, <2>3
    <3>2. Registered(v, j) /\ known.handle \in issued /\ known.handle # id
      BY <1>5, <1>10, <2>1, <3>1
    <3>3. \A x \in Worker : \A i \in DOMAIN pending'[x] :
            pending'[x][i].handle = known.handle => x = v /\ i = j
      BY <1>7, <1>11, <3>1, <3>2 DEF Registered
    <3>4. known.handle \in DOMAIN live' => known.handle \in DOMAIN live
      BY <1>5, <3>2
    <3>5. QED
      BY <1>4, <1>5, <3>1, <3>2, <3>3, <3>4 DEF Registered
  <2>4. QED
    BY <2>2, <2>3
<1>15. AllRegistered'
  BY <1>4, <1>14 DEF AllRegistered
<1>16. ASSUME StreamsStandAlone, NEW v \in Worker, NEW j \in DOMAIN pending[v]
       PROVE  OnRecord(v, j) /\ (v = w => LiveAfter(Stream(w), pos[w], j))
                             /\ ~ (v = w /\ j = k)
  <2>1. OnRecord(v, j)
    BY <1>16 DEF RInv, Owned
  <2>2. v = w => LiveAfter(Stream(w), pos[w], j)
    BY <1>3, <2>1 DEF OnRecord, Writing
  <2>3. ~ LiveAfter(Stream(w), pos[w], k)
    <3>1. Stream(w)[pos[w] + 1].op = "Allocate" /\ k = Stream(w)[pos[w] + 1].id
      BY <1>3 DEF Doing, Current, k
    <3>2. (pos[w] + 1) - 1 = pos[w]
      BY <1>8
    <3>3. ~ LiveAfter(Stream(w), (pos[w] + 1) - 1, k)
      BY <1>8, <1>16, <3>1 DEF StreamsStandAlone
    <3>4. QED
      BY <3>2, <3>3
  <2>4. QED
    BY <2>1, <2>2, <2>3
<1>17. Owned'
  <2> SUFFICES ASSUME StreamsStandAlone
               PROVE  /\ \A h \in DOMAIN live' : \E v \in Worker : \E j \in DOMAIN pending'[v] :
                           pending'[v][j].handle = h
                      /\ \A v \in Worker : \A j \in DOMAIN pending'[v] : OnRecord(v, j)'
    BY <1>4 DEF Owned
  <2>1. ASSUME NEW h \in DOMAIN live'
        PROVE  \E v \in Worker : \E j \in DOMAIN pending'[v] : pending'[v][j].handle = h
    <3>1. CASE h = id
      <4>1. k \in DOMAIN pending'[w] /\ pending'[w][k].handle = id
        BY <1>7
      <4>2. QED
        BY <3>1, <4>1
    <3>2. CASE h # id
      <4>1. PICK v \in Worker : \E j \in DOMAIN pending[v] : pending[v][j].handle = h
        BY <1>5, <3>2 DEF RInv, Owned
      <4>2. PICK j \in DOMAIN pending[v] : pending[v][j].handle = h
        BY <4>1
      <4>3. ~ (v = w /\ j = k)
        BY <1>16
      <4>4. j \in DOMAIN pending'[v] /\ pending'[v][j] = pending[v][j]
        BY <1>7, <4>3
      <4>5. QED
        BY <4>2, <4>4
    <3>3. QED
      BY <3>1, <3>2
  <2>2. ASSUME NEW v \in Worker, NEW j \in DOMAIN pending'[v]
        PROVE  OnRecord(v, j)'
    <3>1. Stream(w)' = Stream(w) /\ Current(w)' = Current(w) /\ Doing(w, "Allocate")'
      BY <1>3, Unmoved
    <3>2. CASE v = w /\ j = k
      BY <1>9, <3>1, <3>2 DEF OnRecord, Writing, k
    <3>3. CASE v = w /\ j # k
      <4>1. LiveAfter(Stream(w), pos[w], j)
        BY <1>11, <1>16, <3>3
      <4>2. LiveAfter(Stream(w), pos[w], j)'
        BY <1>3, <3>1, <4>1
      <4>3. QED
        BY <3>3, <4>2 DEF OnRecord
    <3>4. CASE v # w
      BY <1>3, <1>9, <1>11, <1>16, <3>4, Unmoved
    <3>5. QED
      BY <3>2, <3>3, <3>4
  <2>3. QED
    BY <2>1, <2>2
<1>18. PayloadIntact'
  <2>1. SUFFICES ASSUME ~ HasReset PROVE PayloadIntact'
    BY <1>4 DEF PayloadIntact
  <2>2. ASSUME NEW v \in Worker, NEW j \in DOMAIN pending'[v]
        PROVE  Writing(v, j)' \/ Intact(v, j)'
    <3>1. CASE v = w /\ j = k
      <4>1. Current(w)' = Current(w)
        BY <1>3, Unmoved
      <4>2. QED
        BY <1>9, <3>1, <4>1 DEF Writing, k
    <3>2. CASE ~ (v = w /\ j = k)
      <4>1. j \in DOMAIN pending[v] /\ pending'[v][j] = pending[v][j]
        BY <1>11, <3>2
      <4>2. Writing(v, j) \/ Intact(v, j)
        BY <2>1, <4>1 DEF RInv, PayloadIntact
      <4>3. Intact(v, j)' = Intact(v, j)
        BY <1>3, <4>1 DEF Intact
      <4>4. CASE v = w
        BY <1>3, <4>2, <4>3, <4>4 DEF Writing
      <4>5. CASE v # w
        BY <1>3, <1>9, <4>2, <4>3, <4>5, Unmoved
      <4>6. QED
        BY <4>4, <4>5
    <3>3. QED
      BY <3>1, <3>2
  <2>3. \A v \in Worker : ~ invariant_failed'[v]
    BY <1>3, <2>1 DEF RInv, PayloadIntact
  <2>4. QED
    BY <1>4, <2>2, <2>3 DEF PayloadIntact
<1>19. QED
  BY <1>1, <1>12, <1>13, <1>15, <1>17, <1>18 DEF RInv

LEMMA WriteStep ==
  ASSUME RInv, NEW w \in Worker, WritePattern(w)
  PROVE  RInv'
<1>1. Shape'
  BY ShapeStep DEF ApplyEntry
<1> DEFINE k == Current(w).id
           mine == pending[w][k].given
<1>2. /\ Shape /\ phase[w] = "write" /\ pos[w] < Len(Stream(w)) /\ k \in DOMAIN pending[w]
      /\ payload \in [Memory -> Nat]
      /\ ~ Doing(w, "Free")
  BY DEF RInv, Shape, InCall, WritePattern, Known, Doing
<1>3. /\ payload' = [a \in Memory |-> IF a \in Bytes(mine) THEN Pattern(k) ELSE payload[a]]
      /\ Finish(w) /\ UNCHANGED <<input, allocator, pending, invariant_failed>>
  BY DEF WritePattern
<1>4. /\ Worker' = Worker /\ InTrace' = InTrace /\ HasReset' = HasReset
      /\ StreamsStandAlone' = StreamsStandAlone
      /\ issued' = issued /\ live' = live /\ pending' = pending
  BY <1>3, SameInput DEF allocator
<1>5. /\ pos'[w] = pos[w] + 1 /\ phase'[w] \in {"call", "snapshot"}
      /\ \A v \in Worker \ {w} : pos'[v] = pos[v] /\ phase'[v] = phase[v]
  BY <1>2, <1>3, FinishFacts
<1> HIDE DEF k, mine
<1>6. InCall'
  BY <1>3, <1>4, <1>5, InCallStep DEF RInv
<1>7. Extents' /\ AllRegistered'
  BY <1>4 DEF RInv, Extents, AllRegistered, Registered
<1>8. ASSUME StreamsStandAlone, NEW v \in Worker, NEW j \in DOMAIN pending[v]
      PROVE  OnRecord(v, j)'
  <2>1. OnRecord(v, j)
    BY <1>8 DEF RInv, Owned
  <2>2. CASE v = w
    BY <1>2, <1>3, <1>5, <2>1, <2>2, RecordMoves DEF Doing
  <2>3. CASE v # w
    BY <1>3, <1>5, <2>1, <2>3, Unmoved
  <2>4. QED
    BY <2>2, <2>3
<1>9. Owned'
  BY <1>4, <1>8 DEF RInv, Owned
<1>10. PayloadIntact'
  <2>1. SUFFICES ASSUME ~ HasReset PROVE PayloadIntact'
    BY <1>4 DEF PayloadIntact
  <2>2. \A v \in Worker : \A j \in DOMAIN pending[v] :
          /\ Registered(v, j) /\ pending[v][j].handle \in DOMAIN live
          /\ Within(pending[v][j].given, live[pending[v][j].handle])
    BY <2>1 DEF RInv, AllRegistered, Registered
  <2>3. ASSUME NEW v \in Worker, NEW j \in DOMAIN pending[v]
        PROVE  Writing(v, j)' \/ Intact(v, j)'
    <3> DEFINE yours == pending[v][j].given
    <3>1. yours \in [addr : Nat, size : Nat] /\ Bytes(yours) \subseteq Memory
      <4> DEFINE h == pending[v][j].handle
      <4>1. h \in DOMAIN live /\ yours \in [addr : Nat, size : Nat] /\ Within(yours, live[h])
        BY <2>2 DEF Registered
      <4> HIDE DEF h, yours
      <4>2. live[h] \in Allocator!Extent /\ Bytes(live[h]) \subseteq Memory
        BY <4>1 DEF RInv, Extents
      <4>3. QED
        BY <4>1, <4>2, WithinBytes
    <3> HIDE DEF yours
    <3>2. CASE v = w /\ j = k
      <4>1. \A a \in Bytes(yours) : payload'[a] = Pattern(j)
        BY <1>3, <3>1, <3>2 DEF mine, yours
      <4>2. QED
        BY <1>4, <4>1 DEF Intact, yours
    <3>3. CASE ~ (v = w /\ j = k)
      <4>2. Bytes(mine) \cap Bytes(yours) = {}
        <5> DEFINE g == pending[w][k].handle
                   h == pending[v][j].handle
        <5>1. /\ g \in DOMAIN live /\ Within(mine, live[g])
              /\ h \in DOMAIN live /\ Within(yours, live[h])
          BY <1>2, <2>2 DEF mine, yours
        <5>2. mine \in [addr : Nat, size : Nat] /\ g # h
          BY <1>2, <2>2, <3>3 DEF Registered, mine
        <5> HIDE DEF g, h
        <5>3. /\ live[g] \in Allocator!Extent /\ live[h] \in Allocator!Extent
              /\ Allocator!Apart(live[g], live[h])
          BY <5>1, <5>2 DEF RInv, Extents
        <5>4. QED
          BY <3>1, <5>1, <5>2, <5>3, ApartBytes
      <4>3. \A a \in Bytes(yours) : payload'[a] = payload[a]
        BY <1>3, <3>1, <4>2
      <4>4. Intact(v, j) => Intact(v, j)'
        BY <1>4, <4>3 DEF Intact, yours
      <4>5. Writing(v, j) \/ Intact(v, j)
        BY <2>1 DEF RInv, PayloadIntact
      <4>6. CASE v = w
        BY <3>3, <4>4, <4>5, <4>6 DEF Writing, k
      <4>7. CASE v # w
        BY <1>3, <1>5, <4>4, <4>5, <4>7, Unmoved
      <4>8. QED
        BY <4>6, <4>7
    <3>4. QED
      BY <3>2, <3>3
  <2>4. \A v \in Worker : ~ invariant_failed'[v]
    BY <1>3, <2>1 DEF RInv, PayloadIntact
  <2>5. QED
    BY <1>4, <2>3, <2>4 DEF PayloadIntact
<1>11. QED
  BY <1>1, <1>6, <1>7, <1>9, <1>10 DEF RInv

LEMMA FreeStep ==
  ASSUME RInv, NEW w \in Worker, Free(w)
  PROVE  RInv'
<1>1. Shape'
  BY ShapeStep DEF ApplyEntry
<1> DEFINE k == Current(w).id
           handle == pending[w][k].handle
<1>2. /\ Shape /\ phase[w] = "verified" /\ Doing(w, "Free") /\ pos[w] < Len(Stream(w))
      /\ k \in DOMAIN pending[w]
  BY DEF RInv, InCall, Free, Known, Doing
<1>3. /\ Forget(w, k) /\ Finish(w) /\ UNCHANGED <<input, payload, invariant_failed>>
      /\ issued' = issued
      /\ DOMAIN live' = DOMAIN live \ {handle} /\ \A h \in DOMAIN live' : live'[h] = live[h]
  BY DEF Free, allocator, Allocator!Free
<1>4. /\ Worker' = Worker /\ InTrace' = InTrace /\ HasReset' = HasReset
      /\ StreamsStandAlone' = StreamsStandAlone
  BY <1>3, SameInput
<1>5. /\ pos'[w] = pos[w] + 1 /\ phase'[w] \in {"call", "snapshot"}
      /\ \A v \in Worker \ {w} : pos'[v] = pos[v] /\ phase'[v] = phase[v]
  BY <1>2, <1>3, FinishFacts
<1>6. /\ DOMAIN pending'[w] = DOMAIN pending[w] \ {k}
      /\ \A x \in DOMAIN pending[w] \ {k} : pending'[w][x] = pending[w][x]
      /\ \A v \in Worker \ {w} : pending'[v] = pending[v]
  BY <1>2, <1>3, ForgetFacts
<1>7. \A v \in Worker : \A j \in DOMAIN pending[v] : Registered(v, j)
  BY DEF RInv, AllRegistered
<1>8. ASSUME NEW v \in Worker, NEW j \in DOMAIN pending'[v]
      PROVE  /\ j \in DOMAIN pending[v] /\ pending'[v][j] = pending[v][j]
             /\ ~ (v = w /\ j = k)
  BY <1>6
<1> HIDE DEF k
<1>9. \A v \in Worker : \A j \in DOMAIN pending'[v] : pending[v][j].handle # handle
  BY <1>2, <1>7, <1>8 DEF Registered
<1> HIDE DEF handle
<1>10. InCall'
  BY <1>3, <1>5, <1>6, InCallStep DEF RInv
<1>11. Extents'
  BY <1>3 DEF RInv, Extents
<1>12. ASSUME NEW v \in Worker, NEW j \in DOMAIN pending'[v]
       PROVE  Registered(v, j)'
  <2>1. j \in DOMAIN pending[v] /\ pending'[v][j] = pending[v][j] /\ Registered(v, j)
    BY <1>7, <1>8
  <2>2. pending[v][j].handle # handle
    BY <1>9
  <2>3. \A x \in Worker : \A i \in DOMAIN pending'[x] :
          pending'[x][i].handle = pending[v][j].handle => x = v /\ i = j
    BY <1>8, <2>1 DEF Registered
  <2>4. QED
    BY <1>3, <1>4, <2>1, <2>2, <2>3 DEF Registered
<1>13. AllRegistered'
  BY <1>4, <1>12 DEF AllRegistered
<1>14. Owned'
  <2> SUFFICES ASSUME StreamsStandAlone
               PROVE  /\ \A h \in DOMAIN live' : \E v \in Worker : \E j \in DOMAIN pending'[v] :
                           pending'[v][j].handle = h
                      /\ \A v \in Worker : \A j \in DOMAIN pending'[v] : OnRecord(v, j)'
    BY <1>4 DEF Owned
  <2>1. ASSUME NEW h \in DOMAIN live'
        PROVE  \E v \in Worker : \E j \in DOMAIN pending'[v] : pending'[v][j].handle = h
    <3>1. h \in DOMAIN live /\ h # handle
      BY <1>3
    <3>2. PICK v \in Worker : \E j \in DOMAIN pending[v] : pending[v][j].handle = h
      BY <3>1 DEF RInv, Owned
    <3>3. PICK j \in DOMAIN pending[v] : pending[v][j].handle = h
      BY <3>2
    <3>4. ~ (v = w /\ j = k)
      BY <3>1, <3>3 DEF handle
    <3>5. j \in DOMAIN pending'[v] /\ pending'[v][j] = pending[v][j]
      BY <1>6, <3>4
    <3>6. QED
      BY <3>3, <3>5
  <2>2. ASSUME NEW v \in Worker, NEW j \in DOMAIN pending'[v]
        PROVE  OnRecord(v, j)'
    <3>1. j \in DOMAIN pending[v] /\ ~ (v = w /\ j = k)
      BY <1>8
    <3>2. OnRecord(v, j)
      BY <3>1 DEF RInv, Owned
    <3>3. CASE v = w
      BY <1>2, <1>3, <1>5, <3>1, <3>2, <3>3, RecordMoves DEF k
    <3>4. CASE v # w
      BY <1>3, <1>5, <3>2, <3>4, Unmoved
    <3>5. QED
      BY <3>3, <3>4
  <2>3. QED
    BY <2>1, <2>2
<1>15. PayloadIntact'
  <2>1. SUFFICES ASSUME ~ HasReset PROVE PayloadIntact'
    BY <1>4 DEF PayloadIntact
  <2>2. ASSUME NEW v \in Worker, NEW j \in DOMAIN pending'[v]
        PROVE  Writing(v, j)' \/ Intact(v, j)'
    <3>1. j \in DOMAIN pending[v] /\ pending'[v][j] = pending[v][j]
      BY <1>8
    <3>2. Writing(v, j) \/ Intact(v, j)
      BY <2>1, <3>1 DEF RInv, PayloadIntact
    <3>3. Intact(v, j)' = Intact(v, j)
      BY <1>3, <3>1 DEF Intact
    <3>4. CASE v = w
      BY <1>2, <3>2, <3>3, <3>4 DEF Writing
    <3>5. CASE v # w
      BY <1>3, <1>5, <3>2, <3>3, <3>5, Unmoved
    <3>6. QED
      BY <3>4, <3>5
  <2>3. \A v \in Worker : ~ invariant_failed'[v]
    BY <1>3, <2>1 DEF RInv, PayloadIntact
  <2>4. QED
    BY <1>4, <2>2, <2>3 DEF PayloadIntact
<1>16. QED
  BY <1>1, <1>10, <1>11, <1>13, <1>14, <1>15 DEF RInv

LEMMA ReallocateStep ==
  ASSUME RInv, NEW w \in Worker, ReallocateSucceeds(w)
  PROVE  RInv'
<1>1. Shape'
  BY ShapeStep DEF ApplyEntry
<1> DEFINE k == Current(w).id
           handle == pending[w][k].handle
<1>a. PICK extent \in Room(Current(w).size) :
        /\ live' = [live EXCEPT ![handle] = extent]
        /\ Allocator!Reallocate(handle)
        /\ \E given \in Told(Current(w).size, extent) : Remember(w, k, handle, given)
  BY DEF ReallocateSucceeds
<1>2. PICK given \in Told(Current(w).size, extent) : Remember(w, k, handle, given)
  BY <1>a
<1>3. /\ Shape /\ Doing(w, "Reallocate") /\ phase[w] = "verified" /\ pos[w] < Len(Stream(w))
      /\ phase' = [phase EXCEPT ![w] = "write"] /\ pos' = pos /\ payload' = payload
      /\ invariant_failed' = invariant_failed /\ UNCHANGED input
      /\ phase \in [Worker -> Phases] /\ k \in DOMAIN pending[w]
  BY DEF ReallocateSucceeds, Doing, RInv, Shape, InCall, Known
<1>4. /\ Worker' = Worker /\ InTrace' = InTrace /\ HasReset' = HasReset
      /\ StreamsStandAlone' = StreamsStandAlone
  BY <1>3, SameInput
<1>5. /\ handle \in DOMAIN live /\ issued' = issued
      /\ DOMAIN live' = DOMAIN live /\ live'[handle] = extent
      /\ extent \in Allocator!Extent
      /\ \A h \in DOMAIN live \ {handle} :
           live'[h] = live[h] /\ Allocator!Apart(extent, live[h])
  BY <1>a DEF Allocator!Reallocate
<1>6. /\ Bytes(extent) \subseteq Memory
      /\ given \in [addr : Nat, size : Nat] /\ Within(given, extent)
  <2>1. Current(w).size \in Nat
    BY <1>3, CurrentFacts DEF Entry
  <2>2. Bytes(extent) \subseteq Memory
    BY DEF Room
  <2>3. QED
    BY <1>5, <2>1, <2>2, ToldFacts
<1>7. /\ DOMAIN pending'[w] = DOMAIN pending[w] \cup {k}
      /\ pending'[w][k] = [handle |-> handle, given |-> given]
      /\ \A x \in DOMAIN pending[w] \ {k} : pending'[w][x] = pending[w][x]
      /\ \A v \in Worker \ {w} : pending'[v] = pending[v]
  BY <1>2, <1>3, RememberFacts
<1>8. /\ phase'[w] = "write" /\ \A v \in Worker \ {w} : phase'[v] = phase[v]
  BY <1>3
<1>9. \A v \in Worker : \A j \in DOMAIN pending[v] : Registered(v, j)
  BY DEF RInv, AllRegistered
<1>10. ASSUME NEW v \in Worker
       PROVE  /\ DOMAIN pending'[v] = DOMAIN pending[v]
              /\ \A j \in DOMAIN pending[v] : pending'[v][j].handle = pending[v][j].handle
  <2>1. pending'[w][k].handle = pending[w][k].handle
    BY <1>7
  <2> HIDE DEF k, handle
  <2>2. CASE v = w
    <3>1. DOMAIN pending'[w] = DOMAIN pending[w]
      BY <1>3, <1>7
    <3>2. ASSUME NEW j \in DOMAIN pending[w]
          PROVE  pending'[w][j].handle = pending[w][j].handle
      BY <1>7, <2>1
    <3>3. QED
      BY <2>2, <3>1, <3>2
  <2>3. CASE v # w
    BY <1>7, <2>3
  <2>4. QED
    BY <2>2, <2>3
<1>11. ASSUME NEW v \in Worker, NEW j \in DOMAIN pending[v], ~ (v = w /\ j = k)
       PROVE  pending'[v][j] = pending[v][j] /\ pending[v][j].handle # handle
  <2>1. pending'[v][j] = pending[v][j]
    BY <1>7, <1>11
  <2>2. pending[v][j].handle # handle
    BY <1>3, <1>9, <1>11 DEF Registered
  <2>3. QED
    BY <2>1, <2>2
<1> HIDE DEF k, handle
<1>12. InCall'
  <2>1. Current(w).id \in DOMAIN pending'[w]
    BY <1>7 DEF k
  <2>2. QED
    BY <1>3, <1>7, <1>8, <2>1, InCallStep DEF RInv
<1>13. Extents'
  <2>1. \A h \in DOMAIN live :
          /\ live[h] \in Allocator!Extent /\ Bytes(live[h]) \subseteq Memory
          /\ \A g \in DOMAIN live \ {h} : Allocator!Apart(live[g], live[h])
    BY DEF RInv, Extents
  <2>2. \A h \in DOMAIN live \ {handle} : Allocator!Apart(live[h], extent)
    BY <1>5, ApartSym
  <2>3. QED
    BY <1>5, <1>6, <2>1, <2>2 DEF Extents
<1>14. ASSUME NEW v \in Worker, NEW j \in DOMAIN pending[v]
       PROVE  Registered(v, j)'
  <2>1. Registered(v, j) /\ pending'[v][j].handle = pending[v][j].handle
    BY <1>9, <1>10
  <2>2. \A x \in Worker : \A i \in DOMAIN pending'[x] :
          pending'[x][i].handle = pending[v][j].handle => x = v /\ i = j
    BY <1>10, <2>1 DEF Registered
  <2>3. CASE v = w /\ j = k
    BY <1>4, <1>5, <1>6, <1>7, <2>1, <2>2, <2>3 DEF Registered
  <2>4. CASE ~ (v = w /\ j = k)
    BY <1>4, <1>5, <1>11, <2>1, <2>2, <2>4 DEF Registered
  <2>5. QED
    BY <2>3, <2>4
<1>15. AllRegistered'
  BY <1>4, <1>10, <1>14 DEF AllRegistered
<1>16. Owned'
  <2> SUFFICES ASSUME StreamsStandAlone
               PROVE  /\ \A h \in DOMAIN live' : \E v \in Worker : \E j \in DOMAIN pending'[v] :
                           pending'[v][j].handle = h
                      /\ \A v \in Worker : \A j \in DOMAIN pending'[v] : OnRecord(v, j)'
    BY <1>4 DEF Owned
  <2>1. \A h \in DOMAIN live' : \E v \in Worker : \E j \in DOMAIN pending'[v] :
          pending'[v][j].handle = h
    BY <1>5, <1>10 DEF RInv, Owned
  <2>2. ASSUME NEW v \in Worker, NEW j \in DOMAIN pending[v]
        PROVE  OnRecord(v, j)'
    <3>1. OnRecord(v, j)
      BY DEF RInv, Owned
    <3>2. CASE v = w
      <4>1. LiveAfter(Stream(w), pos[w], j)
        BY <1>3, <3>1, <3>2 DEF OnRecord, Writing
      <4>2. Stream(w)' = Stream(w)
        BY <1>3, SameInput
      <4>3. LiveAfter(Stream(w), pos[w], j)'
        BY <1>3, <4>1, <4>2
      <4>4. QED
        BY <3>2, <4>3 DEF OnRecord
    <3>3. CASE v # w
      BY <1>3, <1>8, <3>1, <3>3, Unmoved
    <3>4. QED
      BY <3>2, <3>3
  <2>3. QED
    BY <1>10, <2>1, <2>2
<1>17. PayloadIntact'
  <2>1. SUFFICES ASSUME ~ HasReset PROVE PayloadIntact'
    BY <1>4 DEF PayloadIntact
  <2>2. ASSUME NEW v \in Worker, NEW j \in DOMAIN pending[v]
        PROVE  Writing(v, j)' \/ Intact(v, j)'
    <3>1. CASE v = w /\ j = k
      <4>1. Current(w)' = Current(w)
        BY <1>3, Unmoved
      <4>2. QED
        BY <1>8, <3>1, <4>1 DEF Writing, k
    <3>2. CASE ~ (v = w /\ j = k)
      <4>1. Writing(v, j) \/ Intact(v, j)
        BY <2>1 DEF RInv, PayloadIntact
      <4>2. Intact(v, j)' = Intact(v, j)
        BY <1>3, <1>11, <3>2 DEF Intact
      <4>3. CASE v = w
        BY <1>3, <4>1, <4>2, <4>3 DEF Writing
      <4>4. CASE v # w
        BY <1>3, <1>8, <4>1, <4>2, <4>4, Unmoved
      <4>5. QED
        BY <4>3, <4>4
    <3>3. QED
      BY <3>1, <3>2
  <2>3. \A v \in Worker : ~ invariant_failed'[v]
    BY <1>3, <2>1 DEF RInv, PayloadIntact
  <2>4. QED
    BY <1>4, <1>10, <2>2, <2>3 DEF PayloadIntact
<1>18. QED
  BY <1>1, <1>12, <1>13, <1>15, <1>16, <1>17 DEF RInv

LEMMA ResetStep ==
  ASSUME RInv, NEW w \in Worker, Reset(w)
  PROVE  RInv'
<1>1. Shape'
  BY ShapeStep DEF ApplyEntry
<1>2. /\ Shape /\ Doing(w, "Reset") /\ pos[w] < Len(Stream(w)) /\ phase[w] = "call"
      /\ Finish(w) /\ UNCHANGED <<input, pending, issued>> /\ DOMAIN live' = {}
  BY DEF RInv, Reset, Allocator!Discard, Doing
<1>3. /\ Worker' = Worker /\ InTrace' = InTrace /\ HasReset' = HasReset
      /\ StreamsStandAlone' = StreamsStandAlone
  BY <1>2, SameInput
<1>4. /\ pos'[w] = pos[w] + 1 /\ phase'[w] \in {"call", "snapshot"}
      /\ \A v \in Worker \ {w} : pos'[v] = pos[v] /\ phase'[v] = phase[v]
  BY <1>2, FinishFacts
<1>5. HasReset
  <2>1. Current(w) \in InTrace /\ Current(w).op = "Reset"
    BY <1>2, CurrentFacts DEF Doing
  <2>2. trace \in Seq(Entry)
    BY RunFacts, <1>2 DEF Shape
  <2>3. QED
    BY <2>1, <2>2 DEF InTrace, HasReset
<1>6. InCall'
  BY <1>2, <1>4, InCallStep DEF RInv
<1>7. Extents' /\ PayloadIntact'
  BY <1>2, <1>3, <1>5 DEF Extents, PayloadIntact
<1>8. AllRegistered'
  BY <1>2, <1>3, <1>5 DEF RInv, AllRegistered, Registered
<1>9. ASSUME StreamsStandAlone, NEW v \in Worker, NEW j \in DOMAIN pending[v]
      PROVE  OnRecord(v, j)'
  <2>1. OnRecord(v, j)
    BY <1>9 DEF RInv, Owned
  <2>2. CASE v = w
    BY <1>2, <1>4, <2>1, <2>2, RecordMoves DEF Doing
  <2>3. CASE v # w
    BY <1>2, <1>4, <2>1, <2>3, Unmoved
  <2>4. QED
    BY <2>2, <2>3
<1>10. Owned'
  BY <1>2, <1>3, <1>9 DEF Owned
<1>11. QED
  BY <1>1, <1>6, <1>7, <1>8, <1>10 DEF RInv

LEMMA NextRInv == RInv /\ [Next]_vars => RInv'
<1> SUFFICES ASSUME RInv, [Next]_vars PROVE RInv'
  OBVIOUS
<1>1. CASE Report \/ UNCHANGED vars
  BY <1>1, StillStep DEF Report, vars, result, counters
<1>2. ASSUME NEW w \in Worker, ApplyEntry(w) \/ Snapshot(w)
      PROVE  RInv'
  BY <1>2, IdleActions, SnapshotStep, AllocateStep, WriteStep, FreeStep, ReallocateStep, ResetStep
     DEF ApplyEntry
<1>3. QED
  BY <1>1, <1>2 DEF Next

LEMMA RunnerInvariant == Spec => []RInv
<1>1. QED
  BY InitRInv, NextRInv, PTL DEF Spec

(* What a worker wrote stays as it wrote it, for any number of workers and *)
(* every validated trace without a RESET: verify_pattern() never fails.    *)
THEOREM RunnerPayloadIntact == Spec => []PayloadIntact
<1>1. RInv => PayloadIntact
  BY DEF RInv
<1>2. QED
  BY <1>1, RunnerInvariant, PTL

LEMMA HeldFacts ==
  ASSUME RInv
  PROVE  /\ \A p \in Held : p[1] \in Worker /\ p[2] \in DOMAIN pending[p[1]] /\ p = <<p[1], p[2]>>
         /\ \A w \in Worker : \A id \in DOMAIN pending[w] : <<w, id>> \in Held
<1>1. trace \in Seq(Entry)
  BY RunFacts DEF RInv, Shape
<1>2. ToSet(trace) = InTrace
  BY <1>1 DEF ToSet, InTrace
<1>3. \A p \in Held : p[1] \in Worker /\ p[2] \in DOMAIN pending[p[1]] /\ p = <<p[1], p[2]>>
  BY DEF Held
<1>4. ASSUME NEW w \in Worker, NEW id \in DOMAIN pending[w]
      PROVE  <<w, id>> \in Held
  <2>1. id \in {e.id : e \in InTrace}
    BY DEF RInv, AllRegistered, Registered
  <2>2. QED
    BY <1>2, <2>1 DEF Held
<1>5. QED
  BY <1>3, <1>4

LEMMA RunnerTyped == RInv => TypeOK
<1> SUFFICES ASSUME RInv PROVE TypeOK
  OBVIOUS
<1>1. /\ trace \in Traces /\ per_worker \in [Worker -> Seq(InTrace)]
      /\ issued \subseteq AllocationId /\ DOMAIN live \subseteq issued
      /\ payload \in [Memory -> Nat]
      /\ pos \in [Worker -> Nat] /\ \A w \in Worker : pos[w] <= Len(Stream(w))
      /\ phase \in [Worker -> Phases]
      /\ ops \in [Worker -> Nat] /\ successes \in [Worker -> Nat] /\ failures \in [Worker -> Nat]
      /\ invariant_failed \in [Worker -> BOOLEAN]
  BY DEF RInv, Shape
<1>2. \A h \in DOMAIN live : Bytes(live[h]) \subseteq Memory
  BY DEF RInv, Extents
<1>3. \A w \in Worker : \A id \in DOMAIN pending[w] :
        pending[w][id].handle \in issued /\ pending[w][id].given \in [addr : Nat, size : Nat]
  BY DEF RInv, AllRegistered, Registered
<1>4. \A w \in Worker : pos[w] \in 0..Len(Stream(w))
  BY <1>1 DEF Stream
<1>5. QED
  BY <1>1, <1>2, <1>3, <1>4 DEF TypeOK, Phases

(* No handle is lost or shared, for any number of workers.                 *)
THEOREM RunnerNoHandleLost == Spec => []NoHandleLost
<1>1. ASSUME RInv PROVE NoHandleLost
  <2>1. /\ \A p \in Held : p[1] \in Worker /\ p[2] \in DOMAIN pending[p[1]] /\ p = <<p[1], p[2]>>
        /\ \A w \in Worker : \A id \in DOMAIN pending[w] : <<w, id>> \in Held
    BY <1>1, HeldFacts
  <2>2. ASSUME NEW p \in Held
        PROVE  LET known == pending[p[1]][p[2]]
               IN /\ known.handle \in DOMAIN live => Within(known.given, live[known.handle])
                  /\ HasReset \/ known.handle \in DOMAIN live
                  /\ \A q \in Held \ {p} : pending[q[1]][q[2]].handle # known.handle
    <3>1. Registered(p[1], p[2])
      BY <1>1, <2>1 DEF RInv, AllRegistered
    <3>2. QED
      BY <2>1, <3>1 DEF Registered
  <2>3. ASSUME StreamsStandAlone, NEW h \in DOMAIN live
        PROVE  \E p \in Held : pending[p[1]][p[2]].handle = h
    <3>1. PICK w \in Worker : \E id \in DOMAIN pending[w] : pending[w][id].handle = h
      BY <1>1, <2>3 DEF RInv, Owned
    <3>2. PICK id \in DOMAIN pending[w] : pending[w][id].handle = h
      BY <3>1
    <3>3. <<w, id>> \in Held /\ <<w, id>>[1] = w /\ <<w, id>>[2] = id
      BY <2>1
    <3>4. QED
      BY <3>2, <3>3
  <2>4. TypeOK
    BY <1>1, RunnerTyped
  <2>5. QED
    BY <2>2, <2>3, <2>4 DEF NoHandleLost
<1>2. QED
  BY <1>1, RunnerInvariant, PTL

(* Without a RESET in the trace, the memory a worker verifies is always    *)
(* memory the allocator still owns to it.                                  *)
THEOREM RunnerReadsLive ==
  Spec => [][~ HasReset =>
               \A w \in Worker :
                 VerifyPattern(w) => pending[w][Current(w).id].handle \in DOMAIN live]_vars
<1>1. RInv /\ [Next]_vars =>
        [~ HasReset => \A w \in Worker :
           VerifyPattern(w) => pending[w][Current(w).id].handle \in DOMAIN live]_vars
  BY DEF RInv, AllRegistered, Registered, VerifyPattern, Known
<1>2. QED
  BY <1>1, RunnerInvariant, PTL DEF Spec

-----------------------------------------------------------------------------
(* Sums term by term.                                                      *)

LEMMA SumPlus ==
  ASSUME NEW S, IsFiniteSet(S), NEW f, NEW g, NEW h,
         \A x \in S : f[x] \in Nat /\ g[x] \in Nat /\ h[x] = f[x] + g[x]
  PROVE  SumOf(h, S) = SumOf(f, S) + SumOf(g, S)
<1> DEFINE B == {T \in SUBSET S : SumOf(h, T) # SumOf(f, T) + SumOf(g, T)}
<1>1. SUFFICES ASSUME B # {} PROVE FALSE
  OBVIOUS
<1>2. PICK M \in B : \A T \in B : T \subseteq M => T = M
  <2>1. B \in SUBSET SUBSET S
    OBVIOUS
  <2> HIDE DEF B
  <2>2. QED
    BY <2>1, <1>1, MinimalSubset
<1>3. IsFiniteSet(M) /\ M \in SUBSET S
  BY <1>2, FS_Subset
<1>4. M # {}
  <2>1. SumOf(h, {}) = SumOf(f, {}) + SumOf(g, {})
    BY SumEmpty
  <2>2. QED
    BY <1>2, <2>1, Zenon
<1>5. PICK p \in M : p = Pick(M)
  BY <1>4, PickIn
<1> DEFINE R == M \ {p}
<1>6. R \in SUBSET S /\ R # M /\ R \subseteq M /\ p \in S
  BY <1>3
<1>7. SumOf(h, R) = SumOf(f, R) + SumOf(g, R)
  BY <1>2, <1>6
<1>8. /\ SumOf(f, M) = f[p] + SumOf(f, R) /\ SumOf(g, M) = g[p] + SumOf(g, R)
      /\ SumOf(h, M) = h[p] + SumOf(h, R)
  BY <1>3, <1>4, <1>5, SumUnfold
<1>9. /\ f[p] \in Nat /\ g[p] \in Nat /\ h[p] = f[p] + g[p]
      /\ \A x \in R : f[x] \in Nat /\ g[x] \in Nat
  BY <1>6
<1>10. IsFiniteSet(R)
  BY <1>3, <1>6, FS_Subset
<1> HIDE DEF R
<1>11. SumOf(f, R) \in Nat /\ SumOf(g, R) \in Nat
  BY <1>9, <1>10, SumNat
<1>12. SumOf(h, M) = SumOf(f, M) + SumOf(g, M)
  BY <1>7, <1>8, <1>9, <1>11
<1>13. QED
  BY <1>2, <1>12

LEMMA SumZeros ==
  ASSUME NEW S, IsFiniteSet(S), NEW f, \A x \in S : f[x] = 0
  PROVE  SumOf(f, S) = 0
<1>1. \A x \in S : f[x] \in Nat /\ f[x] = f[x] + f[x]
  OBVIOUS
<1>2. SumOf(f, S) = SumOf(f, S) + SumOf(f, S)
  BY <1>1, SumPlus
<1>3. SumOf(f, S) \in Nat
  BY <1>1, SumNat
<1>4. \A n \in Nat : n = n + n => n = 0
  BY ONLY SMT
<1>5. QED
  BY ONLY <1>2, <1>3, <1>4

LEMMA SumMono ==
  ASSUME NEW S, IsFiniteSet(S), NEW f, NEW g,
         \A x \in S : f[x] \in Nat /\ g[x] \in Nat /\ f[x] <= g[x]
  PROVE  SumOf(f, S) <= SumOf(g, S)
<1> DEFINE d == [x \in S |-> g[x] - f[x]]
<1>1. \A x \in S : d[x] \in Nat /\ g[x] = f[x] + d[x]
  OBVIOUS
<1> HIDE DEF d
<1>2. SumOf(g, S) = SumOf(f, S) + SumOf(d, S)
  BY <1>1, SumPlus
<1>3. SumOf(f, S) \in Nat /\ SumOf(d, S) \in Nat
  BY <1>1, SumNat
<1>4. QED
  BY <1>2, <1>3

-----------------------------------------------------------------------------
(* How many of the first n entries of s are of the kinds K.                *)
CountOf(s, n, K) == Cardinality({i \in 1..n : s[i].op \in K})

LEMMA CountFacts ==
  ASSUME NEW s, NEW n \in Nat, NEW K
  PROVE  /\ CountOf(s, n, K) \in Nat /\ CountOf(s, n, K) <= n
         /\ CountOf(s, n + 1, K) = CountOf(s, n, K) + (IF s[n + 1].op \in K THEN 1 ELSE 0)
<1> DEFINE A == {i \in 1..n : s[i].op \in K}
           B == {i \in 1..(n + 1) : s[i].op \in K}
<1>1. IsFiniteSet(1..n) /\ Cardinality(1..n) = n
  BY FS_Interval
<1>2. IsFiniteSet(A) /\ Cardinality(A) <= n
  <2>1. A \in SUBSET (1..n)
    OBVIOUS
  <2> HIDE DEF A
  <2>2. QED
    BY <1>1, <2>1, FS_Subset
<1>3. Cardinality(A) \in Nat
  BY <1>2, FS_CardinalityType
<1>4. n + 1 \notin A /\ B = IF s[n + 1].op \in K THEN A \cup {n + 1} ELSE A
  <2>1. 1..(n + 1) = 1..n \cup {n + 1} /\ n + 1 \notin 1..n
    OBVIOUS
  <2>2. QED
    BY <2>1
<1>5. CountOf(s, n, K) = Cardinality(A) /\ CountOf(s, n + 1, K) = Cardinality(B)
  BY DEF CountOf
<1> HIDE DEF A, B
<1>6. Cardinality(A \cup {n + 1}) = Cardinality(A) + 1
  BY <1>2, <1>4, FS_AddElement
<1>7. QED
  BY <1>2, <1>3, <1>4, <1>5, <1>6

LEMMA CountNone ==
  ASSUME NEW s, NEW K
  PROVE  CountOf(s, 0, K) = 0
<1>1. {i \in 1..0 : s[i].op \in K} = {}
  OBVIOUS
<1>2. QED
  BY <1>1, FS_EmptySet DEF CountOf

LEMMA CountSame ==
  ASSUME NEW s, NEW t, NEW n \in Nat, NEW K, \A i \in 1..n : s[i] = t[i]
  PROVE  CountOf(s, n, K) = CountOf(t, n, K)
<1>1. {i \in 1..n : s[i].op \in K} = {i \in 1..n : t[i].op \in K}
  OBVIOUS
<1>2. QED
  BY <1>1 DEF CountOf

(* One entry more at the end.                                              *)
LEMMA CountAppend ==
  ASSUME NEW S, NEW s \in Seq(S), NEW e \in S, NEW K
  PROVE  /\ Len(Append(s, e)) = Len(s) + 1 /\ Len(s) \in Nat
         /\ CountOf(Append(s, e), Len(Append(s, e)), K)
              = CountOf(s, Len(s), K) + (IF e.op \in K THEN 1 ELSE 0)
<1> DEFINE t == Append(s, e)
<1>1. /\ Len(s) \in Nat /\ Len(t) = Len(s) + 1 /\ t[Len(s) + 1] = e
      /\ \A i \in 1..Len(s) : t[i] = s[i]
  OBVIOUS
<1> HIDE DEF t
<1>2. CountOf(t, Len(s), K) = CountOf(s, Len(s), K)
  BY <1>1, CountSame
<1>3. CountOf(t, Len(s) + 1, K)
        = CountOf(t, Len(s), K) + (IF t[Len(s) + 1].op \in K THEN 1 ELSE 0)
  BY <1>1, CountFacts
<1>4. QED
  BY <1>1, <1>2, <1>3 DEF t

(* Every entry is of some kind.                                            *)
LEMMA CountAll ==
  ASSUME NEW s \in Seq(Entry)
  PROVE  CountOf(s, Len(s), Operation) = Len(s)
<1>1. Len(s) \in Nat /\ \A i \in 1..Len(s) : s[i] \in Entry
  OBVIOUS
<1>2. \A i \in 1..Len(s) : s[i].op \in Operation
  BY <1>1 DEF Entry
<1>3. {i \in 1..Len(s) : s[i].op \in Operation} = 1..Len(s)
  BY <1>2
<1>4. Cardinality(1..Len(s)) = Len(s)
  <2>1. \A n \in Nat : Cardinality(1..n) = n
    BY FS_Interval
  <2>2. QED
    BY <1>1, <2>1
<1>5. QED
  BY <1>3, <1>4 DEF CountOf

(* The streams have between them what the trace has of every kind.         *)
Counts(f, K) == [w \in Worker |-> CountOf(f[w], Len(f[w]), K)]

LEMMA WorkersFinite ==
  ASSUME trace \in Traces, run \in Runs
  PROVE  IsFiniteSet(Worker)
<1>1. Threads \in Nat
  BY RunFacts
<1>2. QED
  BY <1>1, FS_Interval DEF Worker

(* One entry more for one worker.                                          *)
DealtTo(f, v, e, g) ==
  /\ f \in [Worker -> Seq(InTrace)] /\ v \in Worker /\ e \in InTrace
  /\ g = [f EXCEPT ![v] = Append(@, e)]

LEMMA DealtOne ==
  ASSUME IsFiniteSet(Worker), NEW f, NEW v, NEW e, NEW g, DealtTo(f, v, e, g), NEW K,
         NEW one, one = IF e.op \in K THEN 1 ELSE 0
  PROVE  SumOf(Counts(g, K), Worker) = SumOf(Counts(f, K), Worker) + one
<1> DEFINE a == Counts(f, K)
           b == Counts(g, K)
<1>1. one \in Nat /\ v \in Worker /\ e \in InTrace
  BY DEF DealtTo
<1>2. /\ \A w \in Worker : f[w] \in Seq(InTrace) /\ Len(f[w]) \in Nat
      /\ g[v] = Append(f[v], e) /\ \A w \in Worker \ {v} : g[w] = f[w]
  BY DEF DealtTo
<1>3. \A w \in Worker : a[w] \in Nat
  BY <1>2, CountFacts DEF Counts
<1>4. b[v] = a[v] + one
  <2>1. CountOf(Append(f[v], e), Len(Append(f[v], e)), K) = CountOf(f[v], Len(f[v]), K) + one
    BY <1>1, <1>2, CountAppend
  <2>2. QED
    BY <1>1, <1>2, <2>1 DEF Counts
<1>5. \A w \in Worker \ {v} : b[w] = a[w]
  BY <1>2 DEF Counts
<1>6. DOMAIN a = Worker /\ DOMAIN b = Worker
  BY DEF Counts
<1>7. b = [a EXCEPT ![v] = a[v] + one]
  <2>1. a = [w \in Worker |-> a[w]] /\ b = [w \in Worker |-> b[w]]
    BY DEF Counts
  <2> HIDE DEF a, b
  <2>2. QED
    BY <1>4, <1>5, <1>6, <2>1
<1> HIDE DEF a, b
<1>8. a[v] \in Nat /\ a[v] + one \in Nat
  BY <1>1, <1>3
<1>9. SumOf(b, DOMAIN b) = SumOf(a, DOMAIN a) - a[v] + (a[v] + one)
  <2>1. PICK z : z = a[v] + one
    OBVIOUS
  <2>2. /\ IsFiniteSet(DOMAIN a) /\ \A x \in DOMAIN a : a[x] \in Nat
        /\ v \in DOMAIN a /\ z \in Nat /\ b = [a EXCEPT ![v] = z]
    BY <1>1, <1>3, <1>6, <1>7, <1>8, <2>1
  <2>3. SumOf(b, DOMAIN b) = SumOf(a, DOMAIN a) - a[v] + z
    BY ONLY <2>2, SumUpdated
  <2>4. QED
    BY <2>1, <2>3
<1>10. SumOf(a, Worker) \in Nat
  BY <1>3, SumNat
<1>11. SumOf(b, Worker) = SumOf(a, Worker) + one
  BY <1>1, <1>6, <1>8, <1>9, <1>10
<1>12. QED
  BY <1>11 DEF a, b

LEMMA DealtCounts ==
  ASSUME trace \in Traces, run \in Runs, NEW K
  PROVE  SumOf(Counts(Dealt, K), Worker) = CountOf(trace, Len(trace), K)
<1>1. PICK G : /\ DealsUpTo(G, Len(trace)) /\ Dealt = G[Len(trace)]
               /\ \A k \in 0..Len(trace) : G[k] \in [Worker -> Seq(InTrace)]
  BY DealtSteps
<1>2. /\ trace \in Seq(Entry) /\ Len(trace) \in Nat
      /\ \A x \in Nat : x % Threads \in Worker
  BY RunFacts
<1>3. IsFiniteSet(Worker)
  BY WorkersFinite
<1> DEFINE T == {k \in 0..Len(trace) : SumOf(Counts(G[k], K), Worker) # CountOf(trace, k, K)}
<1>4. T = {}
  <2>1. SUFFICES ASSUME T # {} PROVE FALSE
    OBVIOUS
  <2>2. PICK k \in T : \A m \in T : k <= m
    <3>1. T \in SUBSET Nat
      BY <1>2
    <3> HIDE DEF T
    <3>2. QED
      BY <2>1, <3>1, NatMin
  <2>3. k \in 0..Len(trace) /\ k \in Nat
    BY <1>2, <2>2
  <2>4. G[k] = IF k = 0 THEN [w \in Worker |-> <<>>]
               ELSE [G[k - 1] EXCEPT ![trace[k].worker % Threads] = Append(@, trace[k])]
    BY <1>1, <2>3 DEF DealsUpTo
  <2>5. CASE k = 0
    <3>1. \A w \in Worker : G[k][w] = <<>>
      BY <2>4, <2>5
    <3>2. \A w \in Worker : Counts(G[k], K)[w] = 0
      BY <3>1, CountNone DEF Counts
    <3>3. SumOf(Counts(G[k], K), Worker) = 0
      BY <1>3, <3>2, SumZeros
    <3>4. QED
      BY <2>2, <2>5, <3>3, CountNone
  <2>6. CASE k # 0
    <3>1. k - 1 \in 0..Len(trace) /\ k - 1 \in Nat /\ ~ (k <= k - 1) /\ (k - 1) + 1 = k
      BY <1>2, <2>3, <2>6
    <3>2. SumOf(Counts(G[k - 1], K), Worker) = CountOf(trace, k - 1, K)
      BY <2>2, <3>1
    <3>3. k \in 1..Len(trace) /\ trace[k] \in InTrace /\ trace[k].worker \in Nat
      <4>1. k \in 1..Len(trace) /\ trace[k] \in Entry
        BY <1>2, <2>3, <2>6
      <4>2. trace[k] \in InTrace
        BY <4>1 DEF InTrace
      <4>3. trace[k].worker \in Nat
        BY <4>1 DEF Entry
      <4>4. QED
        BY <4>1, <4>2, <4>3
    <3> DEFINE v == trace[k].worker % Threads
               f == G[k - 1]
               e == trace[k]
               one == IF e.op \in K THEN 1 ELSE 0
    <3>4. v \in Worker
      BY <1>2, <3>3
    <3>5. G[k] = [f EXCEPT ![v] = Append(@, e)]
      BY <2>4, <2>6
    <3>6. f \in [Worker -> Seq(InTrace)] /\ e \in InTrace
      BY <1>1, <3>1, <3>3
    <3>7. CountOf(trace, k, K) = CountOf(trace, k - 1, K) + one
      <4>1. CountOf(trace, (k - 1) + 1, K)
              = CountOf(trace, k - 1, K) + (IF trace[(k - 1) + 1].op \in K THEN 1 ELSE 0)
        BY <3>1, CountFacts
      <4>2. QED
        BY <3>1, <4>1
    <3>8. one \in Nat
      OBVIOUS
    <3> HIDE DEF v, f, e, one
    <3>9. SumOf(Counts(G[k], K), Worker) = SumOf(Counts(f, K), Worker) + one
      <4>1. DealtTo(f, v, e, G[k])
        BY <3>4, <3>5, <3>6 DEF DealtTo
      <4>2. one = IF e.op \in K THEN 1 ELSE 0
        BY DEF one
      <4>3. QED
        BY <1>3, <4>1, <4>2, DealtOne
    <3>10. SumOf(Counts(G[k], K), Worker) = CountOf(trace, k, K)
      BY <3>2, <3>7, <3>9 DEF f
    <3>11. QED
      BY <2>2, <3>10
  <2>7. QED
    BY <2>5, <2>6
<1>5. Len(trace) \in 0..Len(trace)
  BY <1>2
<1>6. QED
  BY <1>1, <1>4, <1>5
-----------------------------------------------------------------------------
(* The counts.  An entry that is being written has had its outcome already.*)

Begun(w) == IF phase[w] = "write" THEN pos[w] + 1 ELSE pos[w]
Outcomes(w) == successes[w] + failures[w]

Tallied(w) ==
  /\ ops[w] = pos[w]
  /\ \A op \in Measured : measured[w][op] = CountOf(Stream(w), pos[w], {op})
  /\ CountOf(Stream(w), Begun(w), Measured) <= Outcomes(w) /\ Outcomes(w) <= Begun(w)

Tallies ==
  /\ measured \in [Worker -> [Measured -> Nat]]
  /\ \A w \in Worker : Tallied(w)

(* A snapshot has been taken at every step that is due, and passed.        *)
DueSteps == {i \in Nat : Due(i)}
Pictured == IF phase[0] = "snapshot" THEN pos[0] - 1 ELSE pos[0]

Snapped ==
  /\ \A w \in Worker : phase[w] = "snapshot" => pos[w] - 1 \in DueSteps
  /\ snapshots \in Seq([step : Nat, live : Nat])
  /\ {snapshots[k].step : k \in DOMAIN snapshots} = {i \in DueSteps : i < Pictured}
  /\ \A k, m \in DOMAIN snapshots : k < m => snapshots[k].step < snapshots[m].step

Results ==
  LET success == SumOf(successes, Worker)
      failure == SumOf(failures, Worker)
  IN [done |-> TRUE, success_count |-> success, failure_count |-> failure,
      operations |-> IF run.mode = "replay" THEN SumOf(ops, Worker) ELSE success + failure,
      samples |-> [op \in Measured |-> SumOf([w \in Worker |-> measured[w][op]], Worker)],
      live |-> Cardinality(DOMAIN live)]

Reported == report = NoReport \/ (Joined /\ report = Results)

CInv == RInv /\ per_worker = Dealt /\ Tallies /\ Snapped /\ Reported

LEMMA TotalIs ==
  ASSUME NEW f
  PROVE  Total(f) = SumOf(f, Worker)
BY DEF Total, SumOf

LEMMA SameDue ==
  ASSUME UNCHANGED input
  PROVE  DueSteps' = DueSteps
<1>1. trace' = trace /\ run' = run
  BY DEF input
<1>2. QED
  BY <1>1 DEF DueSteps, Due

LEMMA SameDealt ==
  ASSUME UNCHANGED input
  PROVE  Dealt' = Dealt
<1>1. trace' = trace /\ run' = run
  BY DEF input
<1>2. QED
  BY <1>1 DEF Dealt, Worker, Threads

(* Only a replay has steps that are due, and it has one worker.            *)
LEMMA DueReplays ==
  ASSUME NEW i \in DueSteps
  PROVE  Worker = {0}
<1>1. run.mode = "replay"
  BY DEF DueSteps, Due
<1>2. Threads = 1
  BY <1>1 DEF Threads
<1>3. QED
  BY <1>2 DEF Worker

LEMMA InitCInv == Init => CInv
<1> SUFFICES ASSUME Init PROVE CInv
  OBVIOUS
<1>1. RInv /\ per_worker = Dealt /\ report = NoReport
  BY InitRInv DEF Init
<1>2. /\ phase = [w \in Worker |-> "call"] /\ snapshots = <<>>
      /\ pos = Zero /\ ops = Zero /\ successes = Zero /\ failures = Zero
      /\ measured = [w \in Worker |-> [op \in Measured |-> 0]]
  BY DEF Init
<1>3. trace \in Traces /\ run \in Runs
  BY DEF Init
<1>4. Tallies
  <2>1. measured \in [Worker -> [Measured -> Nat]]
    BY <1>2
  <2>2. ASSUME NEW w \in Worker PROVE Tallied(w)
    <3>1. /\ phase[w] = "call" /\ pos[w] = 0 /\ ops[w] = 0 /\ successes[w] = 0 /\ failures[w] = 0
          /\ \A op \in Measured : measured[w][op] = 0
      BY <1>2 DEF Zero
    <3>2. Begun(w) = 0 /\ Outcomes(w) = 0
      BY <3>1 DEF Begun, Outcomes
    <3>3. QED
      BY <3>1, <3>2, CountNone DEF Tallied
  <2>3. QED
    BY <2>1, <2>2 DEF Tallies
<1>5. Snapped
  <2>1. 0 \in Worker
    BY <1>3, RunFacts DEF Worker
  <2>2. Pictured = 0
    BY <1>2, <2>1 DEF Pictured, Zero
  <2>3. \A i \in DueSteps : ~ (i < Pictured)
    BY <2>2 DEF DueSteps
  <2>4. \A w \in Worker : phase[w] # "snapshot"
    BY <1>2
  <2>5. DOMAIN snapshots = {} /\ snapshots \in Seq([step : Nat, live : Nat])
    BY <1>2
  <2>6. QED
    BY <2>3, <2>4, <2>5 DEF Snapped
<1>6. QED
  BY <1>1, <1>4, <1>5 DEF CInv, Reported

-----------------------------------------------------------------------------
(* What a step does to the counts.                                         *)

OneOutcome(w) ==
  \/ Add(successes, w) /\ UNCHANGED failures
  \/ Add(failures, w) /\ UNCHANGED successes

Unsettled(w) == UNCHANGED <<successes, failures>>

LEMMA OutcomeAdded ==
  ASSUME NEW w \in Worker, OneOutcome(w),
         successes \in [Worker -> Nat], failures \in [Worker -> Nat]
  PROVE  Outcomes(w)' = Outcomes(w) + 1 /\ Outcomes(w) \in Nat
<1>1. successes[w] \in Nat /\ failures[w] \in Nat
  OBVIOUS
<1>2. \/ successes'[w] = successes[w] + 1 /\ failures'[w] = failures[w]
      \/ failures'[w] = failures[w] + 1 /\ successes'[w] = successes[w]
  BY DEF OneOutcome, Add
<1>3. QED
  BY <1>1, <1>2 DEF Outcomes

(* The five kinds of steps of a worker.                                    *)
LEMMA StepKinds ==
  ASSUME NEW w \in Worker, ApplyEntry(w)
  PROVE  /\ UNCHANGED <<input, result>> /\ phase[w] # "snapshot"
         /\ \/ Finish(w) /\ phase[w] # "write" /\ OneOutcome(w)
            \/ Finish(w) /\ phase[w] # "write" /\ Unsettled(w) /\ Current(w).op \notin Measured
            \/ Finish(w) /\ phase[w] = "write" /\ Unsettled(w)
            \/ /\ phase' = [phase EXCEPT ![w] = "write"] /\ phase[w] # "write"
               /\ OneOutcome(w) /\ UNCHANGED <<pos, ops, measured>>
            \/ /\ phase' = [phase EXCEPT ![w] = "verified"] /\ phase[w] # "write"
               /\ Unsettled(w) /\ UNCHANGED <<pos, ops, measured>>
<1>1. CASE AllocateSucceeds(w) \/ ReallocateSucceeds(w)
  BY <1>1 DEF AllocateSucceeds, ReallocateSucceeds, OneOutcome
<1>2. CASE AllocateFails(w) \/ UnknownId(w) \/ ReallocateFails(w) \/ NotSupported(w)
  BY <1>2 DEF AllocateFails, UnknownId, ReallocateFails, NotSupported, OneOutcome
<1>3. CASE Free(w)
  BY <1>3 DEF Free, OneOutcome
<1>4. CASE Reset(w) \/ NoEffect(w)
  BY <1>4 DEF Reset, NoEffect, Unsettled, Doing, counters, Measured
<1>5. CASE WritePattern(w)
  BY <1>5 DEF WritePattern, Unsettled, counters
<1>6. CASE VerifyPattern(w)
  BY <1>6 DEF VerifyPattern, Unsettled, counters
<1>7. QED
  BY <1>1, <1>2, <1>3, <1>4, <1>5, <1>6 DEF ApplyEntry

(* Counts of a worker that finishes nothing and settles nothing.           *)
LEMMA TallyKept ==
  ASSUME UNCHANGED input, NEW v \in Worker, Tallied(v),
         pos'[v] = pos[v], ops'[v] = ops[v], measured'[v] = measured[v],
         successes'[v] = successes[v], failures'[v] = failures[v],
         phase'[v] = "write" <=> phase[v] = "write"
  PROVE  Tallied(v)'
<1>1. Stream(v)' = Stream(v)
  BY SameInput
<1>2. Begun(v)' = Begun(v) /\ Outcomes(v)' = Outcomes(v)
  BY DEF Begun, Outcomes
<1>3. QED
  BY <1>1, <1>2 DEF Tallied

LEMMA TallyFinished ==
  ASSUME CInv, NEW w \in Worker, ApplyEntry(w), Finish(w)
  PROVE  Tallied(w)'
<1>1. /\ Shape /\ Tallied(w) /\ measured \in [Worker -> [Measured -> Nat]]
      /\ ops \in [Worker -> Nat] /\ pos[w] \in Nat
      /\ successes \in [Worker -> Nat] /\ failures \in [Worker -> Nat]
  BY DEF CInv, RInv, Shape, Tallies
<1>2. pos[w] < Len(Stream(w))
  BY HasEntry DEF CInv
<1>3. UNCHANGED input
  BY StepKinds
<1>4. /\ Stream(w)' = Stream(w) /\ pos'[w] = pos[w] + 1 /\ phase'[w] # "write"
  BY <1>1, <1>2, <1>3, FinishFacts, SameInput
<1>5. ops'[w] = pos'[w]
  BY <1>1, <1>4 DEF Finish, Add, Tallied
<1> DEFINE s == Stream(w)
           n == pos[w]
           o == Current(w).op
<1>6. o = s[n + 1].op /\ n \in Nat
  BY <1>1 DEF Current
<1>7. \A op \in Measured : measured'[w][op] = measured[w][op] + (IF op = o THEN 1 ELSE 0)
  BY <1>1 DEF Finish
<1>8. Begun(w)' = n + 1
  BY <1>4 DEF Begun
<1>9. \A K : /\ CountOf(s, n, K) \in Nat
             /\ CountOf(s, n + 1, K) = CountOf(s, n, K) + (IF o \in K THEN 1 ELSE 0)
  <2> HIDE DEF s, n, o
  <2>1. QED
    BY <1>6, CountFacts
<1>10. \A op \in Measured : measured[w][op] = CountOf(s, n, {op}) /\ measured[w][op] \in Nat
  BY <1>1 DEF Tallied
<1>11. /\ CountOf(s, Begun(w), Measured) <= Outcomes(w) /\ Outcomes(w) <= Begun(w)
       /\ Outcomes(w) \in Nat
  BY <1>1 DEF Tallied, Outcomes
<1>12. \A op \in Measured : measured'[w][op] = CountOf(s, n + 1, {op})
  <2> HIDE DEF s, n, o
  <2> TAKE op \in Measured
  <2>1. o \in {op} <=> op = o
    OBVIOUS
  <2>2. QED
    BY <1>7, <1>9, <1>10, <2>1
<1>13. CountOf(s, n + 1, Measured) <= Outcomes(w)' /\ Outcomes(w)' <= n + 1
  <2>1. CASE phase[w] = "write"
    <3>1. Begun(w) = n + 1
      BY <2>1 DEF Begun
    <3>2. successes' = successes /\ failures' = failures
      BY <2>1, StepKinds DEF Unsettled, Finish
    <3>3. Outcomes(w)' = Outcomes(w)
      BY <3>2 DEF Outcomes
    <3>4. QED
      BY <1>11, <3>1, <3>3
  <2>2. CASE phase[w] # "write"
    <3>1. Begun(w) = n
      BY <2>2 DEF Begun
    <3>2. \/ Outcomes(w)' = Outcomes(w) + 1
          \/ Outcomes(w)' = Outcomes(w) /\ o \notin Measured
      <4>1. \/ OneOutcome(w)
            \/ Unsettled(w) /\ o \notin Measured
        <5>1. pos' # pos
          BY <1>1, <1>4
        <5>2. QED
          BY <2>2, <5>1, StepKinds
      <4>2. CASE OneOutcome(w)
        BY <1>1, <4>2, OutcomeAdded
      <4>3. CASE Unsettled(w) /\ o \notin Measured
        BY <4>3 DEF Unsettled, Outcomes
      <4>4. QED
        BY <4>1, <4>2, <4>3
    <3> HIDE DEF s, n, o
    <3>3. CountOf(s, n, Measured) <= Outcomes(w) /\ Outcomes(w) <= n
      BY <1>11, <3>1
    <3>4. /\ CountOf(s, n, Measured) \in Nat
          /\ CountOf(s, n + 1, Measured)
               = CountOf(s, n, Measured) + (IF o \in Measured THEN 1 ELSE 0)
      BY <1>9
    <3>5. QED
      BY <1>6, <1>11, <3>2, <3>3, <3>4
  <2>3. QED
    BY <2>1, <2>2
<1>14. QED
  BY <1>4, <1>5, <1>8, <1>12, <1>13 DEF Tallied

LEMMA TalliesStep ==
  ASSUME CInv, NEW w \in Worker, ApplyEntry(w)
  PROVE  Tallies'
<1>1. /\ Shape /\ \A v \in Worker : Tallied(v)
      /\ measured \in [Worker -> [Measured -> Nat]]
      /\ ops \in [Worker -> Nat] /\ pos \in [Worker -> Nat] /\ phase \in [Worker -> Phases]
      /\ successes \in [Worker -> Nat] /\ failures \in [Worker -> Nat]
  BY DEF CInv, RInv, Shape, Tallies
<1>2. UNCHANGED input /\ Worker' = Worker
  BY StepKinds, SameInput
<1>3. /\ \/ measured' = measured
         \/ measured' = [measured EXCEPT ![w] =
                           [op \in Measured |-> @[op] + (IF op = Current(w).op THEN 1 ELSE 0)]]
      /\ ops' = ops \/ ops' = [ops EXCEPT ![w] = @ + 1]
      /\ pos' = pos \/ pos' = [pos EXCEPT ![w] = @ + 1]
      /\ \E p : phase' = [phase EXCEPT ![w] = p]
      /\ successes' = successes \/ successes' = [successes EXCEPT ![w] = @ + 1]
      /\ failures' = failures \/ failures' = [failures EXCEPT ![w] = @ + 1]
  BY StepKinds DEF Finish, OneOutcome, Unsettled, Add
<1>4. measured' \in [Worker -> [Measured -> Nat]]
  <2> DEFINE m == [op \in Measured |->
                     measured[w][op] + (IF op = Current(w).op THEN 1 ELSE 0)]
  <2>1. m \in [Measured -> Nat]
    BY <1>1
  <2>2. measured' = measured \/ measured' = [measured EXCEPT ![w] = m]
    BY <1>3
  <2> HIDE DEF m
  <2>3. QED
    BY <1>1, <2>1, <2>2
<1>5. ASSUME NEW v \in Worker \ {w} PROVE Tallied(v)'
  <2>1. /\ pos'[v] = pos[v] /\ ops'[v] = ops[v] /\ measured'[v] = measured[v]
        /\ successes'[v] = successes[v] /\ failures'[v] = failures[v] /\ phase'[v] = phase[v]
    BY <1>1, <1>3
  <2>2. QED
    BY <1>1, <1>2, <2>1, TallyKept
<1>6. Tallied(w)'
  <2>1. CASE Finish(w)
    BY <2>1, TallyFinished
  <2>2. CASE /\ phase' = [phase EXCEPT ![w] = "verified"] /\ phase[w] # "write"
             /\ Unsettled(w) /\ UNCHANGED <<pos, ops, measured>>
    <3>1. phase'[w] = "verified" /\ phase[w] # "write"
      BY <1>1, <2>2
    <3>2. QED
      BY <1>1, <1>2, <2>2, <3>1, TallyKept DEF Unsettled
  <2>3. CASE /\ phase' = [phase EXCEPT ![w] = "write"] /\ phase[w] # "write"
             /\ OneOutcome(w) /\ UNCHANGED <<pos, ops, measured>>
    <3>1. Stream(w)' = Stream(w) /\ pos[w] \in Nat /\ phase'[w] = "write"
      BY <1>1, <1>2, <2>3, SameInput
    <3> DEFINE s == Stream(w)
               n == pos[w]
    <3>2. Begun(w) = n /\ Begun(w)' = n + 1
      BY <2>3, <3>1 DEF Begun
    <3>3. Outcomes(w)' = Outcomes(w) + 1 /\ Outcomes(w) \in Nat
      BY <1>1, <2>3, OutcomeAdded
    <3>4. CountOf(s, n, Measured) <= Outcomes(w) /\ Outcomes(w) <= n
      BY <1>1, <3>2 DEF Tallied
    <3>5. /\ CountOf(s, n, Measured) \in Nat
          /\ CountOf(s, n + 1, Measured) <= CountOf(s, n, Measured) + 1
          /\ CountOf(s, n + 1, Measured) \in Nat
      <4> HIDE DEF s
      <4>1. CountOf(s, n + 1, Measured)
              = CountOf(s, n, Measured) + (IF s[n + 1].op \in Measured THEN 1 ELSE 0)
        BY <3>1, CountFacts
      <4>2. CountOf(s, n, Measured) \in Nat
        BY <3>1, CountFacts
      <4>3. QED
        BY <4>1, <4>2
    <3>6. CountOf(s, n + 1, Measured) <= Outcomes(w)' /\ Outcomes(w)' <= n + 1
      BY <3>1, <3>3, <3>4, <3>5
    <3>7. /\ ops'[w] = pos'[w]
          /\ \A op \in Measured : measured'[w][op] = CountOf(s, n, {op})
      BY <1>1, <2>3 DEF Tallied
    <3>8. QED
      BY <2>3, <3>1, <3>2, <3>6, <3>7 DEF Tallied
  <2>4. QED
    BY <2>1, <2>2, <2>3, StepKinds
<1>7. QED
  BY <1>2, <1>4, <1>5, <1>6 DEF Tallies

-----------------------------------------------------------------------------
(* The snapshots.                                                          *)

LEMMA SnappedApply ==
  ASSUME CInv, NEW w \in Worker, ApplyEntry(w)
  PROVE  Snapped'
<1>1. /\ \A v \in Worker : phase[v] = "snapshot" => pos[v] - 1 \in DueSteps
      /\ snapshots \in Seq([step : Nat, live : Nat])
      /\ {snapshots[k].step : k \in DOMAIN snapshots} = {i \in DueSteps : i < Pictured}
      /\ \A k, m \in DOMAIN snapshots : k < m => snapshots[k].step < snapshots[m].step
  BY DEF CInv, Snapped
<1>2. /\ Shape /\ trace \in Traces /\ run \in Runs
      /\ pos \in [Worker -> Nat] /\ phase \in [Worker -> Phases]
  BY DEF CInv, RInv, Shape
<1>3. UNCHANGED input /\ snapshots' = snapshots /\ phase[w] # "snapshot"
  BY StepKinds DEF result
<1>4. Worker' = Worker /\ DueSteps' = DueSteps
  BY <1>3, SameInput, SameDue
<1>5. 0 \in Worker
  BY <1>2, RunFacts DEF Worker
<1>6. /\ \A v \in Worker : phase'[v] = "snapshot" => pos'[v] - 1 \in DueSteps
      /\ \A i \in DueSteps : i < Pictured' <=> i < Pictured
  <2>1. CASE ~ Finish(w)
    <3>1. /\ pos' = pos /\ phase'[w] # "snapshot" /\ \A v \in Worker \ {w} : phase'[v] = phase[v]
      BY <1>2, <2>1, StepKinds
    <3>2. Pictured' = Pictured
      BY <1>3, <1>5, <3>1 DEF Pictured
    <3>3. QED
      BY <1>1, <3>1, <3>2
  <2>2. CASE Finish(w)
    <3>1. pos[w] < Len(Stream(w))
      BY HasEntry DEF CInv
    <3>2. /\ pos'[w] = pos[w] + 1 /\ pos[w] \in Nat
          /\ \A v \in Worker \ {w} : pos'[v] = pos[v] /\ phase'[v] = phase[v]
      BY <1>2, <1>3, <2>2, <3>1, FinishFacts
    <3>3. phase'[w] = IF pos[w] \in DueSteps THEN "snapshot" ELSE "call"
      BY <1>2, <2>2, <3>2 DEF Finish, DueSteps
    <3>4. \A v \in Worker : phase'[v] = "snapshot" => pos'[v] - 1 \in DueSteps
      <4> TAKE v \in Worker
      <4>1. CASE v = w
        BY <3>2, <3>3, <4>1
      <4>2. CASE v # w
        BY <1>1, <3>2, <4>2
      <4>3. QED
        BY <4>1, <4>2
    <3>5. \A i \in DueSteps : i < Pictured' <=> i < Pictured
      <4>1. CASE w # 0
        BY <1>5, <3>2, <4>1 DEF Pictured
      <4>2. CASE w = 0
        <5>1. Pictured = pos[0]
          BY <1>3, <4>2 DEF Pictured
        <5>2. Pictured' = IF pos[0] \in DueSteps THEN pos[0] ELSE pos[0] + 1
          BY <3>2, <3>3, <4>2 DEF Pictured
        <5>3. \A i \in DueSteps : i \in Nat
          BY DEF DueSteps
        <5>4. CASE pos[0] \in DueSteps
          BY <5>1, <5>2, <5>4
        <5>5. CASE pos[0] \notin DueSteps
          <6> TAKE i \in DueSteps
          <6>1. i # pos[0] /\ i \in Nat /\ pos[0] \in Nat
            BY <3>2, <4>2, <5>3, <5>5
          <6>2. QED
            BY <5>1, <5>2, <5>5, <6>1
        <5>6. QED
          BY <5>4, <5>5
      <4>3. QED
        BY <4>1, <4>2
    <3>6. QED
      BY <3>4, <3>5
  <2>3. QED
    BY <2>1, <2>2
<1>7. {i \in DueSteps' : i < Pictured'} = {i \in DueSteps : i < Pictured}
  BY <1>4, <1>6
<1>8. QED
  BY <1>1, <1>3, <1>4, <1>6, <1>7 DEF Snapped

LEMMA LiveCount == CInv => Cardinality(DOMAIN live) \in Nat
<1> SUFFICES ASSUME CInv PROVE Cardinality(DOMAIN live) \in Nat
  OBVIOUS
<1>1. DOMAIN live \in SUBSET AllocationId
  BY DEF CInv, RInv, Shape
<1>2. IsFiniteSet(AllocationId)
  BY RunnerAssumption, FS_Interval DEF AllocationId
<1>3. QED
  BY <1>1, <1>2, FS_Subset, FS_CardinalityType

LEMMA Appended ==
  ASSUME NEW S, NEW s \in Seq(S), NEW e \in S
  PROVE  /\ Append(s, e) \in Seq(S) /\ Len(s) \in Nat /\ DOMAIN s = 1..Len(s)
         /\ DOMAIN Append(s, e) = 1..(Len(s) + 1) /\ Append(s, e)[Len(s) + 1] = e
         /\ \A k \in DOMAIN s : Append(s, e)[k] = s[k] /\ s[k] \in S
OBVIOUS

LEMMA SnappedSnapshot ==
  ASSUME CInv, NEW w \in Worker, Snapshot(w)
  PROVE  Snapped'
<1>1. /\ \A v \in Worker : phase[v] = "snapshot" => pos[v] - 1 \in DueSteps
      /\ snapshots \in Seq([step : Nat, live : Nat])
      /\ {snapshots[k].step : k \in DOMAIN snapshots} = {i \in DueSteps : i < Pictured}
      /\ \A k, m \in DOMAIN snapshots : k < m => snapshots[k].step < snapshots[m].step
  BY DEF CInv, Snapped
<1>2. /\ phase[w] = "snapshot" /\ UNCHANGED input /\ pos' = pos
      /\ phase' = [phase EXCEPT ![w] = "call"]
      /\ snapshots' =
           Append(snapshots, [step |-> pos[w] - 1, live |-> Cardinality(DOMAIN live)])
  BY DEF Snapshot
<1>3. Worker' = Worker /\ DueSteps' = DueSteps
  BY <1>2, SameInput, SameDue
<1>4. pos \in [Worker -> Nat] /\ phase \in [Worker -> Phases]
  BY DEF CInv, RInv, Shape
<1>5. pos[w] - 1 \in DueSteps /\ Worker = {0} /\ w = 0
  BY <1>1, <1>2, DueReplays
<1>6. PICK n : n = pos[0] - 1
  OBVIOUS
<1>7. /\ n \in DueSteps /\ n \in Nat /\ Pictured = n /\ Pictured' = n + 1
      /\ \A v \in Worker : phase'[v] # "snapshot"
  <2>1. phase[0] = "snapshot" /\ phase'[0] = "call" /\ n \in DueSteps /\ n \in Nat
        /\ pos[0] \in Nat
    BY <1>2, <1>4, <1>5, <1>6 DEF DueSteps
  <2>2. QED
    BY <1>2, <1>5, <1>6, <2>1 DEF Pictured
<1>8. PICK r : r = [step |-> n, live |-> Cardinality(DOMAIN live)]
  OBVIOUS
<1>9. r \in [step : Nat, live : Nat] /\ r.step = n /\ snapshots' = Append(snapshots, r)
  BY <1>2, <1>5, <1>6, <1>7, <1>8, LiveCount
<1>10. /\ snapshots' \in Seq([step : Nat, live : Nat]) /\ Len(snapshots) \in Nat
       /\ DOMAIN snapshots = 1..Len(snapshots) /\ DOMAIN snapshots' = 1..(Len(snapshots) + 1)
       /\ snapshots'[Len(snapshots) + 1] = r
       /\ \A k \in DOMAIN snapshots : snapshots'[k] = snapshots[k] /\ snapshots[k].step \in Nat
  <2> DEFINE S == [step : Nat, live : Nat]
  <2>1. \A e \in S : e.step \in Nat
    OBVIOUS
  <2>2. snapshots \in Seq(S) /\ r \in S
    BY <1>1, <1>9
  <2> HIDE DEF S
  <2>3. /\ snapshots' \in Seq(S) /\ Len(snapshots) \in Nat
        /\ DOMAIN snapshots = 1..Len(snapshots) /\ DOMAIN snapshots' = 1..(Len(snapshots) + 1)
        /\ snapshots'[Len(snapshots) + 1] = r
        /\ \A k \in DOMAIN snapshots : snapshots'[k] = snapshots[k] /\ snapshots[k] \in S
    BY <1>9, <2>2, Appended
  <2>4. QED
    BY <2>1, <2>3 DEF S
<1>11. \A k \in DOMAIN snapshots' : k \in DOMAIN snapshots \/ k = Len(snapshots) + 1
  BY <1>10
<1>12. \A k \in DOMAIN snapshots : snapshots[k].step < n
  BY <1>1, <1>7
<1>13. {snapshots[k].step : k \in DOMAIN snapshots} = {i \in DueSteps : i < n}
  BY <1>1, <1>7
<1>14. \A k, m \in DOMAIN snapshots' : k < m => snapshots'[k].step < snapshots'[m].step
  <2> TAKE k, m \in DOMAIN snapshots'
  <2> HAVE k < m
  <2>1. k \in DOMAIN snapshots
    BY <1>10
  <2>2. CASE m \in DOMAIN snapshots
    BY <1>1, <1>10, <2>1, <2>2
  <2>3. CASE m = Len(snapshots) + 1
    BY <1>9, <1>10, <1>12, <2>1, <2>3
  <2>4. QED
    BY <1>11, <2>2, <2>3
<1>15. \A i \in Nat : i < n + 1 <=> i < n \/ i = n
  BY <1>7
<1>16. {snapshots'[k].step : k \in DOMAIN snapshots'} = {i \in DueSteps : i < n + 1}
  <2>1. ASSUME NEW k \in DOMAIN snapshots'
        PROVE  snapshots'[k].step \in DueSteps /\ snapshots'[k].step < n + 1
    <3>1. CASE k \in DOMAIN snapshots
      <4>1. snapshots'[k].step = snapshots[k].step /\ snapshots[k].step \in Nat
            /\ snapshots[k].step \in {i \in DueSteps : i < Pictured}
        BY <1>1, <1>10, <3>1
      <4>2. QED
        BY <1>7, <1>15, <4>1
    <3>2. CASE k = Len(snapshots) + 1
      BY <1>7, <1>9, <1>10, <3>2
    <3>3. QED
      BY <1>11, <3>1, <3>2
  <2>2. ASSUME NEW i \in DueSteps, i < n + 1
        PROVE  \E k \in DOMAIN snapshots' : snapshots'[k].step = i
    <3>1. i \in Nat
      BY DEF DueSteps
    <3>2. CASE i = n
      BY <1>9, <1>10, <3>2
    <3>3. CASE i < n
      <4>1. i \in {snapshots[k].step : k \in DOMAIN snapshots}
        BY <1>13, <3>3
      <4>2. PICK k \in DOMAIN snapshots : snapshots[k].step = i
        BY <4>1
      <4>3. k \in DOMAIN snapshots' /\ snapshots'[k].step = i
        BY <1>10, <4>2
      <4>4. QED
        BY <4>3
    <3>4. QED
      BY <1>15, <2>2, <3>1, <3>2, <3>3
  <2>3. QED
    BY <2>1, <2>2
<1>17. QED
  BY <1>3, <1>7, <1>10, <1>14, <1>16 DEF Snapped

-----------------------------------------------------------------------------
(* The report.                                                             *)

(* Once there is a report, no worker has anything left to do.              *)
LEMMA NoReportYet ==
  ASSUME CInv, NEW w \in Worker, ApplyEntry(w) \/ Snapshot(w)
  PROVE  report = NoReport /\ report' = report
<1>1. ~ Joined
  <2>1. CASE ApplyEntry(w)
    <3>1. pos[w] < Len(Stream(w)) /\ pos[w] \in Nat
      BY <2>1, HasEntry DEF CInv, RInv, Shape
    <3>2. QED
      BY <3>1 DEF Joined
  <2>2. CASE Snapshot(w)
    BY <2>2 DEF Snapshot, Joined
  <2>3. QED
    BY <2>1, <2>2
<1>2. report = NoReport
  BY <1>1 DEF CInv, Reported
<1>3. report' = report
  BY StepKinds DEF Snapshot, result
<1>4. QED
  BY <1>2, <1>3

LEMMA ReportStep ==
  ASSUME CInv, Report
  PROVE  Reported'
<1>1. /\ Joined /\ run' = run /\ per_worker' = per_worker
      /\ live' = live /\ pos' = pos /\ phase' = phase /\ measured' = measured
      /\ ops' = ops /\ successes' = successes /\ failures' = failures /\ UNCHANGED input
  BY DEF Report, input, allocator, counters
<1>2. report' = Results
  <2>1. /\ Total(successes) = SumOf(successes, Worker)
        /\ Total(failures) = SumOf(failures, Worker) /\ Total(ops) = SumOf(ops, Worker)
    BY TotalIs
  <2>2. \A op \in Measured : Samples(op) = SumOf([w \in Worker |-> measured[w][op]], Worker)
    BY TotalIs DEF Samples
  <2> DEFINE samples == [op \in Measured |-> Samples(op)]
  <2>3. samples = [op \in Measured |-> SumOf([w \in Worker |-> measured[w][op]], Worker)]
    BY <2>2
  <2>4. report' = [done |-> TRUE,
                   success_count |-> Total(successes), failure_count |-> Total(failures),
                   operations |-> IF run.mode = "replay" THEN Total(ops)
                                  ELSE Total(successes) + Total(failures),
                   samples |-> samples, live |-> Cardinality(DOMAIN live)]
    BY DEF Report
  <2> HIDE DEF samples
  <2>5. QED
    BY <2>1, <2>3, <2>4 DEF Results
<1>3. Worker' = Worker /\ \A v : Stream(v)' = Stream(v)
  BY <1>1, SameInput
<1>4. Results' = Results
  BY <1>1, <1>3 DEF Results
<1>5. Joined'
  BY <1>1, <1>3 DEF Joined
<1>6. QED
  BY <1>2, <1>4, <1>5 DEF Reported

LEMMA UnreportedStep ==
  ASSUME CInv, UNCHANGED vars
  PROVE  Reported'
<1>1. /\ report' = report /\ run' = run /\ per_worker' = per_worker
      /\ live' = live /\ pos' = pos /\ phase' = phase /\ measured' = measured
      /\ ops' = ops /\ successes' = successes /\ failures' = failures /\ UNCHANGED input
  BY DEF vars, input, result, allocator, counters
<1>2. Worker' = Worker /\ \A v : Stream(v)' = Stream(v)
  BY <1>1, SameInput
<1>3. Results' = Results /\ Joined' = Joined
  BY <1>1, <1>2 DEF Results, Joined
<1>4. QED
  BY <1>1, <1>3 DEF CInv, Reported

LEMMA NextCInv == CInv /\ [Next]_vars => CInv'
<1> SUFFICES ASSUME CInv, [Next]_vars PROVE CInv'
  OBVIOUS
<1>1. RInv'
  BY NextRInv DEF CInv
<1>2. UNCHANGED input
  BY StepKinds DEF Next, Report, Snapshot, vars
<1>3. (per_worker = Dealt)'
  BY <1>2, SameDealt DEF CInv, input
<1>4. Worker' = Worker /\ DueSteps' = DueSteps /\ \A v : Stream(v)' = Stream(v)
  BY <1>2, SameInput, SameDue
<1>5. CASE Report \/ UNCHANGED vars
  <2>1. /\ pos' = pos /\ phase' = phase /\ measured' = measured /\ snapshots' = snapshots
        /\ ops' = ops /\ successes' = successes /\ failures' = failures
    BY <1>5 DEF Report, vars, result, counters
  <2>2. Snapped'
    BY <1>4, <2>1 DEF CInv, Snapped, Pictured
  <2>3. \A v \in Worker : Tallied(v)'
    BY <1>2, <2>1, TallyKept DEF CInv, Tallies
  <2>4. Tallies'
    BY <1>4, <2>1, <2>3 DEF CInv, Tallies
  <2>5. Reported'
    BY <1>5, ReportStep, UnreportedStep
  <2>6. QED
    BY <1>1, <1>3, <2>2, <2>4, <2>5 DEF CInv
<1>6. ASSUME NEW w \in Worker, ApplyEntry(w)
      PROVE  CInv'
  <2>1. Tallies' /\ Snapped'
    BY <1>6, TalliesStep, SnappedApply
  <2>2. Reported'
    BY <1>6, NoReportYet DEF Reported, NoReport
  <2>3. QED
    BY <1>1, <1>3, <2>1, <2>2 DEF CInv
<1>7. ASSUME NEW w \in Worker, Snapshot(w)
      PROVE  CInv'
  <2>1. /\ pos' = pos /\ measured' = measured /\ phase[w] = "snapshot"
        /\ phase' = [phase EXCEPT ![w] = "call"]
        /\ ops' = ops /\ successes' = successes /\ failures' = failures
    BY <1>7 DEF Snapshot, counters
  <2>2. \A v \in Worker : phase'[v] = "write" <=> phase[v] = "write"
    BY <2>1 DEF CInv, RInv, Shape
  <2>3. \A v \in Worker : Tallied(v)'
    BY <1>2, <2>1, <2>2, TallyKept DEF CInv, Tallies
  <2>4. Tallies'
    BY <1>4, <2>1, <2>3 DEF CInv, Tallies
  <2>5. Snapped'
    BY <1>7, SnappedSnapshot
  <2>6. Reported'
    BY <1>7, NoReportYet DEF Reported, NoReport
  <2>7. QED
    BY <1>1, <1>3, <2>4, <2>5, <2>6 DEF CInv
<1>8. QED
  BY <1>5, <1>6, <1>7 DEF Next

LEMMA RunnerCounts == Spec => []CInv
<1>1. QED
  BY InitCInv, NextCInv, PTL DEF Spec

(* At the end every worker has done its stream, and the streams have what  *)
(* the trace has.                                                          *)
LEMMA AllDone ==
  ASSUME CInv, Joined
  PROVE  /\ IsFiniteSet(Worker)
         /\ \A w \in Worker : /\ Begun(w) = Len(Stream(w)) /\ pos[w] = Len(Stream(w))
                              /\ Len(Stream(w)) \in Nat
         /\ \A K : SumOf(Counts(per_worker, K), Worker) = CountOf(trace, Len(trace), K)
         /\ SumOf([w \in Worker |-> Len(Stream(w))], Worker) = Len(trace)
<1>1. /\ trace \in Traces /\ run \in Runs /\ per_worker = Dealt
      /\ per_worker \in [Worker -> Seq(InTrace)]
  BY DEF CInv, RInv, Shape
<1>2. trace \in Seq(Entry) /\ IsFiniteSet(Worker)
  BY <1>1, RunFacts, WorkersFinite
<1>3. InTrace \subseteq Entry
  BY <1>2 DEF InTrace
<1>4. \A w \in Worker : Stream(w) \in Seq(Entry) /\ Len(Stream(w)) \in Nat
  BY <1>1, <1>3 DEF Stream
<1>5. \A w \in Worker : Begun(w) = Len(Stream(w)) /\ pos[w] = Len(Stream(w))
  BY DEF Joined, Begun
<1>6. \A K : SumOf(Counts(per_worker, K), Worker) = CountOf(trace, Len(trace), K)
  BY <1>1, DealtCounts
<1>7. SumOf([w \in Worker |-> Len(Stream(w))], Worker) = Len(trace)
  <2> DEFINE f == [w \in Worker |-> Len(Stream(w))]
             g == Counts(per_worker, Operation)
  <2>1. \A w \in Worker : f[w] = g[w]
    BY <1>4, CountAll DEF Counts, Stream
  <2>2. SumOf(g, Worker) = Len(trace)
    BY <1>2, <1>6, CountAll
  <2> HIDE DEF f, g
  <2>3. SumOf(f, Worker) = SumOf(g, Worker)
    BY <1>2, <2>1, SumSame
  <2>4. QED
    BY <2>2, <2>3 DEF f
<1>8. QED
  BY <1>2, <1>4, <1>5, <1>6, <1>7

LEMMA EntriesAre ==
  ASSUME trace \in Traces, NEW K
  PROVE  Entries(K) = CountOf(trace, Len(trace), K)
<1>1. DOMAIN trace = 1..Len(trace)
  BY RunnerAssumption
<1>2. QED
  BY <1>1 DEF Entries, CountOf

(* An allocation that is live at the end would be in some worker's table,  *)
(* under an id its stream allocates and never frees.                       *)
LEMMA NoneLeft ==
  ASSUME CInv, Joined, Balanced, StreamsStandAlone
  PROVE  DOMAIN live = {}
<1>1. SUFFICES ASSUME NEW h \in DOMAIN live PROVE FALSE
  OBVIOUS
<1>2. PICK w \in Worker : \E id \in DOMAIN pending[w] : pending[w][id].handle = h
  BY DEF CInv, RInv, Owned
<1>3. PICK id \in DOMAIN pending[w] : pending[w][id].handle = h
  BY <1>2
<1>4. OnRecord(w, id) /\ Registered(w, id)
  BY DEF CInv, RInv, Owned, AllRegistered
<1>5. phase[w] = "call" /\ pos[w] = Len(Stream(w))
  BY DEF Joined
<1>6. LiveAfter(Stream(w), Len(Stream(w)), id)
  BY <1>4, <1>5 DEF OnRecord, Writing
<1>7. PICK i \in 1..Len(Stream(w)) :
        /\ Stream(w)[i].op = "Allocate" /\ Stream(w)[i].id = id
        /\ \A j \in (i + 1)..Len(Stream(w)) :
             ~ (Stream(w)[j].op = "Free" /\ Stream(w)[j].id = id)
  BY <1>6 DEF LiveAfter
<1>8. FreesItsOwn(w, id)
  <2>1. PICK e \in InTrace : e.id = id
    BY <1>4 DEF Registered
  <2>2. ToSet(trace) = InTrace
    <3>1. trace \in Seq(Entry)
      BY RunFacts DEF CInv, RInv, Shape
    <3>2. QED
      BY <3>1 DEF ToSet, InTrace
  <2>3. QED
    BY <2>1, <2>2 DEF Balanced
<1>9. QED
  BY <1>7, <1>8 DEF FreesItsOwn

LEMMA SnapshotsTaken ==
  ASSUME CInv, Joined
  PROVE  {snapshots[k].step : k \in DOMAIN snapshots} = {i \in 0..(Len(trace) - 1) : Due(i)}
<1>1. {snapshots[k].step : k \in DOMAIN snapshots} = {i \in DueSteps : i < Pictured}
  BY DEF CInv, Snapped
<1>2. trace \in Traces /\ run \in Runs /\ trace \in Seq(Entry) /\ Len(trace) \in Nat
  BY RunFacts DEF CInv, RInv, Shape
<1>3. ASSUME NEW i \in DueSteps
      PROVE  Pictured = Len(trace)
  <2>1. Worker = {0}
    BY DueReplays
  <2> DEFINE f == [w \in Worker |-> Len(Stream(w))]
  <2>2. /\ pos[0] = Len(Stream(0)) /\ Len(Stream(0)) \in Nat /\ f[0] = Len(Stream(0))
        /\ SumOf(f, Worker) = Len(trace) /\ phase[0] = "call"
    BY <2>1, AllDone DEF Joined
  <2> HIDE DEF f
  <2>3. SumOf(f, {0}) = f[0]
    <3>1. IsFiniteSet({}) /\ {} \cup {0} = {0} /\ SumOf(f, {}) = 0
      BY FS_EmptySet, SumEmpty
    <3>2. \A y \in {} \cup {0} : f[y] \in Nat
      BY <2>2
    <3>3. SumOf(f, {} \cup {0}) = SumOf(f, {}) + f[0]
      BY <3>1, <3>2, SumAdd
    <3>4. QED
      BY <2>2, <3>1, <3>3
  <2>4. QED
    BY <2>1, <2>2, <2>3 DEF Pictured
<1>4. \A i : i \in DueSteps <=> i \in Nat /\ Due(i)
  BY DEF DueSteps
<1>5. \A i : i \in 0..(Len(trace) - 1) <=> i \in Nat /\ i < Len(trace)
  BY <1>2
<1>6. {i \in DueSteps : i < Pictured} = {i \in 0..(Len(trace) - 1) : Due(i)}
  BY <1>3, <1>4, <1>5
<1>7. QED
  BY <1>1, <1>6

(* Every entry is counted once, for any number of workers and every        *)
(* validated trace: what the workers counted of their streams adds up to   *)
(* what the trace has, the snapshots are those that are due, and a trace   *)
(* whose workers free what they allocate leaves nothing live.              *)
THEOREM RunnerEveryEntryCounted == Spec => []EveryEntryCounted
<1>1. ASSUME CInv PROVE EveryEntryCounted
  <2> SUFFICES ASSUME report.done PROVE EveryEntryCounted
    BY DEF EveryEntryCounted
  <2>1. Joined /\ report = Results
    BY <1>1 DEF CInv, Reported, NoReport
  <2> DEFINE success == SumOf(successes, Worker)
             failure == SumOf(failures, Worker)
             settled == [w \in Worker |-> Outcomes(w)]
             settledIn == Counts(per_worker, Measured)
             lengths == [w \in Worker |-> Len(Stream(w))]
  <2>2. /\ report.success_count = success /\ report.failure_count = failure
        /\ report.operations = IF run.mode = "replay" THEN SumOf(ops, Worker)
                               ELSE success + failure
        /\ report.live = Cardinality(DOMAIN live)
    BY <2>1 DEF Results
  <2>3. \A op \in Measured :
          report.samples[op] = SumOf([w \in Worker |-> measured[w][op]], Worker)
    BY <2>1 DEF Results
  <2>4. /\ IsFiniteSet(Worker)
        /\ \A w \in Worker : /\ Begun(w) = Len(Stream(w)) /\ pos[w] = Len(Stream(w))
                             /\ Len(Stream(w)) \in Nat
        /\ \A K : SumOf(Counts(per_worker, K), Worker) = CountOf(trace, Len(trace), K)
        /\ SumOf(lengths, Worker) = Len(trace)
    BY <1>1, <2>1, AllDone
  <2>5. /\ trace \in Traces /\ ops \in [Worker -> Nat]
        /\ successes \in [Worker -> Nat] /\ failures \in [Worker -> Nat]
        /\ \A w \in Worker : Tallied(w)
    BY <1>1 DEF CInv, RInv, Shape, Tallies
  <2>6. \A K : Entries(K) = CountOf(trace, Len(trace), K)
    BY <2>5, EntriesAre
  <2>7. \A op \in Measured : report.samples[op] = Entries({op})
    <3> TAKE op \in Measured
    <3> DEFINE f == [w \in Worker |-> measured[w][op]]
               g == Counts(per_worker, {op})
    <3>1. \A w \in Worker : f[w] = g[w]
      BY <2>4, <2>5 DEF Tallied, Counts, Stream
    <3>2. SumOf(g, Worker) = Entries({op}) /\ report.samples[op] = SumOf(f, Worker)
      BY <2>3, <2>4, <2>6
    <3> HIDE DEF f, g
    <3>3. SumOf(f, Worker) = SumOf(g, Worker)
      BY <2>4, <3>1, SumSame
    <3>4. QED
      BY <3>2, <3>3
  <2>8. success + failure \in Entries(Measured)..Len(trace)
    <3>1. \A w \in Worker : /\ successes[w] \in Nat /\ failures[w] \in Nat
                            /\ settled[w] = successes[w] + failures[w]
      BY <2>5 DEF Outcomes
    <3>2. \A w \in Worker : settledIn[w] \in Nat
      BY <2>4, CountFacts DEF Counts, Stream
    <3>3. \A w \in Worker : settledIn[w] <= settled[w] /\ settled[w] <= lengths[w]
      BY <2>4, <2>5 DEF Tallied, Counts, Stream
    <3>4. \A w \in Worker : lengths[w] \in Nat /\ settled[w] \in Nat
      BY <2>4, <3>1
    <3>5. SumOf(settledIn, Worker) = Entries(Measured) /\ SumOf(lengths, Worker) = Len(trace)
      BY <2>4, <2>6
    <3> HIDE DEF settled, settledIn, lengths
    <3>6. SumOf(settled, Worker) = SumOf(successes, Worker) + SumOf(failures, Worker)
      BY ONLY <2>4, <3>1, SumPlus
    <3>7. /\ SumOf(settledIn, Worker) <= SumOf(settled, Worker)
          /\ SumOf(settled, Worker) <= SumOf(lengths, Worker)
      BY <2>4, <3>2, <3>3, <3>4, SumMono
    <3>8. /\ SumOf(settledIn, Worker) \in Nat /\ SumOf(settled, Worker) \in Nat
          /\ SumOf(lengths, Worker) \in Nat
      BY <2>4, <3>2, <3>4, SumNat
    <3>9. QED
      BY <3>5, <3>6, <3>7, <3>8
  <2>9. run.mode = "replay" => report.operations = Len(trace)
    <3>1. \A w \in Worker : ops[w] = lengths[w]
      BY <2>4, <2>5 DEF Tallied
    <3> HIDE DEF lengths
    <3>2. SumOf(ops, Worker) = SumOf(lengths, Worker)
      BY <2>4, <3>1, SumSame
    <3>3. QED
      BY <2>2, <2>4, <3>2
  <2>10. Balanced /\ StreamsStandAlone => report.live = 0
    BY <1>1, <2>1, <2>2, NoneLeft, FS_EmptySet
  <2>11. /\ {snapshots[k].step : k \in DOMAIN snapshots} = {i \in 0..(Len(trace) - 1) : Due(i)}
         /\ \A k, m \in DOMAIN snapshots : k < m => snapshots[k].step < snapshots[m].step
    BY <1>1, <2>1, SnapshotsTaken DEF CInv, Snapped
  <2> HIDE DEF success, failure, settled, settledIn, lengths
  <2>12. run.mode # "replay" => report.operations = success + failure
    BY <2>2
  <2>13. report.success_count + report.failure_count = success + failure
    BY <2>2
  <2>14. QED
    BY <2>7, <2>8, <2>9, <2>10, <2>11, <2>12, <2>13 DEF EveryEntryCounted
<1>2. QED
  BY <1>1, RunnerCounts, PTL
=============================================================================
