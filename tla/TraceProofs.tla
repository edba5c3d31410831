----------------------------- MODULE TraceProofs -----------------------------
(***************************************************************************)
(* Where traces come from and what is accepted of them: theorems of        *)
(* TraceValidator, for every set of entries and traces of every length,    *)
(* and then of WorkloadGenerator, for every set of configurations.         *)
(*                                                                         *)
(* Of the validator, IInv ties live_ids_ to the ids that are live after    *)
(* the entries read.  Of the generator: a sanitized configuration is       *)
(* sane, ids are never given out twice, whoever allocates also frees, and  *)
(* every trace it writes down passes validate_trace().  Its inductive      *)
(* invariant, GInv, is the shape of the state (Shaped), the ids that are   *)
(* live or free to be reused (Numbered), and, for each record of live and  *)
(* each entry, the allocation it belongs to (Held, Charged).               *)
(***************************************************************************)
EXTENDS TraceValidator, WorkloadGenerator, ArithmeticLemmas, SequenceTheorems

Listed(id) == \E i \in 1..Len(live_ids) : live_ids[i] = id

(* live_ids_ lists each id once, and while nothing was rejected these are  *)
(* the ids that are live after the entries read.                           *)
IInv ==
  /\ entries \in Seq(Entry)
  /\ live_ids \in Seq(Nat) /\ IsInjective(live_ids)
  /\ error \in {"ok", "trace_malformed", "trace_rejected"}
  /\ error = "ok" =>
       /\ WellFormed(entries)
       /\ \A id \in Nat : Listed(id) <=> LiveAfter(entries, Len(entries), id)
  /\ error # "ok" => ~ WellFormed(entries)

-----------------------------------------------------------------------------
(* What one more entry does to a trace.                                    *)

LEMMA EntryFacts ==
  ASSUME Assumptions, NEW e \in Entry
  PROVE  e.id \in Nat
BY DEF Assumptions

LEMMA AppendFacts ==
  ASSUME NEW t \in Seq(Entry), NEW e \in Entry
  PROVE  /\ Append(t, e) \in Seq(Entry)
         /\ Len(Append(t, e)) = Len(t) + 1 /\ Len(t) \in Nat
         /\ Append(t, e)[Len(t) + 1] = e
         /\ \A i \in 1..Len(t) : Append(t, e)[i] = t[i]
OBVIOUS

(* Nothing changes for the entries before.                                 *)
LEMMA LiveBefore ==
  ASSUME NEW t \in Seq(Entry), NEW e \in Entry, NEW n \in 0..Len(t), NEW id \in Nat
  PROVE  LiveAfter(Append(t, e), n, id) <=> LiveAfter(t, n, id)
<1> DEFINE u == Append(t, e)
<1>1. \A i \in 1..n : u[i] = t[i]
  BY AppendFacts
<1>2. \A i \in 1..n : \A j \in (i + 1)..n : u[j] = t[j]
  BY <1>1
<1> HIDE DEF u
<1>3. LiveAfter(u, n, id) <=> LiveAfter(t, n, id)
  BY <1>1, <1>2 DEF LiveAfter
<1>4. QED BY <1>3 DEF u

(* After the new entry, what it allocated is live, what it freed is not,   *)
(* and the rest is as it was.                                              *)
LEMMA LiveNow ==
  ASSUME NEW t \in Seq(Entry), NEW e \in Entry, NEW id \in Nat
  PROVE  LiveAfter(Append(t, e), Len(t) + 1, id) <=>
           \/ e.op = "Allocate" /\ e.id = id
           \/ LiveAfter(t, Len(t), id) /\ ~ (e.op = "Free" /\ e.id = id)
<1> DEFINE u == Append(t, e)
           n == Len(t)
<1>1. n \in Nat /\ u[n + 1] = e /\ \A i \in 1..n : u[i] = t[i]
  BY AppendFacts
<1> HIDE DEF u, n
<1>2. ASSUME LiveAfter(u, n + 1, id)
      PROVE  \/ e.op = "Allocate" /\ e.id = id
             \/ LiveAfter(t, n, id) /\ ~ (e.op = "Free" /\ e.id = id)
  <2>1. PICK i \in 1..(n + 1) :
          /\ u[i].op = "Allocate" /\ u[i].id = id
          /\ \A j \in (i + 1)..(n + 1) : ~ (u[j].op = "Free" /\ u[j].id = id)
    BY <1>2 DEF LiveAfter
  <2>2. CASE i = n + 1
    BY <2>1, <2>2, <1>1
  <2>3. CASE i \in 1..n
    <3>1. n + 1 \in (i + 1)..(n + 1)
      BY <2>3, <1>1
    <3>2. ~ (e.op = "Free" /\ e.id = id)
      BY <3>1, <2>1, <1>1
    <3>3. \A j \in (i + 1)..n : j \in (i + 1)..(n + 1) /\ u[j] = t[j]
      BY <2>3, <1>1
    <3>4. t[i].op = "Allocate" /\ t[i].id = id
      BY <2>1, <2>3, <1>1
    <3>5. LiveAfter(t, n, id)
      BY <2>1, <2>3, <3>3, <3>4 DEF LiveAfter
    <3>6. QED BY <3>2, <3>5
  <2>4. QED BY <2>2, <2>3, <1>1
<1>3. ASSUME e.op = "Allocate", e.id = id
      PROVE  LiveAfter(u, n + 1, id)
  <2>1. n + 1 \in 1..(n + 1) /\ (n + 1 + 1)..(n + 1) = {}
    BY <1>1
  <2>2. QED BY <2>1, <1>1, <1>3 DEF LiveAfter
<1>4. ASSUME LiveAfter(t, n, id), ~ (e.op = "Free" /\ e.id = id)
      PROVE  LiveAfter(u, n + 1, id)
  <2>1. PICK i \in 1..n :
          /\ t[i].op = "Allocate" /\ t[i].id = id
          /\ \A j \in (i + 1)..n : ~ (t[j].op = "Free" /\ t[j].id = id)
    BY <1>4 DEF LiveAfter
  <2>2. \A j \in (i + 1)..(n + 1) : j = n + 1 \/ (j \in (i + 1)..n /\ u[j] = t[j])
    BY <1>1
  <2>3. \A j \in (i + 1)..(n + 1) : ~ (u[j].op = "Free" /\ u[j].id = id)
    BY <2>1, <2>2, <1>1, <1>4
  <2>4. i \in 1..(n + 1) /\ u[i] = t[i]
    BY <1>1
  <2>5. QED BY <2>1, <2>3, <2>4 DEF LiveAfter
<1>5. QED BY <1>2, <1>3, <1>4 DEF u, n

(* A trace with one more entry is well formed if it was and the entry can  *)
(* be replayed after it.                                                   *)
LEMMA WellFormedNow ==
  ASSUME Assumptions, NEW t \in Seq(Entry), NEW e \in Entry
  PROVE  WellFormed(Append(t, e)) <=>
           /\ WellFormed(t)
           /\ ~ Malformed(e)
           /\ e.op = "Allocate" => ~ LiveAfter(t, Len(t), e.id)
           /\ e.op \in {"Free", "Reallocate"} => LiveAfter(t, Len(t), e.id)
<1> DEFINE u == Append(t, e)
           n == Len(t)
<1>1. /\ n \in Nat /\ Len(u) = n + 1 /\ u[n + 1] = e
      /\ \A i \in 1..n : u[i] = t[i]
      /\ \A i \in 1..n : t[i] \in Entry
  BY AppendFacts
<1>2. \A k \in 0..n, id \in Nat : LiveAfter(u, k, id) <=> LiveAfter(t, k, id)
  BY LiveBefore
<1> HIDE DEF u, n
<1>3. \A i \in 1..n : WellFormedAt(u, i) <=> WellFormedAt(t, i)
  <2> TAKE i \in 1..n
  <2>1. i - 1 \in 0..n /\ u[i] = t[i] /\ t[i].id \in Nat
    BY <1>1, EntryFacts
  <2>2. LiveAfter(u, i - 1, t[i].id) <=> LiveAfter(t, i - 1, t[i].id)
    BY <2>1, <1>2
  <2>3. QED BY <2>1, <2>2 DEF WellFormedAt
<1>4. LiveAfter(u, (n + 1) - 1, e.id) <=> LiveAfter(t, n, e.id)
  <2>1. (n + 1) - 1 = n /\ n \in 0..n BY <1>1
  <2>2. QED BY <2>1, <1>2, EntryFacts
<1>5. WellFormedAt(u, n + 1) <=>
        /\ ~ Malformed(e)
        /\ e.op = "Allocate" => ~ LiveAfter(t, n, e.id)
        /\ e.op \in {"Free", "Reallocate"} => LiveAfter(t, n, e.id)
  BY <1>1, <1>4 DEF WellFormedAt
<1>6. 1..(n + 1) = (1..n) \cup {n + 1}
  BY <1>1
<1>7. WellFormed(u) <=> (\A i \in 1..n : WellFormedAt(u, i)) /\ WellFormedAt(u, n + 1)
  BY <1>1, <1>6 DEF WellFormed
<1>8. WellFormed(t) <=> \A i \in 1..n : WellFormedAt(t, i)
  BY DEF WellFormed, n
<1>9. QED BY <1>3, <1>5, <1>7, <1>8 DEF u, n

-----------------------------------------------------------------------------
(* The removal from live_ids_.                                             *)

LEMMA PositionFound ==
  ASSUME live_ids \in Seq(Nat), NEW id, Listed(id)
  PROVE  PositionOf(id) \in 1..Len(live_ids) /\ live_ids[PositionOf(id)] = id
<1> DEFINE I == {i \in 1..Len(live_ids) : live_ids[i] = id}
           Less == {ss \in Nat \X Nat : ss[1] < ss[2]}
<1>1. I \subseteq Nat /\ I # {}
  BY DEF Listed
<1>2. IsWellFoundedOn(Less, Nat)
  BY NatLessThanWellFounded DEF OpToRel
<1>3. PICK m \in I : \A i \in I : ~ (<<i, m>> \in Less)
  <2> HIDE DEF I, Less
  <2>1. QED BY <1>1, <1>2, WFMin
<1>4. \A i \in I : m <= i
  <2> TAKE i \in I
  <2>1. i \in Nat /\ m \in Nat
    BY <1>1
  <2>2. ~ (<<i, m>> \in Less)
    BY <1>3
  <2>3. ~ (i < m)
    BY <2>1, <2>2
  <2>4. QED BY <2>1, <2>3
<1>5. Min(I) \in I
  BY <1>4 DEF Min
<1>6. PositionOf(id) = Min(I)
  BY <1>1 DEF PositionOf, SelectInSeq
<1>7. QED BY <1>5, <1>6

LEMMA SwapRemoved ==
  ASSUME NEW v \in Seq(Nat), IsInjective(v), NEW p \in 1..Len(v)
  PROVE  /\ SwapRemove(v, p) \in Seq(Nat)
         /\ Len(SwapRemove(v, p)) = Len(v) - 1
         /\ IsInjective(SwapRemove(v, p))
         /\ \A id \in Nat : (\E i \in 1..Len(SwapRemove(v, p)) : SwapRemove(v, p)[i] = id)
                              <=> (\E i \in 1..Len(v) : v[i] = id) /\ id # v[p]
<1> DEFINE n == Len(v)
           w == SwapRemove(v, p)
<1>1. /\ n \in Nat /\ n > 0 /\ p \in 1..n /\ DOMAIN v = 1..n
      /\ \A i \in 1..n : v[i] \in Nat
  OBVIOUS
<1>2. /\ DOMAIN w = 1..(n - 1)
      /\ \A i \in 1..(n - 1) : w[i] = IF i = p THEN v[n] ELSE v[i]
  BY DEF SwapRemove
<1>3. w \in [1..(n - 1) -> Nat] /\ n - 1 \in Nat
  BY <1>1, <1>2 DEF SwapRemove
<1>4. w \in Seq(Nat) /\ Len(w) = n - 1
  BY <1>3
<1>5. \A i, j \in 1..n : v[i] = v[j] => i = j
  BY <1>1 DEF IsInjective
<1> HIDE DEF w, n
<1>6. \A i, j \in 1..(n - 1) : w[i] = w[j] => i = j
  BY <1>1, <1>2, <1>5
<1>7. ASSUME NEW id \in Nat
      PROVE  (\E i \in 1..(n - 1) : w[i] = id) <=> (\E i \in 1..n : v[i] = id) /\ id # v[p]
  <2>1. ASSUME NEW i \in 1..(n - 1), w[i] = id
        PROVE  (\E j \in 1..n : v[j] = id) /\ id # v[p]
    <3>1. CASE i = p
      BY <3>1, <2>1, <1>1, <1>2, <1>5
    <3>2. CASE i # p
      BY <3>2, <2>1, <1>1, <1>2, <1>5
    <3>3. QED BY <3>1, <3>2
  <2>2. ASSUME NEW i \in 1..n, v[i] = id, id # v[p]
        PROVE  \E j \in 1..(n - 1) : w[j] = id
    <3>1. CASE i = n
      <4>1. p \in 1..(n - 1) /\ w[p] = id
        BY <3>1, <2>2, <1>1, <1>2
      <4>2. QED BY <4>1
    <3>2. CASE i # n
      <4>1. i \in 1..(n - 1) /\ w[i] = id
        BY <3>2, <2>2, <1>1, <1>2
      <4>2. QED BY <4>1
    <3>3. QED BY <3>1, <3>2
  <2>3. QED BY <2>1, <2>2
<1>8. QED
  BY <1>2, <1>4, <1>6, <1>7 DEF w, n, IsInjective

-----------------------------------------------------------------------------
LEMMA ValidatorInit == Init => IInv
<1> SUFFICES ASSUME Init PROVE IInv OBVIOUS
<1>1. entries = <<>> /\ live_ids = <<>> /\ error = "ok"
  BY DEF Init
<1>2. IsInjective(live_ids)
  BY <1>1 DEF IsInjective
<1>3. WellFormed(entries)
  BY <1>1 DEF WellFormed
<1>4. \A id \in Nat : ~ Listed(id) /\ ~ LiveAfter(entries, Len(entries), id)
  BY <1>1 DEF Listed, LiveAfter
<1>5. QED BY <1>1, <1>2, <1>3, <1>4 DEF IInv

(* The verdict on an entry is the one the definition of a well-formed      *)
(* trace gives.                                                            *)
LEMMA Verdict ==
  ASSUME Assumptions, IInv, error = "ok", NEW e \in Entry
  PROVE  WellFormed(Append(entries, e)) <=> ~ Malformed(e) /\ ~ Rejected(e)
<1>1. entries \in Seq(Entry) /\ e.id \in Nat /\ WellFormed(entries)
  BY EntryFacts DEF IInv
<1>2. IsLive(e.id) <=> LiveAfter(entries, Len(entries), e.id)
  BY <1>1 DEF IInv, IsLive, Contains, Listed
<1>3. WellFormed(Append(entries, e)) <=>
        /\ ~ Malformed(e)
        /\ e.op = "Allocate" => ~ IsLive(e.id)
        /\ e.op \in {"Free", "Reallocate"} => IsLive(e.id)
  BY <1>1, <1>2, WellFormedNow
<1>4. QED BY <1>3 DEF Rejected

(* What an accepted entry does to live_ids_ is what it does to the live    *)
(* ids of the trace.                                                       *)
LEMMA AcceptKeeps ==
  ASSUME Assumptions, IInv, NEW e \in Entry, Accepts(e),
         live_ids' \in Seq(Nat), IsInjective(live_ids'),
         \A id \in Nat : Listed(id)' <=>
           \/ e.op = "Allocate" /\ e.id = id
           \/ Listed(id) /\ ~ (e.op = "Free" /\ e.id = id)
  PROVE  IInv'
<1>1. /\ entries \in Seq(Entry) /\ error = "ok" /\ error' = "ok"
      /\ entries' = Append(entries, e) /\ ~ Malformed(e) /\ ~ Rejected(e)
  BY DEF IInv, Accepts
<1>2. entries' \in Seq(Entry) /\ Len(entries') = Len(entries) + 1
  BY <1>1, AppendFacts
<1>3. WellFormed(entries')
  BY <1>1, Verdict
<1>4. \A id \in Nat : Listed(id)' <=> LiveAfter(entries', Len(entries'), id)
  <2> TAKE id \in Nat
  <2>1. Listed(id) <=> LiveAfter(entries, Len(entries), id)
    BY <1>1 DEF IInv
  <2>2. LiveAfter(entries', Len(entries'), id) <=>
           \/ e.op = "Allocate" /\ e.id = id
           \/ LiveAfter(entries, Len(entries), id) /\ ~ (e.op = "Free" /\ e.id = id)
    BY <1>1, <1>2, LiveNow
  <2>3. QED BY <2>1, <2>2
<1>5. QED BY <1>1, <1>2, <1>3, <1>4 DEF IInv

LEMMA ValidatorStep ==
  ASSUME Assumptions, IInv, [Next]_tvars
  PROVE  IInv'
<1>1. live_ids \in Seq(Nat) /\ IsInjective(live_ids) /\ Len(live_ids) \in Nat
  BY DEF IInv
<1>2. ASSUME NEW e \in Entry, AcceptAllocate(e)
      PROVE  IInv'
  <2>1. /\ Accepts(e) /\ e.op = "Allocate" /\ e.id \in Nat
        /\ live_ids' = Append(live_ids, e.id)
    BY <1>2, EntryFacts DEF AcceptAllocate
  <2>2. /\ live_ids' \in Seq(Nat) /\ Len(live_ids') = Len(live_ids) + 1
        /\ DOMAIN live_ids' = 1..(Len(live_ids) + 1)
        /\ live_ids'[Len(live_ids) + 1] = e.id
        /\ \A i \in 1..Len(live_ids) : live_ids'[i] = live_ids[i]
    BY <1>1, <2>1
  <2>3. \A i \in 1..Len(live_ids) : live_ids[i] # e.id
    BY <2>1 DEF Accepts, Rejected, IsLive, Contains
  <2>4. \A i, j \in 1..Len(live_ids) : live_ids[i] = live_ids[j] => i = j
    BY <1>1 DEF IsInjective
  <2>5. IsInjective(live_ids')
    BY SMTT(60), <1>1, <2>2, <2>3, <2>4 DEF IsInjective
  <2>6. \A id \in Nat : Listed(id)' <=> e.id = id \/ Listed(id)
    BY <1>1, <2>2 DEF Listed
  <2>7. QED BY <2>1, <2>2, <2>5, <2>6, AcceptKeeps
<1>3. ASSUME NEW e \in Entry, AcceptFree(e)
      PROVE  IInv'
  <2> DEFINE p == PositionOf(e.id)
  <2>1. /\ Accepts(e) /\ e.op = "Free" /\ e.id \in Nat
        /\ live_ids' = SwapRemove(live_ids, p)
    BY <1>3, EntryFacts DEF AcceptFree
  <2>2. Listed(e.id)
    BY <2>1 DEF Accepts, Rejected, IsLive, Contains, Listed
  <2>3. p \in 1..Len(live_ids) /\ live_ids[p] = e.id
    BY <1>1, <2>2, PositionFound
  <2> HIDE DEF p
  <2>4. /\ SwapRemove(live_ids, p) \in Seq(Nat) /\ IsInjective(SwapRemove(live_ids, p))
        /\ \A id \in Nat : (\E i \in 1..Len(SwapRemove(live_ids, p)) : SwapRemove(live_ids, p)[i] = id)
                             <=> (\E i \in 1..Len(live_ids) : live_ids[i] = id) /\ id # live_ids[p]
    BY <1>1, <2>3, SwapRemoved
  <2>5. \A id \in Nat : Listed(id)' <=> Listed(id) /\ id # e.id
    BY <2>1, <2>3, <2>4 DEF Listed
  <2>6. QED BY <2>1, <2>4, <2>5, AcceptKeeps
<1>4. ASSUME NEW e \in Entry, AcceptReallocate(e) \/ AcceptOther(e)
      PROVE  IInv'
  <2>1. /\ Accepts(e) /\ live_ids' = live_ids /\ e.op \notin {"Allocate", "Free"}
    BY <1>4 DEF AcceptReallocate, AcceptOther, tables
  <2>2. \A id \in Nat : Listed(id)' <=> Listed(id)
    BY <2>1 DEF Listed
  <2>3. QED BY <1>1, <2>1, <2>2, AcceptKeeps
<1>5. ASSUME NEW e \in Entry, Reject(e)
      PROVE  IInv'
  <2>1. /\ error = "ok" /\ error' \in {"trace_malformed", "trace_rejected"}
        /\ entries' = Append(entries, e) /\ live_ids' = live_ids
        /\ entries \in Seq(Entry)
    BY <1>5 DEF Reject, tables, IInv
  <2>2. ~ WellFormed(entries')
    BY <2>1, <1>5, Verdict DEF Reject
  <2>3. entries' \in Seq(Entry)
    BY <2>1, AppendFacts
  <2>4. QED BY <1>1, <2>1, <2>2, <2>3 DEF IInv
<1>6. CASE UNCHANGED tvars
  BY <1>6 DEF tvars, tables, IInv, Listed
<1>7. QED BY <1>2, <1>3, <1>4, <1>5, <1>6 DEF Next, Validate

(* The validator accepts a trace exactly when the trace is well formed     *)
(* (AcceptsExactly), however long it is.                                   *)
THEOREM ValidatorAcceptsExactly ==
  ASSUME Assumptions
  PROVE  Spec => []AcceptsExactly
<1>1. IInv => AcceptsExactly
  BY DEF IInv, AcceptsExactly
<1>2. IInv /\ [Next]_tvars => IInv'
  BY ValidatorStep
<1>3. QED BY <1>1, <1>2, ValidatorInit, PTL DEF Spec

-----------------------------------------------------------------------------
(* The two tables.                                                         *)

(* TablesAgree with its sum as a term the lemmas on sums speak of.  It is  *)
(* inductive: each accepted entry changes live_ids_ and live_sizes by the  *)
(* same id, and cur_live_bytes by that id's term.                          *)
Tables ==
  /\ TypeOK
  /\ IsInjective(live_ids)
  /\ live_ = Len(live_ids)
  /\ DOMAIN live_sizes = ToSet(live_ids)
  /\ cur_live_bytes = SumOf(live_sizes, DOMAIN live_sizes)

LEMMA TablesAreThat == Tables => TablesAgree
BY DEF Tables, TablesAgree, SumOf

LEMMA TablesInit ==
  ASSUME Assumptions, Init
  PROVE  Tables
<1>1. /\ entries = <<>> /\ live_ids = <<>> /\ live_ = 0
      /\ DOMAIN live_sizes = {} /\ cur_live_bytes = 0 /\ error = "ok"
  BY DEF Init
<1>2. TypeOK
  BY <1>1 DEF TypeOK, Assumptions
<1>3. IsInjective(live_ids) /\ ToSet(live_ids) = {}
  BY <1>1 DEF IsInjective, ToSet
<1>4. SumOf(live_sizes, DOMAIN live_sizes) = 0
  BY <1>1, SumEmpty
<1>5. QED
  BY <1>1, <1>2, <1>3, <1>4 DEF Tables

LEMMA TablesFacts ==
  ASSUME Tables
  PROVE  /\ live_ids \in Seq(Nat) /\ IsInjective(live_ids) /\ Len(live_ids) \in Nat
         /\ DOMAIN live_ids = 1..Len(live_ids)
         /\ IsFiniteSet(DOMAIN live_sizes)
         /\ \A x \in DOMAIN live_sizes : live_sizes[x] \in Nat
         /\ \A id : Listed(id) <=> id \in DOMAIN live_sizes
         /\ cur_live_bytes = SumOf(live_sizes, DOMAIN live_sizes)
         /\ live_ = Len(live_ids)
         /\ \A i \in 1..Len(live_ids) : live_ids[i] \in Nat /\ live_ids[i] # 0
<1>1. live_ids \in Seq(Nat \ {0}) /\ IsInjective(live_ids) /\ DOMAIN live_sizes = ToSet(live_ids)
  BY DEF Tables, TypeOK
<1>2. /\ live_ids \in Seq(Nat) /\ Len(live_ids) \in Nat
      /\ DOMAIN live_ids = 1..Len(live_ids)
      /\ \A i \in 1..Len(live_ids) : live_ids[i] \in Nat /\ live_ids[i] # 0
  BY <1>1
<1>3. IsFiniteSet(ToSet(live_ids))
  <2>1. IsFiniteSet(1..Len(live_ids))
    BY <1>2, FS_Interval
  <2>2. live_ids \in Surjection(1..Len(live_ids), ToSet(live_ids))
    BY <1>2 DEF Surjection, ToSet
  <2>3. QED
    BY <2>1, <2>2, FS_Surjection
<1>4. \A id : Listed(id) <=> id \in DOMAIN live_sizes
  BY <1>1, <1>2 DEF Listed, ToSet
<1>5. QED
  BY <1>1, <1>2, <1>3, <1>4 DEF Tables, TypeOK

(* The ids of live_ids_ after a removal, and how many there are.           *)
LEMMA TypedRemoval ==
  ASSUME Tables, NEW id, Listed(id)
  PROVE  LET v == SwapRemove(live_ids, PositionOf(id))
         IN /\ v \in Seq(Nat \ {0}) /\ IsInjective(v)
            /\ Len(live_ids) > 0 /\ Len(v) = Len(live_ids) - 1
            /\ ToSet(v) = ToSet(live_ids) \ {id}
<1> DEFINE p == PositionOf(id)
           v == SwapRemove(live_ids, p)
<1>1. /\ live_ids \in Seq(Nat) /\ IsInjective(live_ids) /\ Len(live_ids) \in Nat
      /\ \A i \in 1..Len(live_ids) : live_ids[i] \in Nat /\ live_ids[i] # 0
      /\ DOMAIN live_ids = 1..Len(live_ids)
  BY TablesFacts
<1>2. p \in 1..Len(live_ids) /\ live_ids[p] = id
  BY <1>1, PositionFound
<1> HIDE DEF p
<1>3. /\ SwapRemove(live_ids, p) \in Seq(Nat) /\ IsInjective(SwapRemove(live_ids, p))
      /\ Len(SwapRemove(live_ids, p)) = Len(live_ids) - 1
      /\ \A x \in Nat : (\E i \in 1..Len(SwapRemove(live_ids, p)) : SwapRemove(live_ids, p)[i] = x)
                          <=> (\E i \in 1..Len(live_ids) : live_ids[i] = x) /\ x # live_ids[p]
  <2>1. live_ids \in Seq(Nat) /\ IsInjective(live_ids) /\ p \in 1..Len(live_ids)
    BY <1>1, <1>2
  <2> HIDE DEF v
  <2>2. QED
    BY <2>1, SwapRemoved
<1>4. /\ v \in Seq(Nat) /\ IsInjective(v) /\ Len(v) = Len(live_ids) - 1
      /\ \A x \in Nat : (\E i \in 1..Len(v) : v[i] = x)
                           <=> (\E i \in 1..Len(live_ids) : live_ids[i] = x) /\ x # id
  BY <1>2, <1>3
<1> HIDE DEF v
<1>5. Len(live_ids) > 0 /\ DOMAIN v = 1..Len(v)
  BY <1>1, <1>2, <1>4
<1>6. \A i \in 1..Len(v) : v[i] \in Nat
  BY <1>4
<1>7. \A i \in 1..Len(v) : v[i] \in Nat \ {0}
  BY <1>1, <1>4, <1>6
<1>8. v \in Seq(Nat \ {0})
  BY <1>4, <1>5, <1>7
<1>9. \A x : x \in ToSet(v) <=> \E i \in 1..Len(v) : v[i] = x
  BY <1>5 DEF ToSet
<1>10. \A x : x \in ToSet(live_ids) <=> \E i \in 1..Len(live_ids) : live_ids[i] = x
  BY <1>1 DEF ToSet
<1>11. ToSet(v) = ToSet(live_ids) \ {id}
  BY <1>1, <1>4, <1>6, <1>9, <1>10
<1>12. QED
  BY <1>4, <1>5, <1>8, <1>11 DEF v, p

LEMMA TablesStep ==
  ASSUME Assumptions, Tables, [Next]_tvars
  PROVE  Tables'
<1>1. /\ live_ids \in Seq(Nat) /\ IsInjective(live_ids) /\ Len(live_ids) \in Nat
      /\ DOMAIN live_ids = 1..Len(live_ids)
      /\ IsFiniteSet(DOMAIN live_sizes)
      /\ \A x \in DOMAIN live_sizes : live_sizes[x] \in Nat
      /\ \A id : Listed(id) <=> id \in DOMAIN live_sizes
      /\ cur_live_bytes = SumOf(live_sizes, DOMAIN live_sizes)
      /\ live_ = Len(live_ids)
  BY TablesFacts
<1>2. TypeOK /\ DOMAIN live_sizes = ToSet(live_ids)
  BY DEF Tables
<1>3. ASSUME NEW e \in Entry, Len(entries) < MaxEntries, entries' = Append(entries, e)
      PROVE  entries' \in Seq(Entry) /\ Len(entries') <= MaxEntries
  <2>1. entries \in Seq(Entry) /\ Len(entries) \in Nat /\ MaxEntries \in Nat
    BY <1>2 DEF TypeOK, Assumptions
  <2>2. entries' \in Seq(Entry) /\ Len(entries') = Len(entries) + 1
    BY <1>3, <2>1, AppendFacts
  <2>3. QED
    BY <1>3, <2>1, <2>2
<1>4. ASSUME NEW e \in Entry, Len(entries) < MaxEntries, AcceptAllocate(e)
      PROVE  Tables'
  <2>1. /\ Accepts(e) /\ e.op = "Allocate" /\ entries' = Append(entries, e)
        /\ live_ids' = Append(live_ids, e.id) /\ live_' = live_ + 1
        /\ live_sizes' = [x \in DOMAIN live_sizes \cup {e.id} |->
                            IF x = e.id THEN e.size ELSE live_sizes[x]]
        /\ cur_live_bytes' = cur_live_bytes + e.size
        /\ error' = error
    BY <1>4 DEF AcceptAllocate, Accepts
  <2>2. e.id \in Nat \ {0} /\ e.size \in Nat
    BY <2>1 DEF Accepts, Malformed, Assumptions
  <2>3. ~ Listed(e.id)
    BY <2>1 DEF Accepts, Rejected, IsLive, Contains, Listed
  <2>4. /\ live_ids' \in Seq(Nat \ {0}) /\ Len(live_ids') = Len(live_ids) + 1
        /\ DOMAIN live_ids' = 1..(Len(live_ids) + 1)
        /\ live_ids'[Len(live_ids) + 1] = e.id
        /\ \A i \in 1..Len(live_ids) : live_ids'[i] = live_ids[i]
    BY <1>2, <2>1, <2>2 DEF TypeOK
  <2>5. IsInjective(live_ids')
    <3>1. \A i, j \in 1..Len(live_ids) : live_ids[i] = live_ids[j] => i = j
      BY <1>1 DEF IsInjective
    <3>2. \A i \in 1..Len(live_ids) : live_ids[i] # e.id
      BY <2>3 DEF Listed
    <3>3. QED
      BY SMTT(60), <1>1, <2>4, <3>1, <3>2 DEF IsInjective
  <2>6. DOMAIN live_sizes' = ToSet(live_ids')
    <3>1. DOMAIN live_sizes' = ToSet(live_ids) \cup {e.id}
      BY <1>2, <2>1
    <3>2. ToSet(live_ids') = ToSet(live_ids) \cup {e.id}
      BY SMTT(60), <1>1, <2>4 DEF ToSet
    <3>3. QED
      BY <3>1, <3>2
  <2>7. SumOf(live_sizes', DOMAIN live_sizes') = SumOf(live_sizes, DOMAIN live_sizes) + e.size
    <3> DEFINE f == live_sizes
               g == live_sizes'
               id == e.id
               size == e.size
    <3>1. /\ IsFiniteSet(DOMAIN f) /\ \A x \in DOMAIN f : f[x] \in Nat
          /\ id \notin DOMAIN f /\ size \in Nat
          /\ g = [x \in DOMAIN f \cup {id} |-> IF x = id THEN size ELSE f[x]]
      BY <1>1, <2>1, <2>2, <2>3
    <3> HIDE DEF f, g, id, size
    <3>2. SumOf(g, DOMAIN g) = SumOf(f, DOMAIN f) + size
      BY <3>1, SumExtended
    <3>3. QED
      BY <3>2 DEF f, g, size
  <2>8. TypeOK'
    <3>1. /\ DOMAIN live_sizes' \subseteq Nat \ {0}
          /\ \A x \in DOMAIN live_sizes' : live_sizes'[x] \in Nat
      BY <1>1, <1>2, <2>1, <2>2 DEF TypeOK
    <3>2. live_' \in Nat /\ cur_live_bytes' \in Nat
      BY <1>2, <2>1, <2>2 DEF TypeOK
    <3>3. QED
      BY <1>2, <1>3, <1>4, <2>1, <2>4, <3>1, <3>2 DEF TypeOK
  <2>9. QED
    BY <1>1, <2>1, <2>4, <2>5, <2>6, <2>7, <2>8 DEF Tables
<1>5. ASSUME NEW e \in Entry, Len(entries) < MaxEntries, AcceptFree(e)
      PROVE  Tables'
  <2>1. /\ Accepts(e) /\ e.op = "Free" /\ entries' = Append(entries, e)
        /\ live_ids' = SwapRemove(live_ids, PositionOf(e.id)) /\ live_' = live_ - 1
        /\ live_sizes' = [x \in DOMAIN live_sizes \ {e.id} |-> live_sizes[x]]
        /\ cur_live_bytes' = cur_live_bytes - live_sizes[e.id]
        /\ error' = error
    BY <1>5 DEF AcceptFree, Accepts
  <2>2. Listed(e.id)
    BY <2>1 DEF Accepts, Rejected, IsLive, Contains, Listed
  <2>3. /\ live_ids' \in Seq(Nat \ {0}) /\ IsInjective(live_ids')
        /\ Len(live_ids) > 0 /\ Len(live_ids') = Len(live_ids) - 1
        /\ ToSet(live_ids') = ToSet(live_ids) \ {e.id}
    BY <2>1, <2>2, TypedRemoval
  <2>4. DOMAIN live_sizes' = ToSet(live_ids')
    BY <1>2, <2>1, <2>3
  <2>5. /\ SumOf(live_sizes', DOMAIN live_sizes')
             = SumOf(live_sizes, DOMAIN live_sizes) - live_sizes[e.id]
        /\ SumOf(live_sizes', DOMAIN live_sizes') \in Nat
    BY <1>1, <2>1, <2>2, SumReduced
  <2>6. cur_live_bytes' = SumOf(live_sizes', DOMAIN live_sizes')
    BY <1>1, <2>1, <2>5
  <2>7. TypeOK'
    <3>1. /\ DOMAIN live_sizes' \subseteq Nat \ {0}
          /\ \A x \in DOMAIN live_sizes' : live_sizes'[x] \in Nat
      BY <1>1, <1>2, <2>1 DEF TypeOK
    <3>2. live_' \in Nat /\ live_' = Len(live_ids')
      BY <1>1, <2>1, <2>3
    <3>3. QED
      BY <1>2, <1>3, <1>5, <2>1, <2>3, <2>5, <2>6, <3>1, <3>2 DEF TypeOK
  <2>8. live_' = Len(live_ids')
    BY <1>1, <2>1, <2>3
  <2>9. QED
    BY <2>3, <2>4, <2>6, <2>7, <2>8 DEF Tables
<1>6. ASSUME NEW e \in Entry, Len(entries) < MaxEntries, AcceptReallocate(e)
      PROVE  Tables'
  <2>1. /\ Accepts(e) /\ e.op = "Reallocate" /\ entries' = Append(entries, e)
        /\ live_ids' = live_ids /\ live_' = live_
        /\ live_sizes' = [live_sizes EXCEPT ![e.id] = e.size]
        /\ cur_live_bytes' = cur_live_bytes - live_sizes[e.id] + e.size
        /\ error' = error
    BY <1>6 DEF AcceptReallocate, Accepts
  <2>2. Listed(e.id)
    BY <2>1 DEF Accepts, Rejected, IsLive, Contains, Listed
  <2>3. e.size \in Nat
    BY DEF Assumptions
  <2>4. /\ SumOf(live_sizes', DOMAIN live_sizes')
             = SumOf(live_sizes, DOMAIN live_sizes) - live_sizes[e.id] + e.size
        /\ SumOf(live_sizes', DOMAIN live_sizes') \in Nat
    <3> DEFINE f == live_sizes
               g == live_sizes'
               id == e.id
               size == e.size
    <3>1. /\ IsFiniteSet(DOMAIN f) /\ \A x \in DOMAIN f : f[x] \in Nat
          /\ id \in DOMAIN f /\ size \in Nat
          /\ g = [f EXCEPT ![id] = size]
      BY <1>1, <2>1, <2>2, <2>3
    <3> HIDE DEF f, g, id, size
    <3>2. /\ SumOf(g, DOMAIN g) = SumOf(f, DOMAIN f) - f[id] + size
          /\ SumOf(g, DOMAIN g) \in Nat
      BY <3>1, SumUpdated
    <3>3. QED
      BY <3>2 DEF f, g, id, size
  <2>5. /\ DOMAIN live_sizes' = DOMAIN live_sizes
        /\ \A x \in DOMAIN live_sizes' : live_sizes'[x] \in Nat
    BY <1>1, <2>1, <2>3
  <2>6. cur_live_bytes' = SumOf(live_sizes', DOMAIN live_sizes')
    BY <1>1, <2>1, <2>4
  <2>7. TypeOK'
    BY <1>2, <1>3, <1>6, <2>1, <2>4, <2>5, <2>6 DEF TypeOK
  <2>8. QED
    BY <1>1, <1>2, <2>1, <2>5, <2>6, <2>7 DEF Tables
<1>7. ASSUME NEW e \in Entry, Len(entries) < MaxEntries, AcceptOther(e) \/ Reject(e)
      PROVE  Tables'
  <2>1. /\ UNCHANGED tables /\ entries' = Append(entries, e)
        /\ error' \in {"ok", "trace_malformed", "trace_rejected"}
    BY <1>2, <1>7 DEF AcceptOther, Accepts, Reject, TypeOK
  <2>2. TypeOK'
    BY <1>2, <1>3, <1>7, <2>1 DEF TypeOK, tables
  <2>3. QED
    BY <2>1, <2>2 DEF Tables, tables
<1>8. CASE UNCHANGED tvars
  BY <1>8 DEF tvars, tables, Tables, TypeOK
<1>9. QED
  BY <1>4, <1>5, <1>6, <1>7, <1>8 DEF Next, Validate

(* The validator's table of live ids and the size table beside it follow   *)
(* the same live set (TablesAgree), and the byte count, unsigned in the    *)
(* code, never wraps, however long the trace is.                           *)
THEOREM ValidatorTablesAgree ==
  ASSUME Assumptions
  PROVE  Spec => []TablesAgree
<1>1. Init => Tables
  BY TablesInit
<1>2. Tables /\ [Next]_tvars => Tables'
  BY TablesStep
<1>3. QED
  BY <1>1, <1>2, TablesAreThat, PTL DEF Spec

-----------------------------------------------------------------------------
(* What sanitize_workload_config() leaves.                                 *)

LEMMA SanitizedFields ==
  ASSUME NEW in, Raw(in)
  PROVE  LET operations == IF in.operations = 0 THEN 1 ELSE in.operations
             target == IF in.live_target = 0 THEN DefaultTarget ELSE in.live_target
             wf == AtMost(in.warmup, Whole)
             cf == AtMost(in.cooldown, Whole)
             over == wf + cf > Whole
             c == Sanitized(in)
         IN /\ c.operations = operations
            /\ c.live_target = AtMost(target, operations)
            /\ c.min_size = IF in.min_size = 0 THEN 1 ELSE in.min_size
            /\ c.max_size = IF in.max_size < in.min_size THEN in.min_size ELSE in.max_size
            /\ c.warmup = IF over /\ wf >= cf THEN Whole - cf ELSE wf
            /\ c.cooldown = IF over /\ wf < cf THEN Whole - wf ELSE cf
            /\ c.realloc = AtMost(in.realloc, (9 * Whole) \div 10)
            /\ c.threads = Clamped(in.threads, 1, MaxThreads)
            /\ c.multimodal_peaks = in.multimodal_peaks
            /\ c.alignments = in.alignments
            /\ c.reuse = in.reuse
BY DEF Raw, Sanitized

(* sanitize_workload_config() keeps what its comments promise (Sane),      *)
(* whatever it is given: fractions that overlap or lie outside 0..1, no    *)
(* operations, no threads, bounds the wrong way round.                     *)
THEOREM SanitizedIsSane ==
  ASSUME Whole \in Nat \ {0}, NEW in, Raw(in)
  PROVE  Sane(in, Sanitized(in))
<1> DEFINE operations == IF in.operations = 0 THEN 1 ELSE in.operations
           target == IF in.live_target = 0 THEN DefaultTarget ELSE in.live_target
           wf == AtMost(in.warmup, Whole)
           cf == AtMost(in.cooldown, Whole)
           over == wf + cf > Whole
           c == Sanitized(in)
<1>1. /\ in.operations \in Nat /\ in.live_target \in Nat /\ in.threads \in Nat
      /\ in.min_size \in Nat /\ in.max_size \in Nat
      /\ in.warmup \in Int /\ in.cooldown \in Int /\ in.realloc \in Int
  BY DEF Raw
<1>2. /\ c.operations = operations
      /\ c.live_target = AtMost(target, operations)
      /\ c.min_size = IF in.min_size = 0 THEN 1 ELSE in.min_size
      /\ c.max_size = IF in.max_size < in.min_size THEN in.min_size ELSE in.max_size
      /\ c.warmup = IF over /\ wf >= cf THEN Whole - cf ELSE wf
      /\ c.cooldown = IF over /\ wf < cf THEN Whole - wf ELSE cf
      /\ c.realloc = AtMost(in.realloc, (9 * Whole) \div 10)
      /\ c.threads = Clamped(in.threads, 1, MaxThreads)
  BY SanitizedFields
<1> HIDE DEF c
<1>3. c.operations > 0 /\ c.live_target \in 1..c.operations
  BY <1>1, <1>2 DEF AtMost, Clamped, DefaultTarget
<1>4. {c.warmup, c.cooldown} \subseteq 0..Whole /\ c.warmup + c.cooldown <= Whole
  <2>1. wf \in 0..Whole /\ cf \in 0..Whole
    BY <1>1 DEF AtMost, Clamped
  <2> HIDE DEF wf, cf
  <2>2. QED
    BY <1>2, <2>1
<1>5. c.realloc \in 0..(Whole - 1)
  <2>1. /\ (9 * Whole) \div 10 \in Nat /\ (9 * Whole) % 10 \in Nat
        /\ 9 * Whole = 10 * ((9 * Whole) \div 10) + ((9 * Whole) % 10)
    BY DivMod
  <2>2. (9 * Whole) \div 10 < Whole
    BY <2>1
  <2>3. QED
    BY <1>1, <1>2, <2>1, <2>2 DEF AtMost, Clamped
<1>6. c.threads \in 1..MaxThreads
  <2>1. c.threads = Clamped(in.threads, 1, MaxThreads)
    BY <1>2
  <2>2. in.threads \in Int /\ MaxThreads \in Int /\ 1 <= MaxThreads
    BY <1>1 DEF MaxThreads
  <2>3. \A t \in Int : Clamped(t, 1, MaxThreads) \in 1..MaxThreads
    BY DEF Clamped, MaxThreads
  <2>4. QED
    BY <2>1, <2>2, <2>3
<1>7. c.min_size > 0 /\ (c.min_size <= c.max_size \/ (in.min_size = 0 /\ in.max_size = 0))
  BY <1>1, <1>2
<1>8. QED
  BY <1>3, <1>4, <1>5, <1>6, <1>7 DEF Sane, c

-----------------------------------------------------------------------------
(* The live set as a sequence v of records.                                *)

Distinct(v) == \A i, j \in 1..Len(v) : v[i].id = v[j].id => i = j

IdsOf(v) == [i \in 1..Len(v) |-> v[i].id]
SizesOf(v) == [x \in {v[i].id : i \in 1..Len(v)} |-> (CHOOSE r \in ToSet(v) : r.id = x).size]
TermsOf(v) == [i \in DOMAIN v |-> v[i].size]
BytesOf(v) == SumOf(TermsOf(v), DOMAIN TermsOf(v))

(* Where SwapRemove() of place p takes what it has at place j.             *)
From(p, n, j) == IF j = p THEN n ELSE j

LEMMA Removed ==
  ASSUME NEW R, NEW v \in Seq(R), NEW p \in 1..Len(v)
  PROVE  /\ SwapRemove(v, p) \in Seq(R) /\ Len(SwapRemove(v, p)) = Len(v) - 1
         /\ \A j \in 1..(Len(v) - 1) : SwapRemove(v, p)[j] = v[From(p, Len(v), j)]
         /\ \A j \in 1..(Len(v) - 1) : From(p, Len(v), j) \in (1..Len(v)) \ {p}
         /\ \A j, k \in 1..(Len(v) - 1) : From(p, Len(v), j) = From(p, Len(v), k) => j = k
         /\ \A k \in (1..Len(v)) \ {p} : \E j \in 1..(Len(v) - 1) : From(p, Len(v), j) = k
<1> DEFINE n == Len(v)
           w == SwapRemove(v, p)
<1>1. n \in Nat /\ n > 0 /\ n - 1 \in Nat /\ \A i \in 1..n : v[i] \in R
  OBVIOUS
<1>2. w \in [1..(n - 1) -> R] /\ \A j \in 1..(n - 1) : w[j] = v[From(p, n, j)]
  BY DEF SwapRemove, From
<1>3. w \in Seq(R) /\ Len(w) = n - 1
  BY <1>1, <1>2
<1>4. \A k \in (1..n) \ {p} : \E j \in 1..(n - 1) : From(p, n, j) = k
  <2>1. ASSUME NEW k \in (1..n) \ {p}
        PROVE  \E j \in 1..(n - 1) : From(p, n, j) = k
    <3>1. CASE k = n
      <4>1. p \in 1..(n - 1) /\ From(p, n, p) = k
        BY <1>1, <3>1 DEF From
      <4>2. QED
        BY <4>1
    <3>2. CASE k # n
      BY <1>1, <3>2 DEF From
    <3>3. QED
      BY <3>1, <3>2
  <2>2. QED
    BY <2>1
<1>5. /\ \A j \in 1..(n - 1) : From(p, n, j) \in (1..n) \ {p}
      /\ \A j, k \in 1..(n - 1) : From(p, n, j) = From(p, n, k) => j = k
  BY <1>1 DEF From
<1>6. QED
  BY <1>2, <1>3, <1>4, <1>5

(* With distinct ids, the table of sizes has the size of each record.      *)
LEMMA SizeAtId ==
  ASSUME NEW R, NEW v \in Seq(R), Distinct(v)
  PROVE  /\ DOMAIN SizesOf(v) = {v[i].id : i \in 1..Len(v)}
         /\ \A i \in 1..Len(v) : SizesOf(v)[v[i].id] = v[i].size
<1>1. DOMAIN SizesOf(v) = {v[i].id : i \in 1..Len(v)}
  BY DEF SizesOf
<1>2. ASSUME NEW i \in 1..Len(v)
      PROVE  SizesOf(v)[v[i].id] = v[i].size
  <2> DEFINE r == CHOOSE u \in ToSet(v) : u.id = v[i].id
  <2>1. v[i] \in ToSet(v)
    BY DEF ToSet
  <2>2. r \in ToSet(v) /\ r.id = v[i].id
    BY <2>1
  <2>3. PICK j \in 1..Len(v) : r = v[j]
    BY <2>2 DEF ToSet
  <2>4. j = i
    BY <2>2, <2>3 DEF Distinct
  <2>5. SizesOf(v)[v[i].id] = r.size
    BY DEF SizesOf
  <2>6. QED
    BY <2>3, <2>4, <2>5
<1>3. QED
  BY <1>1, <1>2

(* ... and is the only function that has.                                  *)
LEMMA SizesAre ==
  ASSUME NEW R, NEW v \in Seq(R), Distinct(v),
         NEW g, g = [x \in DOMAIN g |-> g[x]],
         DOMAIN g = {v[i].id : i \in 1..Len(v)},
         \A i \in 1..Len(v) : g[v[i].id] = v[i].size
  PROVE  SizesOf(v) = g
<1>1. DOMAIN SizesOf(v) = DOMAIN g
  BY SizeAtId
<1>2. ASSUME NEW x \in DOMAIN g
      PROVE  SizesOf(v)[x] = g[x]
  <2>1. PICK i \in 1..Len(v) : x = v[i].id
    OBVIOUS
  <2>2. SizesOf(v)[v[i].id] = v[i].size
    BY SizeAtId
  <2>3. QED
    BY <2>1, <2>2
<1>3. SizesOf(v) = [x \in DOMAIN SizesOf(v) |-> SizesOf(v)[x]]
  BY DEF SizesOf
<1>4. QED
  BY <1>1, <1>2, <1>3

-----------------------------------------------------------------------------
(* What the three operations do to the tables of the live set.             *)

Sized(R) == \A r \in R : r.id \in Nat /\ r.size \in Nat

LEMMA TermsTyped ==
  ASSUME NEW R, Sized(R), NEW v \in Seq(R)
  PROVE  /\ DOMAIN TermsOf(v) = 1..Len(v) /\ IsFiniteSet(1..Len(v))
         /\ \A i \in 1..Len(v) : TermsOf(v)[i] = v[i].size /\ TermsOf(v)[i] \in Nat
<1>1. DOMAIN v = 1..Len(v) /\ Len(v) \in Nat /\ \A i \in 1..Len(v) : v[i] \in R
  OBVIOUS
<1>2. IsFiniteSet(1..Len(v))
  BY <1>1, FS_Interval
<1>3. QED
  BY <1>1, <1>2 DEF TermsOf, Sized

Extended(f, x, y) == [z \in DOMAIN f \cup {x} |-> IF z = x THEN y ELSE f[z]]

LEMMA AfterAppend ==
  ASSUME NEW R, Sized(R), NEW v \in Seq(R), Distinct(v), NEW r \in R,
         \A i \in 1..Len(v) : v[i].id # r.id
  PROVE  /\ Distinct(Append(v, r))
         /\ IdsOf(Append(v, r)) = Append(IdsOf(v), r.id)
         /\ SizesOf(Append(v, r)) = Extended(SizesOf(v), r.id, r.size)
         /\ BytesOf(Append(v, r)) = BytesOf(v) + r.size
<1> DEFINE n == Len(v)
           w == Append(v, r)
           D == DOMAIN SizesOf(v) \cup {r.id}
           g == [x \in D |-> IF x = r.id THEN r.size ELSE SizesOf(v)[x]]
<1>1. /\ n \in Nat /\ w \in Seq(R) /\ Len(w) = n + 1 /\ w[n + 1] = r
      /\ \A i \in 1..n : w[i] = v[i] /\ v[i] \in R
  OBVIOUS
<1>2. 1..(n + 1) = (1..n) \cup {n + 1}
  BY <1>1
<1> HIDE DEF w
<1>3. Distinct(w)
  BY <1>1, <1>2 DEF Distinct
<1>4. IdsOf(w) = Append(IdsOf(v), r.id)
  <2>1. IdsOf(v) \in Seq(Nat) /\ Len(IdsOf(v)) = n /\ r.id \in Nat
    BY <1>1 DEF IdsOf, Sized
  <2>2. /\ Append(IdsOf(v), r.id) \in Seq(Nat) /\ Len(Append(IdsOf(v), r.id)) = n + 1
        /\ \A i \in 1..n : Append(IdsOf(v), r.id)[i] = IdsOf(v)[i]
        /\ Append(IdsOf(v), r.id)[n + 1] = r.id
    BY <2>1, <1>1
  <2>3. IdsOf(w) \in Seq(Nat) /\ Len(IdsOf(w)) = n + 1
    BY <1>1 DEF IdsOf, Sized
  <2>4. \A i \in 1..(n + 1) : IdsOf(w)[i] = Append(IdsOf(v), r.id)[i]
    BY <1>1, <1>2, <2>2 DEF IdsOf
  <2>5. QED
    BY <2>2, <2>3, <2>4
<1>5. SizesOf(w) = g
  <2>1. \A i \in 1..n : SizesOf(v)[v[i].id] = v[i].size
    BY SizeAtId
  <2>2. DOMAIN SizesOf(v) = {v[i].id : i \in 1..n}
    BY SizeAtId
  <2>3. D = {w[i].id : i \in 1..Len(w)}
    BY <1>1, <1>2, <2>2
  <2>4. \A i \in 1..Len(w) : g[w[i].id] = w[i].size
    BY <1>1, <1>2, <2>1, <2>3
  <2>5. g = [x \in DOMAIN g |-> g[x]] /\ DOMAIN g = D
    OBVIOUS
  <2> HIDE DEF D, g
  <2>6. QED
    BY <1>1, <1>3, <2>3, <2>4, <2>5, SizesAre
<1>6. BytesOf(w) = BytesOf(v) + r.size
  <2>1. /\ DOMAIN TermsOf(v) = 1..n /\ IsFiniteSet(1..n) /\ DOMAIN v = 1..n
        /\ \A i \in 1..n : TermsOf(v)[i] = v[i].size /\ TermsOf(v)[i] \in Nat
    BY TermsTyped
  <2>2. /\ DOMAIN TermsOf(w) = 1..(n + 1) /\ DOMAIN w = 1..(n + 1)
        /\ \A i \in 1..(n + 1) : TermsOf(w)[i] = w[i].size /\ TermsOf(w)[i] \in Nat
    BY <1>1, TermsTyped
  <2>3. SumOf(TermsOf(w), (1..n) \cup {n + 1}) = SumOf(TermsOf(w), 1..n) + TermsOf(w)[n + 1]
    BY <1>1, <1>2, <2>1, <2>2, SumAdd
  <2>4. SumOf(TermsOf(w), 1..n) = SumOf(TermsOf(v), 1..n)
    <3>1. \A i \in 1..n : TermsOf(w)[i] = TermsOf(v)[i]
      BY <1>1, <1>2, <2>1, <2>2
    <3> HIDE DEF n
    <3>2. QED
      BY <2>1, <3>1, SumSame
  <2>5. QED
    BY <1>1, <1>2, <2>1, <2>2, <2>3, <2>4 DEF BytesOf
<1>7. QED
  BY <1>3, <1>4, <1>5, <1>6 DEF w, g, D, Extended

LEMMA AfterRemove ==
  ASSUME NEW R, Sized(R), NEW v \in Seq(R), Distinct(v), NEW p \in 1..Len(v)
  PROVE  /\ Distinct(SwapRemove(v, p))
         /\ IdsOf(SwapRemove(v, p)) = SwapRemove(IdsOf(v), p)
         /\ SizesOf(SwapRemove(v, p)) = [x \in DOMAIN SizesOf(v) \ {v[p].id} |-> SizesOf(v)[x]]
         /\ BytesOf(SwapRemove(v, p)) = BytesOf(v) - v[p].size
<1> DEFINE n == Len(v)
           w == SwapRemove(v, p)
           g == [x \in DOMAIN SizesOf(v) \ {v[p].id} |-> SizesOf(v)[x]]
<1>1. /\ n \in Nat /\ n > 0 /\ n - 1 \in Nat /\ \A i \in 1..n : v[i] \in R
      /\ w \in Seq(R) /\ Len(w) = n - 1
      /\ \A j \in 1..(n - 1) : w[j] = v[From(p, n, j)]
      /\ \A j \in 1..(n - 1) : From(p, n, j) \in (1..n) \ {p}
      /\ \A j, k \in 1..(n - 1) : From(p, n, j) = From(p, n, k) => j = k
      /\ \A k \in (1..n) \ {p} : \E j \in 1..(n - 1) : From(p, n, j) = k
  BY Removed
<1>2. IdsOf(w) = SwapRemove(IdsOf(v), p)
  <2>1. Len(IdsOf(v)) = n /\ \A i \in 1..n : IdsOf(v)[i] = v[i].id
    BY <1>1 DEF IdsOf
  <2> HIDE DEF w
  <2>2. \A j \in 1..(n - 1) : w[j].id = IF j = p THEN IdsOf(v)[n] ELSE IdsOf(v)[j]
    BY <1>1, <2>1 DEF From
  <2>3. QED
    BY <1>1, <2>1, <2>2 DEF IdsOf, SwapRemove
<1> HIDE DEF w
<1>3. Distinct(w)
  <2>1. ASSUME NEW j \in 1..(n - 1), NEW k \in 1..(n - 1), w[j].id = w[k].id
        PROVE  j = k
    <3>1. /\ From(p, n, j) \in 1..n /\ w[j] = v[From(p, n, j)]
          /\ From(p, n, k) \in 1..n /\ w[k] = v[From(p, n, k)]
      BY <1>1
    <3>2. From(p, n, j) = From(p, n, k)
      BY <2>1, <3>1 DEF Distinct
    <3>3. QED
      BY <1>1, <3>2
  <2>2. QED
    BY <1>1, <2>1 DEF Distinct
<1>4. SizesOf(w) = g
  <2>1. /\ \A i \in 1..n : SizesOf(v)[v[i].id] = v[i].size
        /\ DOMAIN SizesOf(v) = {v[i].id : i \in 1..n}
    BY SizeAtId
  <2>2. DOMAIN g = {w[i].id : i \in 1..Len(w)}
    <3>1. ASSUME NEW x \in DOMAIN g
          PROVE  \E j \in 1..(n - 1) : w[j].id = x
      <4>1. PICK i \in 1..n : x = v[i].id
        BY <2>1
      <4>2. i # p
        BY <4>1
      <4>3. QED
        BY SMTT(60), <1>1, <4>1, <4>2
    <3>2. ASSUME NEW j \in 1..(n - 1)
          PROVE  w[j].id \in DOMAIN g
      <4>1. /\ From(p, n, j) \in 1..n /\ From(p, n, j) # p
            /\ w[j] = v[From(p, n, j)]
        BY <1>1
      <4>2. w[j].id # v[p].id
        BY <4>1 DEF Distinct
      <4>3. w[j].id \in DOMAIN SizesOf(v)
        BY <2>1, <4>1
      <4>4. QED
        BY <4>2, <4>3
    <3>3. Len(w) = n - 1
      BY <1>1
    <3> HIDE DEF g
    <3>4. QED
      BY <3>1, <3>2, <3>3
  <2>3. ASSUME NEW j \in 1..Len(w)
        PROVE  g[w[j].id] = w[j].size
    <3>1. /\ From(p, n, j) \in 1..n /\ w[j] = v[From(p, n, j)]
      BY <1>1
    <3>2. w[j].id \in DOMAIN g
      BY <2>2
    <3>3. g[w[j].id] = SizesOf(v)[w[j].id]
      BY <3>2
    <3>4. QED
      BY <2>1, <3>1, <3>3
  <2>4. g = [x \in DOMAIN g |-> g[x]]
    OBVIOUS
  <2>5. w \in Seq(R)
    BY <1>1
  <2> HIDE DEF g, n
  <2>6. QED
    BY <1>3, <2>2, <2>3, <2>4, <2>5, SizesAre
<1>5. BytesOf(w) = BytesOf(v) - v[p].size
  <2> DEFINE tv == TermsOf(v)
             tw == TermsOf(w)
             rest == (1..n) \ {p}
  <2>1. /\ DOMAIN tv = 1..n /\ IsFiniteSet(1..n)
        /\ \A i \in 1..n : tv[i] = v[i].size /\ tv[i] \in Nat
    BY TermsTyped
  <2>2. /\ DOMAIN tw = 1..(n - 1) /\ IsFiniteSet(1..(n - 1))
        /\ \A i \in 1..(n - 1) : tw[i] = w[i].size /\ tw[i] \in Nat
    BY <1>1, TermsTyped
  <2>3. BytesOf(v) = SumOf(tv, 1..n) /\ BytesOf(w) = SumOf(tw, 1..(n - 1))
    BY <2>1, <2>2 DEF BytesOf
  <2> HIDE DEF tv, tw
  <2>4. SumOf(tv, rest) \in Nat /\ SumOf(tv, 1..n) = SumOf(tv, rest) + tv[p]
    BY <2>1, SumRemove
  <2>5. SumOf(tw, 1..(n - 1)) = SumOf(tv, rest)
    <3>1. CASE p = n
      <4>1. rest = 1..(n - 1)
        BY <1>1, <3>1
      <4>2. ASSUME NEW i \in 1..(n - 1)
            PROVE  tw[i] = tv[i]
        <5>1. w[i] = v[i] /\ i \in 1..n
          BY <1>1, <3>1 DEF From
        <5>2. QED
          BY <2>1, <2>2, <5>1
      <4> HIDE DEF rest, n
      <4>3. QED
        BY <2>2, <4>1, <4>2, SumSame
    <3>2. CASE p # n
      <4> DEFINE others == (1..(n - 1)) \ {p}
      <4>1. /\ n \in rest /\ rest \ {n} = others /\ p \in 1..(n - 1)
            /\ \A i \in others : tw[i] = tv[i]
            /\ tw[p] = tv[n]
        <5>1. n \in rest /\ rest \ {n} = others /\ p \in 1..(n - 1) /\ n \in 1..n
          BY <1>1, <3>2
        <5>2. ASSUME NEW i \in others
              PROVE  tw[i] = tv[i]
          <6>1. w[i] = v[i] /\ i \in 1..n /\ i \in 1..(n - 1)
            BY <1>1 DEF From
          <6>2. QED
            BY <2>1, <2>2, <6>1
        <5>3. w[p] = v[n]
          BY <1>1, <5>1 DEF From
        <5>4. tw[p] = tv[n]
          BY <2>1, <2>2, <5>1, <5>3
        <5>5. QED
          BY <5>1, <5>2, <5>4
      <4>2. IsFiniteSet(rest) /\ IsFiniteSet(others)
        BY <2>1, <2>2, FS_RemoveElement
      <4>3. SumOf(tv, rest) = SumOf(tv, rest \ {n}) + tv[n]
        <5>1. \A i \in rest : tv[i] \in Nat
          BY <2>1
        <5> HIDE DEF rest
        <5>2. QED
          BY <4>1, <4>2, <5>1, SumRemove
      <4>4. SumOf(tw, 1..(n - 1)) = SumOf(tw, others) + tw[p]
        BY <2>2, <4>1, SumRemove
      <4> HIDE DEF others
      <4>5. SumOf(tw, others) = SumOf(tv, others)
        BY <4>1, <4>2, SumSame
      <4>6. QED
        BY <4>1, <4>3, <4>4, <4>5
    <3>3. QED
      BY <3>1, <3>2
  <2>6. tv[p] = v[p].size /\ tv[p] \in Nat
    BY <2>1
  <2>7. QED
    BY <2>3, <2>4, <2>5, <2>6
<1>6. QED
  BY <1>2, <1>3, <1>4, <1>5 DEF w, g

LEMMA AfterUpdate ==
  ASSUME NEW R, Sized(R), NEW v \in Seq(R), Distinct(v), NEW p \in 1..Len(v), NEW r \in R,
         r.id = v[p].id
  PROVE  /\ Distinct([v EXCEPT ![p] = r])
         /\ IdsOf([v EXCEPT ![p] = r]) = IdsOf(v)
         /\ SizesOf([v EXCEPT ![p] = r]) = [SizesOf(v) EXCEPT ![r.id] = r.size]
         /\ BytesOf([v EXCEPT ![p] = r]) = BytesOf(v) - v[p].size + r.size
<1> DEFINE n == Len(v)
           w == [v EXCEPT ![p] = r]
           g == [SizesOf(v) EXCEPT ![r.id] = r.size]
<1>1. /\ n \in Nat /\ DOMAIN v = 1..n /\ \A i \in 1..n : v[i] \in R
      /\ w \in Seq(R) /\ Len(w) = n /\ DOMAIN w = 1..n
      /\ \A i \in 1..n : w[i] = IF i = p THEN r ELSE v[i]
  OBVIOUS
<1> HIDE DEF w
<1>2. \A i \in 1..n : w[i].id = v[i].id
  BY <1>1
<1>3. Distinct(w) /\ IdsOf(w) = IdsOf(v)
  BY <1>1, <1>2 DEF Distinct, IdsOf
<1>4. SizesOf(w) = g
  <2>1. /\ \A i \in 1..n : SizesOf(v)[v[i].id] = v[i].size
        /\ DOMAIN SizesOf(v) = {v[i].id : i \in 1..n}
    BY SizeAtId
  <2>2. DOMAIN g = {w[i].id : i \in 1..Len(w)}
    BY <1>1, <1>2, <2>1
  <2>3. \A i \in 1..Len(w) : g[w[i].id] = w[i].size
    BY <1>1, <1>2, <2>1 DEF Distinct
  <2>4. g = [x \in DOMAIN g |-> g[x]]
    OBVIOUS
  <2> HIDE DEF g
  <2>5. QED
    BY <1>1, <1>3, <2>2, <2>3, <2>4, SizesAre
<1>5. BytesOf(w) = BytesOf(v) - v[p].size + r.size
  <2> DEFINE tv == TermsOf(v)
             tw == TermsOf(w)
             rest == (1..n) \ {p}
  <2>1. /\ DOMAIN tv = 1..n /\ IsFiniteSet(1..n)
        /\ \A i \in 1..n : tv[i] = v[i].size /\ tv[i] \in Nat
    BY TermsTyped
  <2>2. /\ DOMAIN tw = 1..n
        /\ \A i \in 1..n : tw[i] = w[i].size /\ tw[i] \in Nat
    BY <1>1, TermsTyped
  <2>3. BytesOf(v) = SumOf(tv, 1..n) /\ BytesOf(w) = SumOf(tw, 1..n)
    BY <2>1, <2>2 DEF BytesOf
  <2> HIDE DEF tv, tw
  <2>4. SumOf(tv, rest) \in Nat /\ SumOf(tv, 1..n) = SumOf(tv, rest) + tv[p]
    BY <2>1, SumRemove
  <2>5. SumOf(tw, 1..n) = SumOf(tw, rest) + tw[p]
    BY <2>1, <2>2, SumRemove
  <2>6. SumOf(tw, rest) = SumOf(tv, rest)
    <3>1. IsFiniteSet(rest) /\ \A i \in rest : tw[i] = tv[i]
      BY ZenonT(60), <1>1, <2>1, <2>2, FS_RemoveElement
    <3> HIDE DEF rest
    <3>2. QED
      BY <3>1, SumSame
  <2>7. tv[p] = v[p].size /\ tv[p] \in Nat /\ tw[p] = r.size /\ tw[p] \in Nat
    BY <1>1, <2>1, <2>2
  <2>8. QED
    BY <2>3, <2>4, <2>5, <2>6, <2>7
<1>6. QED
  BY <1>3, <1>4, <1>5 DEF w, g

(* PositionOf(id), the least place with id, where the ids are distinct.    *)
LEMMA PositionIs ==
  ASSUME NEW s \in Seq(Nat), NEW p \in 1..Len(s), \A i \in 1..Len(s) : s[i] = s[p] => i = p
  PROVE  SelectInSeq(s, LAMBDA x : x = s[p]) = p
<1> DEFINE I == {i \in 1..Len(s) : s[i] = s[p]}
<1>1. I = {p}
  OBVIOUS
<1>2. p \in Nat /\ I # {}
  BY <1>1
<1>3. Min(I) = p
  BY <1>1, <1>2 DEF Min
<1>4. QED
  BY <1>1, <1>2, <1>3 DEF SelectInSeq

-----------------------------------------------------------------------------
(* The values a configuration can draw.                                    *)

LEMMA MinOfTwo ==
  ASSUME NEW a \in Nat, NEW b \in Nat
  PROVE  Min({a, b}) \in Nat
<1>1. \E x \in {a, b} : \A y \in {a, b} : x <= y
  OBVIOUS
<1>2. Min({a, b}) \in {a, b}
  BY <1>1 DEF Min
<1>3. QED
  BY <1>2

LEMMA MaxIn ==
  ASSUME NEW T \in SUBSET Nat, T # {}, NEW m \in Nat, \A x \in T : x <= m
  PROVE  Max(T) \in T
<1> DEFINE Gaps == {m - x : x \in T}
<1>1. Gaps \in SUBSET Nat /\ Gaps # {}
  <2>1. ASSUME NEW x \in T PROVE m - x \in Nat
    OBVIOUS
  <2>2. PICK x \in T : TRUE
    OBVIOUS
  <2>3. m - x \in Gaps
    OBVIOUS
  <2>4. QED
    BY <2>1, <2>3
<1>2. PICK gap \in Gaps : \A y \in Gaps : gap <= y
  BY <1>1, NatMin
<1>3. PICK x \in T : gap = m - x
  OBVIOUS
<1>4. \A y \in T : x >= y
  BY <1>2, <1>3
<1>5. QED
  BY <1>4 DEF Max

LEMMA SizesDrawn ==
  ASSUME NEW c, c.min_size \in Nat, c.max_size \in Nat, c.multimodal_peaks \in Seq(Nat)
  PROVE  DrawnSizes(c) \subseteq Nat
<1> DEFINE lo == c.min_size
           hi == c.max_size
           n  == Len(c.size_histogram)
<1>1. Between(lo, hi) \subseteq Nat
  BY DEF Between, Below
<1>2. Clamps(lo, hi) \subseteq Nat /\ \A x \in Clamps(lo, hi) : x <= lo + hi
  BY DEF Clamps
<1>3. Min({lo, hi}) \in Nat /\ Min({lo, hi}) <= lo + hi
  <2>1. \E x \in {lo, hi} : \A y \in {lo, hi} : x <= y
    OBVIOUS
  <2>2. Min({lo, hi}) \in {lo, hi}
    BY <2>1 DEF Min
  <2>3. QED
    BY <2>2
<1>4. Min({hi, lo * 8 + 32}) \in Nat
  <2>1. hi \in Nat /\ lo * 8 + 32 \in Nat
    OBVIOUS
  <2>2. QED
    BY <2>1, MinOfTwo
<1>5. ASSUME NEW k \in Buckets(c.size_histogram)
      PROVE  SizeAt(k, n, lo, hi) \in Nat
  <2> DEFINE T == {s \in Clamps(lo, hi) : s^(n - 1) <= lo^(n - k) * hi^(k - 1)} \cup {Min({lo, hi})}
  <2>1. T \in SUBSET Nat /\ T # {} /\ \A x \in T : x <= lo + hi
    BY <1>2, <1>3
  <2>2. SizeAt(k, n, lo, hi) = Max(T)
    BY DEF SizeAt
  <2>3. lo + hi \in Nat
    OBVIOUS
  <2> HIDE DEF T
  <2>4. QED
    BY <2>1, <2>2, <2>3, MaxIn
<1>6. ToSet(c.multimodal_peaks) \subseteq Nat
  BY DEF ToSet
<1>7. QED
  BY <1>1, <1>2, <1>4, <1>5, <1>6 DEF DrawnSizes

Alignments == {0} \cup PowersOfTwo

LEMMA AlignmentsDrawn ==
  ASSUME AlignmentBits \in Nat, AlignmentBits > 12,
         NEW c, c.alignments \in Seq(Alignments), NEW size
  PROVE  DrawnAlignments(c, size) \subseteq Alignments
<1>1. ToSet(c.alignments) \subseteq Alignments
  BY DEF ToSet
<1>2. Pow2Choices \subseteq PowersOfTwo
  <2>1. ASSUME NEW k \in 3..9 \cup {12}
        PROVE  k \in 0..(AlignmentBits - 1)
    OBVIOUS
  <2>2. QED
    BY <2>1, Zenon DEF Pow2Choices, PowersOfTwo
<1>3. QED
  BY <1>1, <1>2 DEF DrawnAlignments, Alignments

Configured == cfg \in {Sanitized(c) : c \in Configs}

LEMMA ConfigFacts ==
  ASSUME GeneratorAssumptions, Configured
  PROVE  /\ ops \in Nat \ {0} /\ cfg.live_target \in 1..ops
         /\ cfg.warmup \in Nat /\ cfg.cooldown \in Nat
         /\ DrawnSizes(cfg) \subseteq Nat
         /\ \A size : DrawnAlignments(cfg, size) \subseteq Alignments
<1>1. PICK in \in Configs : cfg = Sanitized(in)
  BY DEF Configured
<1>2. Raw(in) /\ Whole \in Nat \ {0}
  BY DEF GeneratorAssumptions
<1>3. Sane(in, cfg)
  BY <1>1, <1>2, SanitizedIsSane
<1>4. /\ in.min_size \in Nat /\ in.max_size \in Nat
      /\ in.multimodal_peaks \in Seq(Nat) /\ in.alignments \in Seq({0} \cup PowersOfTwo)
      /\ in.operations \in Nat
  BY <1>2 DEF Raw
<1>5. ops \in Nat
  BY <1>1, <1>2, <1>4 DEF ops, Sanitized, Raw
<1>6. /\ cfg.min_size \in Nat /\ cfg.max_size \in Nat
      /\ cfg.multimodal_peaks \in Seq(Nat) /\ cfg.alignments \in Seq(Alignments)
  BY <1>1, <1>2, <1>4, SanitizedFields DEF Alignments
<1>7. DrawnSizes(cfg) \subseteq Nat
  BY <1>6, SizesDrawn
<1>8. \A size : DrawnAlignments(cfg, size) \subseteq Alignments
  BY <1>6, AlignmentsDrawn DEF GeneratorAssumptions
<1>9. QED
  BY <1>2, <1>3, <1>5, <1>7, <1>8 DEF Sane, ops

(* The profile never steers above the target of the run.                   *)
LEMMA TargetBounded ==
  ASSUME GeneratorAssumptions, Configured, step \in 0..ops
  PROVE  SteerTarget \in Nat /\ SteerTarget <= cfg.live_target
<1> DEFINE t == cfg.live_target
<1>1. /\ ops \in Nat /\ ops > 0 /\ t \in Nat /\ cfg.warmup \in Nat /\ cfg.cooldown \in Nat
      /\ Whole \in Nat /\ step \in Nat /\ ops - step \in Nat
  BY ConfigFacts DEF GeneratorAssumptions
<1> HIDE DEF t
<1>2. ASSUME NEW done \in Nat, NEW phase \in Nat, done * Whole < phase * ops
      PROVE  Share(done, phase) \in Nat /\ Share(done, phase) <= t
  <2> DEFINE a == done * Whole
             b == phase * ops
             q == (a * t) \div b
             r == (a * t) % b
  <2>1. a \in Nat /\ b \in Nat /\ b > 0 /\ a < b /\ a * t \in Nat
    BY <1>1, <1>2
  <2> HIDE DEF a, b
  <2>2. q \in Nat /\ r \in Nat /\ a * t = b * q + r
    BY <2>1, DivMod
  <2>3. a * t <= b * t
    BY <2>1, <1>1
  <2> HIDE DEF q, r
  <2>4. q <= t
    <3>1. SUFFICES ASSUME q >= t + 1 PROVE FALSE
      BY <1>1, <2>2
    <3>2. b * q >= b * (t + 1)
      BY <1>1, <2>1, <2>2, <3>1
    <3>3. b * (t + 1) = b * t + b
      BY <1>1, <2>1
    <3>4. b * q \in Nat /\ b * t \in Nat /\ b * (t + 1) \in Nat
      BY <1>1, <2>1, <2>2
    <3>5. QED
      BY <2>1, <2>2, <2>3, <3>2, <3>3, <3>4
  <2>5. QED
    BY <2>2, <2>4 DEF Share, q, a, b, t
<1>3. CASE step * Whole < cfg.warmup * ops
  BY <1>1, <1>2, <1>3 DEF SteerTarget, t
<1>4. CASE ~ (step * Whole < cfg.warmup * ops) /\ (ops - step) * Whole < cfg.cooldown * ops
  BY <1>1, <1>2, <1>4 DEF SteerTarget, t
<1>5. CASE ~ (step * Whole < cfg.warmup * ops) /\ ~ ((ops - step) * Whole < cfg.cooldown * ops)
  BY <1>1, <1>5 DEF SteerTarget, t
<1>6. QED
  BY <1>3, <1>4, <1>5

-----------------------------------------------------------------------------
(* The inductive invariant.                                                *)

(* A record of live, under the configuration of the run.                   *)
Records ==
  [id : Nat, size : DrawnSizes(cfg), alignment : Alignments, worker : Workers,
   free_step : {n + l : n \in Nat, l \in DrawnLifetimes(cfg)}]

Numbers == 1..(next_id - 1)

Shaped ==
  /\ Configured
  /\ step \in 0..ops
  /\ live \in Seq(Records) /\ Len(live) <= cfg.live_target + 1
  /\ \A i \in 1..Len(live) : live[i].alignment \in DrawnAlignments(cfg, live[i].size)
  /\ free_pool \in Seq(Nat)
  /\ next_id \in 1..(step + 1)
  /\ out \in Seq(WrittenEntry)

(* The ids given out so far are in live or in free_pool, once, and all of  *)
(* them are until the loop has ended.                                      *)
Numbered ==
  /\ Distinct(live)
  /\ \A i \in 1..Len(live) : live[i].id \in Numbers
  /\ \A j \in 1..Len(free_pool) : free_pool[j] \in Numbers
  /\ \A j, k \in 1..Len(free_pool) : free_pool[j] = free_pool[k] => j = k
  /\ \A i \in 1..Len(live), j \in 1..Len(free_pool) : live[i].id # free_pool[j]
  /\ Running => \A x \in Numbers : \/ \E i \in 1..Len(live) : live[i].id = x
                                   \/ \E j \in 1..Len(free_pool) : free_pool[j] = x

(* i is the last allocation of id among the first n entries of o.          *)
LastAt(o, i, n, id) ==
  /\ i \in 1..n
  /\ o[i].op = "Allocate" /\ o[i].id = id
  /\ \A j \in (i + 1)..n : ~ (o[j].op = "Allocate" /\ o[j].id = id)

Held(o, v) ==
  \A k \in 1..Len(v) :
    \E i \in 1..Len(o) : LastAt(o, i, Len(o), v[k].id) /\ o[i].worker = v[k].worker

Charged(o) ==
  \A n \in 1..Len(o) : o[n].op # "Allocate" =>
    \E i \in 1..(n - 1) : LastAt(o, i, n - 1, o[n].id) /\ o[i].worker = o[n].worker

GInv == Shaped /\ Numbered /\ Held(out, live) /\ Charged(out)

-----------------------------------------------------------------------------
(* One more entry in the trace.                                            *)

LEMMA LastAtAppend ==
  ASSUME NEW W, NEW o \in Seq(W), NEW e \in W, NEW n \in 0..Len(o), NEW i, NEW id
  PROVE  /\ LastAt(o, i, n, id) => LastAt(Append(o, e), i, n, id)
         /\ LastAt(o, i, Len(o), id) /\ ~ (e.op = "Allocate" /\ e.id = id)
              => LastAt(Append(o, e), i, Len(o) + 1, id)
         /\ e.op = "Allocate" /\ e.id = id
              => LastAt(Append(o, e), Len(o) + 1, Len(o) + 1, id)
<1> DEFINE N == Len(o)
           p == Append(o, e)
<1>1. /\ N \in Nat /\ p[N + 1] = e
      /\ \A j \in 1..N : p[j] = o[j]
  OBVIOUS
<1> HIDE DEF p
<1>2. LastAt(o, i, n, id) => LastAt(p, i, n, id)
  BY <1>1 DEF LastAt
<1>3. ASSUME LastAt(o, i, N, id), ~ (e.op = "Allocate" /\ e.id = id)
      PROVE  LastAt(p, i, N + 1, id)
  <2>1. /\ i \in 1..N /\ o[i].op = "Allocate" /\ o[i].id = id
        /\ \A j \in (i + 1)..N : ~ (o[j].op = "Allocate" /\ o[j].id = id)
    BY <1>3 DEF LastAt
  <2>2. ASSUME NEW j \in (i + 1)..(N + 1)
        PROVE  ~ (p[j].op = "Allocate" /\ p[j].id = id)
    <3>1. CASE j = N + 1
      BY <1>1, <1>3, <3>1
    <3>2. CASE j # N + 1
      <4>1. j \in (i + 1)..N /\ j \in 1..N
        BY <1>1, <2>1, <3>2
      <4>2. QED
        BY <1>1, <2>1, <4>1
    <3>3. QED
      BY <3>1, <3>2
  <2>3. i \in 1..(N + 1) /\ p[i].op = "Allocate" /\ p[i].id = id
    BY <1>1, <2>1
  <2>4. QED
    BY <2>2, <2>3 DEF LastAt
<1>4. e.op = "Allocate" /\ e.id = id => LastAt(p, N + 1, N + 1, id)
  BY <1>1 DEF LastAt
<1>5. QED
  BY <1>2, <1>3, <1>4 DEF p

LEMMA HeldAfter ==
  ASSUME NEW W, NEW o \in Seq(W), NEW e \in W, NEW v, NEW w, Held(o, v),
         \A k \in 1..Len(w) :
           \/ e.op = "Allocate" /\ e.id = w[k].id /\ e.worker = w[k].worker
           \/ /\ ~ (e.op = "Allocate" /\ e.id = w[k].id)
              /\ \E j \in 1..Len(v) : v[j].id = w[k].id /\ v[j].worker = w[k].worker
  PROVE  Held(Append(o, e), w)
<1> DEFINE N == Len(o)
           p == Append(o, e)
<1>1. /\ N \in Nat /\ Len(p) = N + 1 /\ p[N + 1] = e
      /\ \A j \in 1..N : p[j] = o[j]
  OBVIOUS
<1>2. ASSUME NEW k \in 1..Len(w)
      PROVE  \E i \in 1..(N + 1) :
               LastAt(p, i, N + 1, w[k].id) /\ p[i].worker = w[k].worker
  <2>1. CASE e.op = "Allocate" /\ e.id = w[k].id /\ e.worker = w[k].worker
    <3>1. LastAt(p, N + 1, N + 1, w[k].id)
      BY <1>1, <2>1, LastAtAppend
    <3>2. N + 1 \in 1..(N + 1) /\ p[N + 1].worker = w[k].worker
      BY <1>1, <2>1
    <3>3. QED
      BY <3>1, <3>2
  <2>2. CASE /\ ~ (e.op = "Allocate" /\ e.id = w[k].id)
             /\ \E j \in 1..Len(v) : v[j].id = w[k].id /\ v[j].worker = w[k].worker
    <3>1. PICK j \in 1..Len(v) : v[j].id = w[k].id /\ v[j].worker = w[k].worker
      BY <2>2
    <3>2. PICK i \in 1..N : LastAt(o, i, N, w[k].id) /\ o[i].worker = w[k].worker
      BY <3>1 DEF Held
    <3>3. LastAt(p, i, N + 1, w[k].id)
      BY <1>1, <2>2, <3>2, LastAtAppend
    <3>4. i \in 1..(N + 1) /\ p[i].worker = w[k].worker
      BY <1>1, <3>2
    <3>5. QED
      BY <3>3, <3>4
  <2>3. QED
    BY <2>1, <2>2
<1> HIDE DEF p
<1>3. QED
  BY <1>1, <1>2 DEF Held, p

LEMMA ChargedAfter ==
  ASSUME NEW W, NEW o \in Seq(W), NEW e \in W, NEW v, Held(o, v), Charged(o),
         e.op # "Allocate" =>
           \E j \in 1..Len(v) : v[j].id = e.id /\ v[j].worker = e.worker
  PROVE  Charged(Append(o, e))
<1> DEFINE N == Len(o)
           p == Append(o, e)
<1>1. /\ N \in Nat /\ Len(p) = N + 1 /\ p[N + 1] = e
      /\ \A j \in 1..N : p[j] = o[j]
  OBVIOUS
<1>2. ASSUME NEW n \in 1..(N + 1), p[n].op # "Allocate"
      PROVE  \E i \in 1..(n - 1) : LastAt(p, i, n - 1, p[n].id) /\ p[i].worker = p[n].worker
  <2>1. CASE n = N + 1
    <3>1. PICK j \in 1..Len(v) : v[j].id = e.id /\ v[j].worker = e.worker
      BY <1>1, <1>2, <2>1
    <3>2. PICK i \in 1..N : LastAt(o, i, N, e.id) /\ o[i].worker = e.worker
      BY <3>1 DEF Held
    <3>3. N \in 0..N /\ n - 1 = N /\ p[n] = e /\ p[i] = o[i]
      BY <1>1, <2>1
    <3>4. LastAt(p, i, N, e.id)
      BY <3>2, <3>3, LastAtAppend
    <3>5. QED
      BY <3>2, <3>3, <3>4
  <2>2. CASE n # N + 1
    <3>1. n \in 1..N /\ n - 1 \in 0..N /\ p[n] = o[n]
      BY <1>1, <2>2
    <3>2. PICK i \in 1..(n - 1) : LastAt(o, i, n - 1, o[n].id) /\ o[i].worker = o[n].worker
      BY <1>2, <3>1 DEF Charged
    <3>3. LastAt(p, i, n - 1, o[n].id)
      BY <3>1, <3>2, LastAtAppend
    <3>4. p[i] = o[i]
      BY <1>1, <3>1
    <3>5. QED
      BY <3>1, <3>2, <3>3, <3>4
  <2>3. QED
    BY <2>1, <2>2
<1> HIDE DEF p
<1>3. QED
  BY <1>1, <1>2 DEF Charged, p

LEMMA Written ==
  ASSUME Configured, NEW op \in {"Allocate", "Free", "Reallocate"}, NEW id \in 1..ops,
         NEW size \in DrawnSizes(cfg), NEW alignment \in DrawnAlignments(cfg, size),
         NEW worker \in Workers
  PROVE  [op |-> op, id |-> id, size |-> size, alignment |-> alignment, worker |-> worker]
           \in WrittenEntry
<1> DEFINE e == [op |-> op, id |-> id, size |-> size, alignment |-> alignment,
                 worker |-> worker]
<1>1. PICK c \in Configs : cfg = Sanitized(c)
  BY DEF Configured
<1>2. e \in [op : {"Allocate", "Free", "Reallocate"}, id : 1..cfg.operations, size : {size},
             alignment : DrawnAlignments(cfg, size), worker : 0..(cfg.threads - 1)]
  BY DEF ops, Workers
<1> HIDE DEF e
<1>3. e \in EntriesUnder(cfg)
  BY <1>2 DEF EntriesUnder
<1>4. e \in WrittenEntry
  BY <1>1, <1>3 DEF WrittenEntry
<1>5. QED
  BY <1>4 DEF e

-----------------------------------------------------------------------------
(* The steps.                                                              *)

LEMMA LastAndFront ==
  ASSUME NEW R, NEW s \in Seq(R), s # <<>>
  PROVE  /\ Len(s) \in Nat /\ Len(s) >= 1 /\ Last(s) = s[Len(s)]
         /\ Front(s) \in Seq(R) /\ Len(Front(s)) = Len(s) - 1
         /\ \A j \in 1..(Len(s) - 1) : Front(s)[j] = s[j]
         /\ Front(s) = SwapRemove(s, Len(s))
<1>1. Len(s) \in Nat /\ Len(s) >= 1 /\ Last(s) = s[Len(s)]
  BY DEF Last
<1>2. /\ Front(s) \in Seq(R) /\ Len(Front(s)) = Len(s) - 1
      /\ \A j \in 1..(Len(s) - 1) : Front(s)[j] = s[j]
  <2> DEFINE k == Len(s) - 1
             f == SubSeq(s, 1, k)
  <2>1. k \in Nat /\ (1 <= k \/ k = 0) /\ \A i \in 1..k : s[i] \in R
    <3>1. \A z \in Nat : z >= 1 =>
            z - 1 \in Nat /\ (1 <= z - 1 \/ z - 1 = 0) /\ \A i \in 1..(z - 1) : i \in 1..z
      OBVIOUS
    <3>2. \A i \in 1..Len(s) : s[i] \in R
      OBVIOUS
    <3>3. k \in Nat /\ (1 <= k \/ k = 0) /\ \A i \in 1..k : i \in 1..Len(s)
      BY <1>1, <3>1
    <3> HIDE DEF k
    <3>4. QED
      BY <3>2, <3>3
  <2>2. /\ f \in Seq(R) /\ Len(f) = IF 1 <= k THEN k - 1 + 1 ELSE 0
        /\ \A i \in 1..(k - 1 + 1) : f[i] = s[1 + i - 1]
    <3> HIDE DEF k
    <3>1. QED
      BY <2>1, SubSeqProperties
  <2>3. Front(s) = f
    BY DEF Front
  <2> HIDE DEF f
  <2>4. QED
    BY <1>1, <2>1, <2>2, <2>3
<1>3. Len(s) \in 1..Len(s)
  BY <1>1
<1>4. /\ SwapRemove(s, Len(s)) \in Seq(R) /\ Len(SwapRemove(s, Len(s))) = Len(s) - 1
      /\ \A j \in 1..(Len(s) - 1) : SwapRemove(s, Len(s))[j] = s[From(Len(s), Len(s), j)]
  BY <1>3, Removed
<1>5. \A j \in 1..(Len(s) - 1) : SwapRemove(s, Len(s))[j] = Front(s)[j]
  BY <1>1, <1>2, <1>4 DEF From
<1>6. QED
  BY <1>1, <1>2, <1>4, <1>5

(* The parts of the invariant that a step reads.                           *)
LEMMA Facts ==
  ASSUME GeneratorAssumptions, GInv
  PROVE  /\ ops \in Nat \ {0} /\ step \in 0..ops /\ cfg.live_target \in Nat
         /\ live \in Seq(Records) /\ Len(live) \in Nat /\ Sized(Records)
         /\ \A i \in 1..Len(live) : live[i] \in Records
         /\ Distinct(live)
         /\ free_pool \in Seq(Nat) /\ Len(free_pool) \in Nat
         /\ next_id \in 1..(step + 1) /\ step \in Nat /\ next_id \in Nat
         /\ \A x \in Numbers : x \in 1..ops
         /\ out \in Seq(WrittenEntry)
<1>1. Shaped /\ Numbered
  BY DEF GInv
<1>2. Configured
  BY <1>1 DEF Shaped
<1>3. ops \in Nat \ {0} /\ cfg.live_target \in Nat /\ DrawnSizes(cfg) \subseteq Nat
  BY <1>2, ConfigFacts
<1>4. Sized(Records)
  BY <1>3 DEF Sized, Records
<1>5. QED
  BY <1>1, <1>3, <1>4 DEF Shaped, Numbered, Numbers

LEMMA AllocateKeeps ==
  ASSUME GeneratorAssumptions, GInv,
         NEW size \in DrawnSizes(cfg), NEW lifetime \in DrawnLifetimes(cfg),
         NEW worker \in Workers, NEW alignment \in DrawnAlignments(cfg, size),
         NEW reuse \in BOOLEAN, Allocate(size, alignment, worker, lifetime, reuse)
  PROVE  GInv'
<1> DEFINE id == IF reuse THEN Last(free_pool) ELSE next_id
           r == [id |-> id, size |-> size, alignment |-> alignment,
                 worker |-> worker, free_step |-> step + lifetime]
           e == [op |-> "Allocate", id |-> id, size |-> size, alignment |-> alignment,
                 worker |-> worker]
           n == Len(live)
           m == Len(free_pool)
<1>1. /\ Running /\ MaySelect("Allocate")
      /\ reuse => free_pool # <<>>
      /\ free_pool' = IF reuse THEN Front(free_pool) ELSE free_pool
      /\ next_id' = IF reuse THEN next_id ELSE next_id + 1
      /\ live' = Append(live, r)
      /\ out' = Append(out, e)
      /\ step' = step + 1 /\ cfg' = cfg
  BY DEF Allocate, Record
<1>2. /\ ops \in Nat \ {0} /\ step \in 0..ops /\ cfg.live_target \in Nat
      /\ live \in Seq(Records) /\ n \in Nat /\ Sized(Records) /\ Distinct(live)
      /\ free_pool \in Seq(Nat) /\ m \in Nat
      /\ next_id \in 1..(step + 1) /\ step \in Nat /\ next_id \in Nat
      /\ \A x \in Numbers : x \in 1..ops
      /\ out \in Seq(WrittenEntry)
  BY Facts
<1>3. /\ Configured /\ n <= cfg.live_target + 1
      /\ \A i \in 1..n : live[i].alignment \in DrawnAlignments(cfg, live[i].size)
      /\ \A i \in 1..n : live[i].id \in Numbers
      /\ \A j \in 1..m : free_pool[j] \in Numbers
      /\ \A j, k \in 1..m : free_pool[j] = free_pool[k] => j = k
      /\ \A i \in 1..n, j \in 1..m : live[i].id # free_pool[j]
      /\ Running => \A x \in Numbers : \/ \E i \in 1..n : live[i].id = x
                                       \/ \E j \in 1..m : free_pool[j] = x
      /\ Held(out, live) /\ Charged(out)
  BY DEF GInv, Shaped, Numbered
<1>4. step + 1 \in 0..ops /\ ops' = ops /\ Workers' = Workers /\ Records' = Records
  BY <1>1, <1>2 DEF Running, ops, Workers, Records
<1>5. reuse => /\ m >= 1 /\ id = free_pool[m]
               /\ free_pool' \in Seq(Nat) /\ Len(free_pool') = m - 1
               /\ \A j \in 1..(m - 1) : free_pool'[j] = free_pool[j]
  BY <1>1, <1>2, LastAndFront
<1>6. /\ id \in 1..ops /\ id \in Nat /\ id \in Numbers' /\ Numbers' \subseteq Numbers \cup {id}
      /\ Numbers \subseteq Numbers'
      /\ \A i \in 1..n : live[i].id # id
  <2>1. CASE reuse
    BY SMTT(60), <1>1, <1>2, <1>3, <1>5, <2>1 DEF Numbers
  <2>2. CASE ~ reuse
    BY <1>1, <1>2, <1>3, <2>2 DEF Numbers, Running
  <2>3. QED
    BY <2>1, <2>2
<1> HIDE DEF id
<1>7. r \in Records /\ e \in WrittenEntry
  <2>1. alignment \in Alignments
    BY <1>3, ConfigFacts
  <2>2. r \in Records
    <3>1. step + lifetime \in {k + l : k \in Nat, l \in DrawnLifetimes(cfg)}
      BY <1>2
    <3>2. QED
      BY <1>6, <2>1, <3>1 DEF Records
  <2>3. e \in WrittenEntry
    BY <1>3, <1>6, Written
  <2>4. QED
    BY <2>2, <2>3
<1>8. /\ live' \in Seq(Records) /\ Len(live') = n + 1 /\ live'[n + 1] = r
      /\ \A i \in 1..n : live'[i] = live[i] /\ i \in 1..(n + 1)
      /\ \A i \in 1..(n + 1) : i = n + 1 \/ i \in 1..n
      /\ n + 1 \in 1..(n + 1)
      /\ live'[n + 1].id = id /\ live'[n + 1].worker = worker
  BY <1>1, <1>2, <1>7
<1> HIDE DEF r, n, m
<1>9. Shaped'
  <2>1. n + 1 <= cfg.live_target + 1
    <3>1. n = 0 \/ n <= SteerTarget
      BY <1>1 DEF MaySelect, n
    <3>2. SteerTarget \in Nat /\ SteerTarget <= cfg.live_target
      BY <1>2, <1>3, TargetBounded
    <3>3. QED
      BY <1>2, <3>1, <3>2
  <2>2. ASSUME NEW i \in 1..(n + 1)
        PROVE  live'[i].alignment \in DrawnAlignments(cfg, live'[i].size)
    <3>1. CASE i = n + 1
      BY <1>8, <3>1 DEF r
    <3>2. CASE i # n + 1
      BY <1>3, <1>8, <3>2
    <3>3. QED
      BY <3>1, <3>2
  <2>3. free_pool' \in Seq(Nat) /\ next_id' \in 1..((step + 1) + 1)
    BY <1>1, <1>2, <1>5
  <2>4. out' \in Seq(WrittenEntry)
    BY <1>1, <1>2, <1>7
  <2>5. Configured'
    BY <1>1, <1>3 DEF Configured
  <2>6. QED
    BY <1>1, <1>4, <1>8, <2>1, <2>2, <2>3, <2>4, <2>5 DEF Shaped
<1>10. Numbered'
  <2>1. Distinct(live')
    BY ZenonT(60), <1>1, <1>2, <1>6, <1>7, AfterAppend DEF r, n
  <2>2. \A i \in 1..(n + 1) : live'[i].id \in Numbers'
    BY <1>3, <1>6, <1>8
  <2>3. /\ Len(free_pool') \in Nat
        /\ \A j \in 1..Len(free_pool') : j \in 1..m /\ free_pool'[j] = free_pool[j]
    BY <1>1, <1>2, <1>5 DEF m
  <2>4. \A j \in 1..Len(free_pool') : free_pool'[j] \in Numbers'
    BY <1>3, <1>6, <2>3
  <2>5. \A j, k \in 1..Len(free_pool') : free_pool'[j] = free_pool'[k] => j = k
    BY <1>3, <2>3
  <2>6. \A j \in 1..Len(free_pool') : free_pool'[j] # id
    <3>1. CASE reuse
      BY SMTT(60), <1>2, <1>3, <1>5, <2>3, <3>1
    <3>2. CASE ~ reuse
      BY <1>2, <1>3, <2>3, <3>2 DEF Numbers, id
    <3>3. QED
      BY <3>1, <3>2
  <2>7. \A i \in 1..(n + 1), j \in 1..Len(free_pool') : live'[i].id # free_pool'[j]
    BY <1>3, <1>8, <2>3, <2>6
  <2>8. ASSUME NEW x \in Numbers'
        PROVE  \/ \E i \in 1..(n + 1) : live'[i].id = x
               \/ \E j \in 1..Len(free_pool') : free_pool'[j] = x
    <3>1. CASE x = id
      <4>1. n + 1 \in 1..(n + 1) /\ live'[n + 1].id = x
        BY <1>2, <1>8, <3>1
      <4>2. QED
        BY <4>1
    <3>2. CASE x # id
      <4>1. \/ \E i \in 1..n : live[i].id = x
            \/ \E j \in 1..m : free_pool[j] = x
        BY <1>1, <1>3, <1>6, <3>2
      <4>2. CASE \E i \in 1..n : live[i].id = x
        BY <1>2, <1>8, <4>2
      <4>3. CASE \E j \in 1..m : free_pool[j] = x
        <5>1. CASE reuse
          <6>1. PICK j \in 1..m : free_pool[j] = x
            BY <4>3
          <6>2. j \in 1..(m - 1)
            BY <1>2, <1>5, <3>2, <5>1, <6>1
          <6>3. QED
            BY <1>5, <5>1, <6>1, <6>2
        <5>2. CASE ~ reuse
          BY <1>1, <4>3, <5>2 DEF m
        <5>3. QED
          BY <5>1, <5>2
      <4>4. QED
        BY <4>1, <4>2, <4>3
    <3>3. QED
      BY <3>1, <3>2
  <2>9. QED
    BY <1>8, <2>1, <2>2, <2>4, <2>5, <2>7, <2>8 DEF Numbered
<1>11. Held(out', live') /\ Charged(out')
  <2>1. ASSUME NEW k \in 1..Len(live')
        PROVE  \/ e.op = "Allocate" /\ e.id = live'[k].id /\ e.worker = live'[k].worker
               \/ /\ ~ (e.op = "Allocate" /\ e.id = live'[k].id)
                  /\ \E j \in 1..n : live[j].id = live'[k].id /\ live[j].worker = live'[k].worker
    <3>1. CASE k = n + 1
      BY <1>8, <3>1
    <3>2. CASE k # n + 1
      <4>1. k \in 1..n /\ live'[k] = live[k]
        BY <1>2, <1>8, <3>2
      <4>2. QED
        BY <1>6, <4>1
    <3>3. QED
      BY <3>1, <3>2
  <2>2. e.op = "Allocate"
    OBVIOUS
  <2> HIDE DEF e
  <2>3. Held(out', live')
    <3>1. out \in Seq(WrittenEntry) /\ e \in WrittenEntry /\ Held(out, live)
      BY <1>2, <1>3, <1>7
    <3>2. Held(Append(out, e), live')
      BY <2>1, <3>1, HeldAfter DEF n
    <3>3. QED
      BY <1>1, <3>2
  <2>4. Charged(out')
    BY <1>1, <1>2, <1>3, <1>7, <2>2, ChargedAfter
  <2>5. QED
    BY <2>3, <2>4
<1>12. QED
  BY <1>9, <1>10, <1>11 DEF GInv

(* Free() and Release() drop place i of live and write down its free.      *)
Drop(i) ==
  /\ live' = SwapRemove(live, i)
  /\ Record("Free", live[i].id, live[i].size, live[i].alignment, live[i].worker)
  /\ UNCHANGED <<cfg, next_id>>
  /\ IF Running THEN step' = step + 1 /\ free_pool' = Append(free_pool, live[i].id)
     ELSE UNCHANGED <<step, free_pool>>

LEMMA DropKeeps ==
  ASSUME GeneratorAssumptions, GInv, NEW i \in 1..Len(live), Drop(i)
  PROVE  GInv'
<1> DEFINE e == [op |-> "Free", id |-> live[i].id, size |-> live[i].size,
                 alignment |-> live[i].alignment, worker |-> live[i].worker]
           n == Len(live)
           m == Len(free_pool)
<1>1. /\ live' = SwapRemove(live, i) /\ out' = Append(out, e)
      /\ cfg' = cfg /\ next_id' = next_id
      /\ Running => step' = step + 1 /\ free_pool' = Append(free_pool, live[i].id)
      /\ ~ Running => step' = step /\ free_pool' = free_pool
  BY DEF Record, Drop
<1>2. /\ ops \in Nat \ {0} /\ step \in 0..ops /\ cfg.live_target \in Nat
      /\ live \in Seq(Records) /\ n \in Nat /\ Sized(Records) /\ Distinct(live)
      /\ \A k \in 1..n : live[k] \in Records
      /\ free_pool \in Seq(Nat) /\ m \in Nat
      /\ next_id \in 1..(step + 1) /\ step \in Nat /\ next_id \in Nat
      /\ \A x \in Numbers : x \in 1..ops
      /\ out \in Seq(WrittenEntry)
  BY Facts
<1>3. /\ Configured /\ n <= cfg.live_target + 1
      /\ \A k \in 1..n : live[k].alignment \in DrawnAlignments(cfg, live[k].size)
      /\ \A k \in 1..n : live[k].id \in Numbers
      /\ \A j \in 1..m : free_pool[j] \in Numbers
      /\ \A j, k \in 1..m : free_pool[j] = free_pool[k] => j = k
      /\ \A k \in 1..n, j \in 1..m : live[k].id # free_pool[j]
      /\ Running => \A x \in Numbers : \/ \E k \in 1..n : live[k].id = x
                                       \/ \E j \in 1..m : free_pool[j] = x
      /\ Held(out, live) /\ Charged(out)
  BY DEF GInv, Shaped, Numbered
<1>4. step' \in 0..ops /\ step' >= step /\ ops' = ops /\ Workers' = Workers
        /\ Records' = Records /\ Numbers' = Numbers
  <2>1. step' \in 0..ops /\ step' >= step
    BY <1>1, <1>2 DEF Running
  <2>2. ops' = ops /\ Numbers' = Numbers
    BY <1>1 DEF ops, Numbers
  <2>3. Workers' = Workers
    BY <1>1 DEF Workers
  <2>4. Records' = Records
    BY <1>1, <2>3 DEF Records
  <2>5. QED
    BY <2>1, <2>2, <2>3, <2>4
<1>5. live[i].id \in Numbers /\ e \in WrittenEntry
  <2>1. /\ live[i].id \in 1..ops /\ live[i].size \in DrawnSizes(cfg)
        /\ live[i].alignment \in DrawnAlignments(cfg, live[i].size) /\ live[i].worker \in Workers
    BY <1>2, <1>3 DEF Records
  <2>2. QED
    BY <1>3, <2>1, Written
<1>6. /\ live' \in Seq(Records) /\ Len(live') = n - 1 /\ n - 1 \in Nat
      /\ \A j \in 1..(n - 1) :
           live'[j] = live[From(i, n, j)] /\ From(i, n, j) \in (1..n) \ {i}
      /\ \A k \in (1..n) \ {i} : \E j \in 1..(n - 1) : From(i, n, j) = k
  <2>1. live \in Seq(Records) /\ i \in 1..Len(live)
    BY <1>2
  <2>2. /\ SwapRemove(live, i) \in Seq(Records) /\ Len(SwapRemove(live, i)) = Len(live) - 1
        /\ \A j \in 1..(Len(live) - 1) : SwapRemove(live, i)[j] = live[From(i, Len(live), j)]
        /\ \A j \in 1..(Len(live) - 1) : From(i, Len(live), j) \in (1..Len(live)) \ {i}
        /\ \A k \in (1..Len(live)) \ {i} :
             \E j \in 1..(Len(live) - 1) : From(i, Len(live), j) = k
    BY ONLY <2>1, Removed
  <2>3. live' \in Seq(Records) /\ Len(live') = n - 1 /\ n - 1 \in Nat
    BY <1>1, <1>2, <2>2
  <2>4. \A j \in 1..(n - 1) :
          live'[j] = live[From(i, n, j)] /\ From(i, n, j) \in (1..n) \ {i}
    BY <1>1, <2>2
  <2>5. \A k \in (1..n) \ {i} : \E j \in 1..(n - 1) : From(i, n, j) = k
    BY <2>2
  <2>6. QED
    BY ONLY <2>3, <2>4, <2>5
<1>7. Distinct(live')
  BY <1>1, <1>2, AfterRemove
<1>8. /\ free_pool' \in Seq(Nat) /\ Len(free_pool') \in Nat
      /\ \A j \in 1..Len(free_pool') :
           \/ j \in 1..m /\ free_pool'[j] = free_pool[j]
           \/ j = m + 1 /\ free_pool'[j] = live[i].id
      /\ \A j \in 1..m : j \in 1..Len(free_pool') /\ free_pool'[j] = free_pool[j]
      /\ Running => m + 1 \in 1..Len(free_pool') /\ free_pool'[m + 1] = live[i].id
  <2>1. live[i].id \in Nat
    BY <1>2 DEF Sized
  <2>2. CASE Running
    <3>1. free_pool' = Append(free_pool, live[i].id)
      BY <1>1, <2>2
    <3>2. free_pool \in Seq(Nat) /\ m \in Nat
      BY <1>2
    <3>3. /\ free_pool' \in Seq(Nat) /\ Len(free_pool') = m + 1
          /\ \A j \in 1..m : free_pool'[j] = free_pool[j]
          /\ free_pool'[m + 1] = live[i].id
      BY <2>1, <3>1, <3>2
    <3> HIDE DEF m
    <3>4. /\ m + 1 \in Nat /\ m + 1 \in 1..(m + 1)
          /\ \A j \in 1..(m + 1) : j \in 1..m \/ j = m + 1
          /\ \A j \in 1..m : j \in 1..(m + 1)
      BY <3>2
    <3>5. QED
      BY <3>3, <3>4
  <2>3. CASE ~ Running
    <3>1. free_pool' = free_pool
      BY <1>1, <2>3
    <3>2. free_pool \in Seq(Nat) /\ m \in Nat
      BY <1>2
    <3>3. QED
      BY <2>3, <3>1, <3>2
  <2>4. QED
    BY <2>2, <2>3
<1> HIDE DEF n, m
<1>9. Shaped'
  <2>1. ASSUME NEW j \in 1..(n - 1)
        PROVE  live'[j].alignment \in DrawnAlignments(cfg, live'[j].size)
    <3>1. From(i, n, j) \in 1..n /\ live'[j] = live[From(i, n, j)]
      BY <1>6
    <3>2. QED
      BY <1>3, <3>1
  <2>2. n - 1 <= cfg.live_target + 1 /\ next_id' \in 1..(step' + 1)
    <3>1. n - 1 <= cfg.live_target + 1
      BY <1>2, <1>3
    <3>2. next_id' \in 1..(step' + 1)
      <4>1. step \in Nat /\ next_id \in 1..(step + 1)
        BY <1>2
      <4>2. step' \in Nat /\ step' >= step
        BY <1>2, <1>4
      <4>3. next_id' = next_id /\ next_id \in Nat
        BY <1>1, <1>2
      <4>4. \A k, a, b \in Nat : k \in 1..(a + 1) /\ b >= a => k \in 1..(b + 1)
        OBVIOUS
      <4>5. QED
        BY <4>1, <4>2, <4>3, <4>4
    <3>3. QED
      BY <3>1, <3>2
  <2>3. out' \in Seq(WrittenEntry)
    <3> HIDE DEF e
    <3>1. QED
      BY <1>1, <1>2, <1>5
  <2>4. Configured'
    BY <1>1, <1>3 DEF Configured
  <2>5. QED
    BY <1>1, <1>4, <1>6, <1>8, <2>1, <2>2, <2>3, <2>4 DEF Shaped
<1>10. Numbered'
  <2>1. \A j \in 1..(n - 1) : live'[j].id \in Numbers
    BY <1>3, <1>6
  <2>2. \A j \in 1..Len(free_pool') : free_pool'[j] \in Numbers
    BY <1>3, <1>5, <1>8
  <2>3. \A j \in 1..m : free_pool[j] # live[i].id
    BY <1>3 DEF n
  <2>4. \A j, k \in 1..Len(free_pool') : free_pool'[j] = free_pool'[k] => j = k
    BY <1>3, <1>8, <2>3
  <2>5. ASSUME NEW k \in 1..(n - 1), NEW j \in 1..Len(free_pool')
        PROVE  live'[k].id # free_pool'[j]
    <3>1. From(i, n, k) \in 1..n /\ From(i, n, k) # i /\ live'[k] = live[From(i, n, k)]
      BY <1>6
    <3>2. live'[k].id # live[i].id
      BY <1>2, <3>1 DEF Distinct, n
    <3>3. QED
      BY <1>3, <1>8, <3>1, <3>2
  <2>6. ASSUME Running, NEW x \in Numbers
        PROVE  \/ \E k \in 1..(n - 1) : live'[k].id = x
               \/ \E j \in 1..Len(free_pool') : free_pool'[j] = x
    <3>1. CASE x = live[i].id
      BY <1>8, <2>6, <3>1
    <3>2. CASE x # live[i].id /\ \E k \in 1..n : live[k].id = x
      <4>1. PICK k \in 1..n : live[k].id = x
        BY <3>2
      <4>2. k # i
        BY <3>2, <4>1
      <4>3. PICK j \in 1..(n - 1) : From(i, n, j) = k
        BY <1>6, <4>2
      <4>4. live'[j].id = x
        BY <1>6, <4>1, <4>3
      <4>5. QED
        BY <4>4
    <3>3. CASE \E j \in 1..m : free_pool[j] = x
      BY <1>8, <3>3
    <3>4. QED
      BY <1>3, <2>6, <3>1, <3>2, <3>3
  <2>7. Running' => Running
    BY <1>1, <1>2, <1>4 DEF Running
  <2>8. QED
    BY <1>4, <1>6, <1>7, <2>1, <2>2, <2>4, <2>5, <2>6, <2>7 DEF Numbered
<1>11. Held(out', live') /\ Charged(out')
  <2>1. e.op = "Free" /\ e.id = live[i].id /\ e.worker = live[i].worker
    OBVIOUS
  <2>2. out \in Seq(WrittenEntry) /\ e \in WrittenEntry /\ Held(out, live) /\ Charged(out)
    BY <1>2, <1>3, <1>5
  <2> HIDE DEF e
  <2>3. ASSUME NEW k \in 1..Len(live')
        PROVE  \/ e.op = "Allocate" /\ e.id = live'[k].id /\ e.worker = live'[k].worker
               \/ /\ ~ (e.op = "Allocate" /\ e.id = live'[k].id)
                  /\ \E j \in 1..Len(live) :
                       live[j].id = live'[k].id /\ live[j].worker = live'[k].worker
    BY <1>6, <2>1 DEF n
  <2>4. Held(Append(out, e), live')
    <3>1. out \in Seq(WrittenEntry) /\ e \in WrittenEntry /\ Held(out, live)
      BY <2>2
    <3>2. QED
      BY <2>3, <3>1, HeldAfter
  <2>5. Charged(Append(out, e))
    BY <2>1, <2>2, ChargedAfter
  <2>6. QED
    BY <1>1, <2>4, <2>5
<1>12. QED
  BY <1>9, <1>10, <1>11 DEF GInv

(* What Reallocate() puts in the place of the record it resizes.           *)
Resized(i, size, alignment) ==
  [id |-> live[i].id, size |-> size, alignment |-> alignment, worker |-> live[i].worker,
   free_step |-> live[i].free_step]

Resize(i, size, alignment) == [live EXCEPT ![i].size = size, ![i].alignment = alignment]

LEMMA ResizedLive ==
  ASSUME GeneratorAssumptions, GInv, NEW i \in 1..Len(live), NEW size \in DrawnSizes(cfg),
         NEW alignment \in DrawnAlignments(cfg, size)
  PROVE  /\ Resize(i, size, alignment) = [live EXCEPT ![i] = Resized(i, size, alignment)]
         /\ Resized(i, size, alignment) \in Records
<1>1. live \in Seq(Records) /\ live[i] \in Records /\ Configured
  BY Facts DEF GInv, Shaped
<1>2. DOMAIN live = 1..Len(live)
  BY <1>1
<1>3. alignment \in Alignments
  BY <1>1, ConfigFacts
<1>4. Resized(i, size, alignment) \in Records
  BY <1>1, <1>3 DEF Resized, Records
<1> DEFINE x == live[i]
           y == [x EXCEPT !.size = size]
           z == [y EXCEPT !.alignment = alignment]
<1>5. Resize(i, size, alignment) = [live EXCEPT ![i] = z]
  BY <1>2 DEF Resize
<1>6. z \in Records /\ z.id = x.id /\ z.size = size /\ z.alignment = alignment
        /\ z.worker = x.worker /\ z.free_step = x.free_step
  <2> HIDE DEF x
  <2>1. x \in Records
    BY <1>1 DEF x
  <2>2. y \in Records /\ y.id = x.id /\ y.size = size /\ y.worker = x.worker
          /\ y.free_step = x.free_step
    BY <2>1 DEF Records
  <2> HIDE DEF y
  <2>3. QED
    BY <1>3, <2>2 DEF Records
<1> HIDE DEF z
<1>7. z = Resized(i, size, alignment)
  <2>1. z = [id |-> z.id, size |-> z.size, alignment |-> z.alignment,
             worker |-> z.worker, free_step |-> z.free_step]
    BY <1>6 DEF Records
  <2>2. QED
    BY <1>6, <2>1 DEF Resized
<1>8. QED
  BY <1>4, <1>5, <1>7

LEMMA ReallocateKeeps ==
  ASSUME GeneratorAssumptions, GInv, NEW i \in 1..Len(live),
         NEW drawn \in DrawnSizes(cfg), NEW grow \in BOOLEAN,
         NEW alignment \in DrawnAlignments(cfg, NewSize(i, drawn, grow)),
         Reallocate(i, drawn, alignment, grow)
  PROVE  GInv'
<1> DEFINE size == NewSize(i, drawn, grow)
           r == Resized(i, size, alignment)
           e == [op |-> "Reallocate", id |-> live[i].id, size |-> size,
                 alignment |-> alignment, worker |-> live[i].worker]
           n == Len(live)
           m == Len(free_pool)
<1>1. /\ Running
      /\ live' = Resize(i, size, alignment)
      /\ out' = Append(out, e)
      /\ step' = step + 1 /\ cfg' = cfg /\ free_pool' = free_pool /\ next_id' = next_id
  BY DEF Reallocate, Record, Resize
<1>2. /\ ops \in Nat \ {0} /\ step \in 0..ops /\ cfg.live_target \in Nat
      /\ live \in Seq(Records) /\ n \in Nat /\ Sized(Records) /\ Distinct(live)
      /\ \A k \in 1..n : live[k] \in Records
      /\ next_id \in 1..(step + 1) /\ step \in Nat /\ next_id \in Nat
      /\ \A x \in Numbers : x \in 1..ops
      /\ out \in Seq(WrittenEntry)
  BY Facts
<1>3. /\ Configured /\ n <= cfg.live_target + 1 /\ free_pool \in Seq(Nat)
      /\ \A k \in 1..n : live[k].alignment \in DrawnAlignments(cfg, live[k].size)
      /\ \A k \in 1..n : live[k].id \in Numbers
      /\ \A j \in 1..m : free_pool[j] \in Numbers
      /\ \A j, k \in 1..m : free_pool[j] = free_pool[k] => j = k
      /\ \A k \in 1..n, j \in 1..m : live[k].id # free_pool[j]
      /\ Running => \A x \in Numbers : \/ \E k \in 1..n : live[k].id = x
                                       \/ \E j \in 1..m : free_pool[j] = x
      /\ Held(out, live) /\ Charged(out)
  BY DEF GInv, Shaped, Numbered
<1>4. step' \in 0..ops /\ ops' = ops /\ Workers' = Workers /\ Records' = Records
        /\ Numbers' = Numbers
  <2>1. step' \in 0..ops
    BY <1>1, <1>2 DEF Running
  <2>2. ops' = ops /\ Numbers' = Numbers
    BY <1>1 DEF ops, Numbers
  <2>3. Workers' = Workers
    BY <1>1 DEF Workers
  <2>4. Records' = Records
    BY <1>1, <2>3 DEF Records
  <2>5. QED
    BY <2>1, <2>2, <2>3, <2>4
<1>5. size \in DrawnSizes(cfg)
  BY <1>2 DEF NewSize, Records
<1>6. r \in Records /\ live' = [live EXCEPT ![i] = r]
  <2>1. size = NewSize(i, drawn, grow) /\ alignment \in DrawnAlignments(cfg, size)
    OBVIOUS
  <2> HIDE DEF size
  <2>2. /\ Resize(i, size, alignment) = [live EXCEPT ![i] = r]
        /\ r \in Records
    BY <1>5, <2>1, ResizedLive
  <2>3. QED
    BY <1>1, <2>2
<1>7. r.id = live[i].id /\ r.worker = live[i].worker /\ r.size = size /\ r.alignment = alignment
  BY DEF Resized
<1> HIDE DEF r
<1>8. /\ live' \in Seq(Records) /\ Len(live') = n
      /\ \A k \in 1..n : live'[k] = IF k = i THEN r ELSE live[k]
      /\ \A k \in 1..n : live'[k].id = live[k].id /\ live'[k].worker = live[k].worker
  <2>1. /\ live' \in Seq(Records) /\ Len(live') = n
        /\ \A k \in 1..n : live'[k] = IF k = i THEN r ELSE live[k]
    BY <1>2, <1>6
  <2>2. QED
    BY <1>7, <2>1
<1> HIDE DEF size
<1>9. e \in WrittenEntry
  <2>1. live[i].id \in 1..ops /\ live[i].worker \in Workers
    BY <1>2, <1>3 DEF Records
  <2>2. QED
    BY <1>3, <1>5, <2>1, Written DEF size
<1>10. Shaped'
  <2>1. ASSUME NEW k \in 1..n
        PROVE  live'[k].alignment \in DrawnAlignments(cfg, live'[k].size)
    <3>1. CASE k = i
      BY <1>7, <1>8, <3>1 DEF size
    <3>2. CASE k # i
      BY <1>3, <1>8, <3>2
    <3>3. QED
      BY <3>1, <3>2
  <2>2. next_id' \in 1..(step' + 1)
    BY <1>1, <1>2
  <2>3. out' \in Seq(WrittenEntry)
    <3> HIDE DEF e
    <3>1. QED
      BY <1>1, <1>2, <1>9
  <2>4. Configured'
    BY <1>1, <1>3 DEF Configured
  <2>5. QED
    BY <1>1, <1>3, <1>4, <1>8, <2>1, <2>2, <2>3, <2>4 DEF Shaped
<1>11. Numbered'
  <2>1. Distinct(live')
    BY <1>2, <1>8 DEF Distinct
  <2>2. \A k \in 1..n : live'[k].id \in Numbers
    BY <1>3, <1>8
  <2>3. \A k \in 1..n, j \in 1..m : live'[k].id # free_pool[j]
    BY <1>3, <1>8
  <2>4. Running => \A x \in Numbers : \/ \E k \in 1..n : live'[k].id = x
                                      \/ \E j \in 1..m : free_pool[j] = x
    BY <1>3, <1>8
  <2>5. Len(live') = n /\ m = Len(free_pool') /\ free_pool' = free_pool
    BY <1>1, <1>8
  <2>6. /\ \A j \in 1..m : free_pool[j] \in Numbers
        /\ \A j, k \in 1..m : free_pool[j] = free_pool[k] => j = k
    BY <1>3
  <2> HIDE DEF n, m
  <2>7. QED
    BY <1>1, <1>4, <2>1, <2>2, <2>3, <2>4, <2>5, <2>6, SMTT(30) DEF Numbered
<1>12. Held(out', live') /\ Charged(out')
  <2>1. e.op = "Reallocate" /\ e.id = live[i].id /\ e.worker = live[i].worker
    OBVIOUS
  <2>2. out \in Seq(WrittenEntry) /\ e \in WrittenEntry /\ Held(out, live) /\ Charged(out)
    BY <1>2, <1>3, <1>9
  <2> HIDE DEF e
  <2>3. ASSUME NEW k \in 1..Len(live')
        PROVE  \/ e.op = "Allocate" /\ e.id = live'[k].id /\ e.worker = live'[k].worker
               \/ /\ ~ (e.op = "Allocate" /\ e.id = live'[k].id)
                  /\ \E j \in 1..Len(live) :
                       live[j].id = live'[k].id /\ live[j].worker = live'[k].worker
    BY <1>8, <2>1
  <2>4. Held(Append(out, e), live')
    <3>1. out \in Seq(WrittenEntry) /\ e \in WrittenEntry /\ Held(out, live)
      BY <2>2
    <3>2. QED
      BY <2>3, <3>1, HeldAfter
  <2>5. Charged(Append(out, e))
    BY <2>1, <2>2, ChargedAfter
  <2>6. QED
    BY <1>1, <2>4, <2>5
<1>13. QED
  BY <1>10, <1>11, <1>12 DEF GInv

-----------------------------------------------------------------------------
(* The theorems.                                                           *)

LEMMA GInvInit ==
  ASSUME GeneratorAssumptions, GeneratorInit
  PROVE  GInv
<1>1. /\ Configured /\ step = 0 /\ live = <<>> /\ free_pool = <<>> /\ next_id = 1 /\ out = <<>>
  BY DEF GeneratorInit, Configured
<1>2. ops \in Nat \ {0} /\ cfg.live_target \in Nat
  BY <1>1, ConfigFacts
<1>3. Len(live) = 0 /\ Len(free_pool) = 0 /\ Len(out) = 0
  BY <1>1
<1>4. Shaped
  BY <1>1, <1>2, <1>3 DEF Shaped
<1>5. Numbered
  <2>1. Numbers = {}
    BY <1>1 DEF Numbers
  <2>2. QED
    BY <1>3, <2>1 DEF Numbered, Distinct
<1>6. Held(out, live) /\ Charged(out)
  BY <1>3 DEF Held, Charged
<1>7. QED
  BY <1>4, <1>5, <1>6 DEF GInv

(* Release() drops the last place of live.                                 *)
LEMMA ReleaseDrops ==
  ASSUME GeneratorAssumptions, GInv, Release
  PROVE  Len(live) \in 1..Len(live) /\ Drop(Len(live)) /\ live # <<>>
<1>1. /\ ~ Running /\ live # <<>> /\ live' = Front(live)
      /\ Record("Free", Last(live).id, Last(live).size, Last(live).alignment, Last(live).worker)
      /\ UNCHANGED <<cfg, step, free_pool, next_id>>
  BY DEF Release
<1>2. live \in Seq(Records)
  BY Facts
<1>3. /\ Len(live) \in Nat /\ Len(live) >= 1 /\ Last(live) = live[Len(live)]
      /\ Front(live) = SwapRemove(live, Len(live))
  BY <1>1, <1>2, LastAndFront
<1>4. QED
  BY <1>1, <1>3 DEF Drop

LEMMA FreeDrops ==
  ASSUME NEW i \in 1..Len(live), Free(i)
  PROVE  Drop(i)
BY DEF Free, Drop

LEMMA GInvNext ==
  ASSUME GeneratorAssumptions, GInv, [GeneratorNext]_gvars
  PROVE  GInv'
<1>1. CASE UNCHANGED gvars
  <2>1. /\ cfg' = cfg /\ step' = step /\ live' = live /\ free_pool' = free_pool
        /\ next_id' = next_id /\ out' = out
    BY <1>1 DEF gvars
  <2>2. ops' = ops /\ Workers' = Workers /\ Numbers' = Numbers
    BY <2>1 DEF ops, Workers, Numbers
  <2>3. Records' = Records /\ Running' = Running /\ Configured' = Configured
    BY <2>1, <2>2 DEF Records, Running, Configured
  <2>4. Shaped' /\ Numbered'
    BY <2>1, <2>2, <2>3 DEF GInv, Shaped, Numbered
  <2>5. QED
    BY <2>1, <2>4 DEF GInv
<1>2. ASSUME NEW size \in DrawnSizes(cfg), NEW lifetime \in DrawnLifetimes(cfg),
             NEW worker \in Workers, NEW alignment \in DrawnAlignments(cfg, size),
             NEW reuse \in BOOLEAN, Allocate(size, alignment, worker, lifetime, reuse)
      PROVE  GInv'
  BY <1>2, AllocateKeeps
<1>3. ASSUME NEW i \in 1..Len(live), Free(i)
      PROVE  GInv'
  BY <1>3, FreeDrops, DropKeeps
<1>4. ASSUME NEW i \in 1..Len(live), NEW drawn \in DrawnSizes(cfg), NEW grow \in BOOLEAN,
             NEW alignment \in DrawnAlignments(cfg, NewSize(i, drawn, grow)),
             Reallocate(i, drawn, alignment, grow)
      PROVE  GInv'
  BY <1>4, ReallocateKeeps
<1>5. CASE Release
  BY <1>5, ReleaseDrops, DropKeeps
<1>6. QED
  BY <1>1, <1>2, <1>3, <1>4, <1>5 DEF GeneratorNext

LEMMA GeneratorInvariant ==
  ASSUME GeneratorAssumptions
  PROVE  GeneratorSpec => []GInv
<1>1. GeneratorInit => GInv
  BY GInvInit
<1>2. GInv /\ [GeneratorNext]_gvars => GInv'
  BY GInvNext
<1>3. QED
  BY <1>1, <1>2, PTL DEF GeneratorSpec

LEMMA GInvPartitions ==
  ASSUME GeneratorAssumptions, GInv
  PROVE  IdsPartitioned
<1> DEFINE n == Len(live)
           m == Len(free_pool)
           ids == LiveIds \o free_pool
<1>1. /\ ops \in Nat \ {0} /\ step \in 0..ops /\ cfg.live_target \in Nat
      /\ live \in Seq(Records) /\ n \in Nat /\ Sized(Records) /\ Distinct(live)
      /\ \A k \in 1..n : live[k] \in Records
      /\ free_pool \in Seq(Nat) /\ m \in Nat
      /\ next_id \in 1..(step + 1)
  BY Facts
<1>2. Shaped /\ Numbered
  BY DEF GInv
<1>3. GeneratorTypeOK
  <2>1. DOMAIN live = 1..n
    BY <1>1
  <2>2. \A i \in 1..n : /\ live[i].size \in DrawnSizes(cfg) /\ live[i].worker \in Workers
                        /\ live[i].alignment \in DrawnAlignments(cfg, live[i].size)
    BY SMTT(60), <1>1, <1>2 DEF Shaped, Records
  <2>3. next_id \in 1..(ops + 1)
    BY <1>1
  <2>4. out \in Seq(WrittenEntry)
    BY <1>2 DEF Shaped
  <2>5. QED
    BY <1>1, <2>1, <2>2, <2>3, <2>4 DEF GeneratorTypeOK
<1>4. LiveIds \in Seq(Nat) /\ Len(LiveIds) = n /\ \A i \in 1..n : LiveIds[i] = live[i].id
  BY <1>1 DEF LiveIds, Sized
<1>5. /\ ids \in Seq(Nat) /\ Len(ids) = n + m
      /\ \A i \in 1..n : ids[i] = live[i].id
      /\ \A j \in 1..m : ids[n + j] = free_pool[j]
  <2>1. LiveIds \in Seq(Nat) /\ free_pool \in Seq(Nat) /\ Len(LiveIds) = n
    BY <1>1, <1>4
  <2>2. /\ ids \in Seq(Nat) /\ Len(ids) = n + m
        /\ \A i \in 1..n : ids[i] = LiveIds[i]
        /\ \A j \in 1..m : ids[n + j] = free_pool[j]
    <3>1. ids \in Seq(Nat) /\ Len(ids) = n + m
      BY <2>1
    <3>2. \A i \in 1..n : ids[i] = LiveIds[i]
      BY <2>1
    <3>3. \A j \in 1..m : ids[n + j] = free_pool[j]
      BY <2>1
    <3>4. QED
      BY <3>1, <3>2, <3>3
  <2>3. QED
    BY <1>4, <2>2
<1>6. /\ n + m \in Nat /\ DOMAIN ids = 1..(n + m)
      /\ \A k \in 1..(n + m) : k \in 1..n \/ \E j \in 1..m : k = n + j
      /\ \A k \in 1..n : k \in 1..(n + m)
      /\ \A j \in 1..m : n + j \in 1..(n + m)
  <2>1. n + m \in Nat /\ DOMAIN ids = 1..(n + m)
    BY <1>1, <1>5
  <2>2. ASSUME NEW k \in 1..(n + m), k \notin 1..n
        PROVE  \E j \in 1..m : k = n + j
    <3>1. k - n \in 1..m /\ k = n + (k - n)
      BY <1>1, <2>2
    <3>2. QED
      BY <3>1
  <2>3. /\ \A k \in 1..n : k \in 1..(n + m)
        /\ \A j \in 1..m : n + j \in 1..(n + m)
    BY <1>1
  <2>4. QED
    BY <2>1, <2>2, <2>3
<1>7. /\ \A i \in 1..n : live[i].id \in Numbers
      /\ \A j \in 1..m : free_pool[j] \in Numbers
      /\ \A j, k \in 1..m : free_pool[j] = free_pool[k] => j = k
      /\ \A i \in 1..n, j \in 1..m : live[i].id # free_pool[j]
      /\ \A i, k \in 1..n : live[i].id = live[k].id => i = k
      /\ Running => \A x \in Numbers : \/ \E i \in 1..n : live[i].id = x
                                       \/ \E j \in 1..m : free_pool[j] = x
  BY <1>2 DEF Numbered, Distinct
<1> HIDE DEF n, m, ids
<1>8. IsInjective(ids)
  <2>1. ASSUME NEW a \in 1..(n + m), NEW b \in 1..(n + m), ids[a] = ids[b]
        PROVE  a = b
    <3>1. CASE a \in 1..n /\ b \in 1..n
      BY <1>5, <1>7, <2>1, <3>1
    <3>2. CASE \E j \in 1..m, k \in 1..m : a = n + j /\ b = n + k
      BY <1>5, <1>7, <2>1, <3>2
    <3>3. CASE a \in 1..n /\ \E k \in 1..m : b = n + k
      BY <1>5, <1>7, <2>1, <3>3
    <3>4. CASE b \in 1..n /\ \E k \in 1..m : a = n + k
      BY <1>5, <1>7, <2>1, <3>4
    <3>5. QED
      BY <1>6, <3>1, <3>2, <3>3, <3>4
  <2>2. QED
    BY <1>6, <2>1 DEF IsInjective
<1>9. ASSUME Running
      PROVE  ToSet(ids) = 1..(next_id - 1)
  <2>1. ASSUME NEW k \in 1..(n + m)
        PROVE  ids[k] \in Numbers
    <3>1. CASE k \in 1..n
      BY <1>5, <1>7, <3>1
    <3>2. CASE \E j \in 1..m : k = n + j
      BY <1>5, <1>7, <3>2
    <3>3. QED
      BY <1>6, <3>1, <3>2
  <2>2. ASSUME NEW x \in Numbers
        PROVE  \E k \in 1..(n + m) : ids[k] = x
    BY <1>5, <1>6, <1>7, <1>9
  <2>3. ToSet(ids) = Numbers
    BY <1>6, <2>1, <2>2 DEF ToSet
  <2>4. QED
    BY <2>3 DEF Numbers
<1>10. n <= cfg.live_target + 1
  BY <1>2 DEF Shaped, n
<1>11. QED
  BY <1>3, <1>8, <1>9, <1>10 DEF IdsPartitioned, LiveIds, ids, n

LEMMA GInvOwners ==
  ASSUME GeneratorAssumptions, GInv
  PROVE  OwnerFrees
<1>1. ASSUME NEW n \in 1..Len(out), out[n].op # "Allocate"
      PROVE  out[LastAllocation(n)].worker = out[n].worker
  <2>1. n \in Nat /\ n - 1 \in Nat
    BY Facts
  <2>2. PICK i \in 1..(n - 1) : LastAt(out, i, n - 1, out[n].id) /\ out[i].worker = out[n].worker
    BY <1>1 DEF GInv, Charged
  <2> DEFINE IsLast(k) == /\ out[k].op = "Allocate" /\ out[k].id = out[n].id
                          /\ \A j \in (k + 1)..(n - 1) :
                               ~ (out[j].op = "Allocate" /\ out[j].id = out[n].id)
  <2>3. IsLast(i)
    BY <2>2 DEF LastAt
  <2>4. ASSUME NEW k \in 1..(n - 1), IsLast(k)
        PROVE  k = i
    <3>1. ~ (i \in (k + 1)..(n - 1)) /\ ~ (k \in (i + 1)..(n - 1))
      BY <2>3, <2>4
    <3>2. QED
      BY <2>1, <3>1
  <2>5. LastAllocation(n) = CHOOSE k \in 1..(n - 1) : IsLast(k)
    BY DEF LastAllocation
  <2> HIDE DEF IsLast
  <2>6. LastAllocation(n) = i
    BY <2>3, <2>4, <2>5
  <2>7. QED
    BY <2>2, <2>6
<1>2. QED
  BY <1>1 DEF OwnerFrees

(* The ids of the generator stay distinct: every id it has given out so    *)
(* far is live or free to be reused, never both; and the live set is never *)
(* more than one over the target of the run.                               *)
THEOREM GeneratorIdsPartitioned ==
  ASSUME GeneratorAssumptions
  PROVE  GeneratorSpec => []IdsPartitioned
<1>1. GInv => IdsPartitioned
  BY GInvPartitions
<1>2. QED
  BY <1>1, GeneratorInvariant, PTL

(* Every free and reallocation is written for the worker that allocated.   *)
THEOREM GeneratorOwnerFrees ==
  ASSUME GeneratorAssumptions
  PROVE  GeneratorSpec => []OwnerFrees
<1>1. GInv => OwnerFrees
  BY GInvOwners
<1>2. QED
  BY <1>1, GeneratorInvariant, PTL

-----------------------------------------------------------------------------
(* What validate_trace() makes of an entry, its tables being LiveIds,      *)
(* LiveSizes and LiveBytes.                                                *)

LEMMA BytesAre == LiveBytes = BytesOf(live)
<1>1. SizeOf = TermsOf(live)
  BY DEF SizeOf, TermsOf
<1>2. LiveBytes = SumOf(SizeOf, DOMAIN SizeOf)
  BY DEF LiveBytes, SumOf
<1>3. QED
  BY <1>1, <1>2 DEF BytesOf

LEMMA TablesOf ==
  /\ LiveIds = IdsOf(live) /\ LiveSizes = SizesOf(live) /\ LiveBytes = BytesOf(live)
  /\ LiveIds' = IdsOf(live') /\ LiveSizes' = SizesOf(live') /\ LiveBytes' = BytesOf(live')
<1>1. LiveIds = IdsOf(live) /\ LiveIds' = IdsOf(live')
  BY DEF LiveIds, IdsOf
<1>2. LiveSizes = SizesOf(live) /\ LiveSizes' = SizesOf(live')
  BY DEF LiveSizes, SizesOf
<1>3. (LiveBytes = BytesOf(live))'
  BY BytesAre, PTL
<1>4. QED
  BY <1>1, <1>2, <1>3, BytesAre

LEMMA InitAccepted ==
  ASSUME GeneratorAssumptions, GeneratorInit
  PROVE  Validator!Init
<1>1. live = <<>> /\ out = <<>> /\ Len(live) = 0 /\ 1..0 = {}
  BY DEF GeneratorInit
<1>2. LiveIds = <<>>
  BY <1>1 DEF LiveIds
<1>3. LiveSizes = [x \in {} |-> 0]
  BY <1>1 DEF LiveSizes
<1>4. LiveBytes = 0
  <2>1. DOMAIN TermsOf(live) = {}
    BY <1>1 DEF TermsOf
  <2>2. LiveBytes = SumOf(TermsOf(live), {})
    BY <2>1, TablesOf DEF BytesOf
  <2>3. QED
    BY <2>2, SumEmpty
<1>5. QED
  BY <1>1, <1>2, <1>3, <1>4 DEF Validator!Init

LEMMA WrittenPass ==
  ASSUME NEW e, e.id \in Nat, e.id # 0, e.op \in {"Allocate", "Free", "Reallocate"},
         e.alignment \in Alignments
  PROVE  ~ Validator!Malformed(e)
BY DEF Validator!Malformed, Validator!Operation, Validator!PowersOfTwo, Alignments, PowersOfTwo

LEMMA AllocatePasses ==
  ASSUME GeneratorAssumptions, GInv,
         NEW size \in DrawnSizes(cfg), NEW lifetime \in DrawnLifetimes(cfg),
         NEW worker \in Workers, NEW alignment \in DrawnAlignments(cfg, size),
         NEW reuse \in BOOLEAN, Allocate(size, alignment, worker, lifetime, reuse)
  PROVE  \E e : out' = Append(out, e) /\ Validator!Validate(e)
<1> DEFINE id == IF reuse THEN Last(free_pool) ELSE next_id
           r == [id |-> id, size |-> size, alignment |-> alignment,
                 worker |-> worker, free_step |-> step + lifetime]
           e == [op |-> "Allocate", id |-> id, size |-> size, alignment |-> alignment,
                 worker |-> worker]
           n == Len(live)
<1>1. live' = Append(live, r) /\ out' = Append(out, e) /\ (reuse => free_pool # <<>>)
  BY DEF Allocate, Record
<1>2. /\ live \in Seq(Records) /\ n \in Nat /\ Sized(Records) /\ Distinct(live)
      /\ free_pool \in Seq(Nat) /\ next_id \in Nat /\ next_id >= 1
  BY Facts
<1>3. /\ Configured
      /\ \A i \in 1..n : live[i].id \in Numbers
      /\ \A j \in 1..Len(free_pool) : free_pool[j] \in Numbers
      /\ \A i \in 1..n, j \in 1..Len(free_pool) : live[i].id # free_pool[j]
  BY DEF GInv, Shaped, Numbered
<1>4. id \in Nat /\ id # 0 /\ \A i \in 1..n : live[i].id # id
  <2>1. CASE reuse
    <3>1. Len(free_pool) \in 1..Len(free_pool) /\ id = free_pool[Len(free_pool)]
      <4>1. free_pool \in Seq(Nat) /\ free_pool # <<>>
        BY <1>1, <1>2, <2>1
      <4>2. /\ Len(free_pool) \in Nat /\ Len(free_pool) >= 1
            /\ Last(free_pool) = free_pool[Len(free_pool)]
        BY <4>1, LastAndFront
      <4>3. QED
        BY <2>1, <4>2
    <3>2. QED
      BY <1>2, <1>3, <3>1 DEF Numbers
  <2>2. CASE ~ reuse
    BY <1>2, <1>3, <2>2 DEF Numbers
  <2>3. QED
    BY <2>1, <2>2
<1> HIDE DEF id
<1>5. alignment \in Alignments /\ r \in Records
  <2>1. alignment \in Alignments
    BY <1>3, ConfigFacts
  <2>2. step + lifetime \in {k + l : k \in Nat, l \in DrawnLifetimes(cfg)}
    BY Facts
  <2>3. QED
    BY <1>4, <2>1, <2>2 DEF Records
<1>6. r.id = id /\ r.size = size /\ e.op = "Allocate" /\ e.id = id /\ e.size = size
        /\ e.alignment = alignment
  OBVIOUS
<1> HIDE DEF r, e
<1>7. /\ LiveIds' = Append(LiveIds, e.id)
      /\ LiveSizes' = [x \in DOMAIN LiveSizes \cup {e.id} |->
                        IF x = e.id THEN e.size ELSE LiveSizes[x]]
      /\ LiveBytes' = LiveBytes + e.size
      /\ Len(live') = n + 1
  <2>1. /\ IdsOf(Append(live, r)) = Append(IdsOf(live), r.id)
        /\ SizesOf(Append(live, r)) = Extended(SizesOf(live), r.id, r.size)
        /\ BytesOf(Append(live, r)) = BytesOf(live) + r.size
    <3>1. \A i \in 1..Len(live) : live[i].id # r.id
      BY <1>4, <1>6
    <3>2. live \in Seq(Records) /\ r \in Records /\ Sized(Records) /\ Distinct(live)
      BY <1>2, <1>5
    <3> HIDE DEF n
    <3>3. QED
      BY <3>1, <3>2, AfterAppend
  <2>2. Len(live') = n + 1
    BY <1>1, <1>2
  <2>3. QED
    BY <1>1, <1>6, <2>1, <2>2, TablesOf DEF Extended
<1>8. ~ Validator!Malformed(e)
  BY <1>4, <1>5, <1>6, WrittenPass
<1>9. ~ Validator!Rejected(e)
  <2>1. Len(LiveIds) = n /\ \A i \in 1..n : LiveIds[i] = live[i].id
    BY <1>2 DEF LiveIds
  <2>2. ~ Validator!IsLive(e.id)
    BY <1>4, <1>6, <2>1 DEF Validator!IsLive, Validator!Contains
  <2>3. QED
    BY <1>6, <2>2 DEF Validator!Rejected
<1>10. Validator!Validate(e)
  BY <1>1, <1>6, <1>7, <1>8, <1>9
     DEF Validator!Validate, Validator!AcceptAllocate, Validator!Accepts
<1>11. QED
  BY <1>1, <1>10

LEMMA DropPasses ==
  ASSUME GeneratorAssumptions, GInv, NEW i \in 1..Len(live), Drop(i)
  PROVE  \E e : out' = Append(out, e) /\ Validator!Validate(e)
<1> DEFINE e == [op |-> "Free", id |-> live[i].id, size |-> live[i].size,
                 alignment |-> live[i].alignment, worker |-> live[i].worker]
           n == Len(live)
<1>1. live' = SwapRemove(live, i) /\ out' = Append(out, e)
  BY DEF Record, Drop
<1>2. /\ live \in Seq(Records) /\ n \in Nat /\ n > 0 /\ Sized(Records) /\ Distinct(live)
      /\ live[i] \in Records /\ next_id \in Nat
  BY Facts
<1>3. live[i].id \in Numbers
  BY DEF GInv, Numbered
<1>4. /\ e.op = "Free" /\ e.id = live[i].id /\ e.id \in Nat /\ e.id # 0
      /\ e.alignment \in Alignments
  BY <1>2, <1>3 DEF Records, Numbers
<1> HIDE DEF e
<1>5. LiveIds \in Seq(Nat) /\ Len(LiveIds) = n /\ \A k \in 1..n : LiveIds[k] = live[k].id
  BY <1>2 DEF LiveIds, Sized
<1>6. ~ Validator!Malformed(e)
  BY <1>4, WrittenPass
<1>7. ~ Validator!Rejected(e)
  <2>1. Validator!IsLive(e.id)
    BY <1>4, <1>5 DEF Validator!IsLive, Validator!Contains
  <2>2. QED
    BY <1>4, <2>1 DEF Validator!Rejected
<1>8. Validator!PositionOf(e.id) = i
  <2>1. \A k \in 1..n : LiveIds[k] = LiveIds[i] => k = i
    BY <1>2, <1>5 DEF Distinct
  <2>2. SelectInSeq(LiveIds, LAMBDA x : x = LiveIds[i]) = i
    BY <1>5, <2>1, PositionIs
  <2>3. e.id = LiveIds[i]
    BY <1>4, <1>5
  <2>4. Validator!PositionOf(e.id) = SelectInSeq(LiveIds, LAMBDA x : x = e.id)
    BY DEF Validator!PositionOf, Validator!SelectInSeq, SelectInSeq, Validator!Min, Min
  <2>5. QED
    BY <2>2, <2>3, <2>4
<1>9. /\ LiveIds' = Validator!SwapRemove(LiveIds, i)
      /\ LiveSizes' = [x \in DOMAIN LiveSizes \ {e.id} |-> LiveSizes[x]]
      /\ LiveBytes' = LiveBytes - LiveSizes[e.id]
      /\ Len(live') = n - 1
  <2>1. /\ IdsOf(SwapRemove(live, i)) = SwapRemove(IdsOf(live), i)
        /\ SizesOf(SwapRemove(live, i)) =
             [x \in DOMAIN SizesOf(live) \ {live[i].id} |-> SizesOf(live)[x]]
        /\ BytesOf(SwapRemove(live, i)) = BytesOf(live) - live[i].size
    BY <1>2, AfterRemove
  <2>2. Len(live') = n - 1
    BY <1>1, <1>2, Removed
  <2>3. SizesOf(live)[live[i].id] = live[i].size
    BY <1>2, SizeAtId
  <2>4. Validator!SwapRemove(LiveIds, i) = SwapRemove(LiveIds, i)
    BY DEF Validator!SwapRemove, SwapRemove
  <2>5. QED
    BY <1>1, <1>4, <2>1, <2>2, <2>3, <2>4, TablesOf
<1>10. Validator!Validate(e)
  BY <1>1, <1>4, <1>6, <1>7, <1>8, <1>9
     DEF Validator!Validate, Validator!AcceptFree, Validator!Accepts
<1>11. QED
  BY <1>1, <1>10

LEMMA ReallocatePasses ==
  ASSUME GeneratorAssumptions, GInv, NEW i \in 1..Len(live),
         NEW drawn \in DrawnSizes(cfg), NEW grow \in BOOLEAN,
         NEW alignment \in DrawnAlignments(cfg, NewSize(i, drawn, grow)),
         Reallocate(i, drawn, alignment, grow)
  PROVE  \E e : out' = Append(out, e) /\ Validator!Validate(e)
<1> DEFINE size == NewSize(i, drawn, grow)
           r == Resized(i, size, alignment)
           e == [op |-> "Reallocate", id |-> live[i].id, size |-> size,
                 alignment |-> alignment, worker |-> live[i].worker]
           n == Len(live)
<1>1. live' = Resize(i, size, alignment) /\ out' = Append(out, e)
  BY DEF Reallocate, Record, Resize
<1>2. /\ live \in Seq(Records) /\ n \in Nat /\ n > 0 /\ Sized(Records) /\ Distinct(live)
      /\ live[i] \in Records /\ next_id \in Nat
  BY Facts
<1>3. live[i].id \in Numbers /\ Configured
  BY DEF GInv, Shaped, Numbered
<1>4. size \in DrawnSizes(cfg) /\ alignment \in DrawnAlignments(cfg, size)
  BY <1>2 DEF NewSize, Records
<1> HIDE DEF size
<1>5. /\ e.op = "Reallocate" /\ e.id = live[i].id /\ e.id \in Nat /\ e.id # 0
      /\ e.size = size /\ e.alignment \in Alignments
  <2>1. alignment \in Alignments
    BY <1>3, <1>4, ConfigFacts
  <2>2. QED
    BY <1>2, <1>3, <2>1 DEF Records, Numbers
<1>6. r \in Records /\ Resize(i, size, alignment) = [live EXCEPT ![i] = r]
  BY <1>4, ResizedLive
<1>7. r.id = live[i].id /\ r.size = size
  BY DEF Resized
<1> HIDE DEF e, r
<1>8. LiveIds \in Seq(Nat) /\ Len(LiveIds) = n /\ \A k \in 1..n : LiveIds[k] = live[k].id
  BY <1>2 DEF LiveIds, Sized
<1>9. ~ Validator!Malformed(e)
  BY <1>5, WrittenPass
<1>10. ~ Validator!Rejected(e)
  <2>1. Validator!IsLive(e.id)
    BY <1>5, <1>8 DEF Validator!IsLive, Validator!Contains
  <2>2. QED
    BY <1>5, <2>1 DEF Validator!Rejected
<1>11. /\ LiveIds' = LiveIds
       /\ LiveSizes' = [LiveSizes EXCEPT ![e.id] = e.size]
       /\ LiveBytes' = LiveBytes - LiveSizes[e.id] + e.size
       /\ Len(live') = n
  <2>1. /\ IdsOf([live EXCEPT ![i] = r]) = IdsOf(live)
        /\ SizesOf([live EXCEPT ![i] = r]) = [SizesOf(live) EXCEPT ![r.id] = r.size]
        /\ BytesOf([live EXCEPT ![i] = r]) = BytesOf(live) - live[i].size + r.size
    <3>1. live \in Seq(Records) /\ r \in Records /\ Sized(Records) /\ Distinct(live)
      BY <1>2, <1>6
    <3> HIDE DEF n
    <3>2. QED
      BY <1>7, <3>1, AfterUpdate
  <2>2. Len(live') = n
    BY <1>1, <1>2, <1>6
  <2>3. SizesOf(live)[live[i].id] = live[i].size
    BY <1>2, SizeAtId
  <2>4. QED
    BY <1>1, <1>5, <1>6, <1>7, <2>1, <2>2, <2>3, TablesOf
<1>12. Validator!Validate(e)
  BY <1>1, <1>5, <1>9, <1>10, <1>11
     DEF Validator!Validate, Validator!AcceptReallocate, Validator!Accepts
<1>13. QED
  BY <1>1, <1>12

(* Entry by entry, the trace is one that validate_trace() accepts, with    *)
(* the generator's own live set for its tables.                            *)
THEOREM GeneratedTracesPass ==
  ASSUME GeneratorAssumptions
  PROVE  GeneratorSpec => PassesValidation
<1>1. GeneratorInit => Validator!Init
  BY InitAccepted
<1>2. GInv /\ [GeneratorNext]_gvars
        => [out' # out /\ Validator!Validate(Last(out'))]_gvars
  <2>1. ASSUME GInv, GeneratorNext
        PROVE  \E e : out' = Append(out, e) /\ Validator!Validate(e)
    <3>1. ASSUME NEW size \in DrawnSizes(cfg), NEW lifetime \in DrawnLifetimes(cfg),
                 NEW worker \in Workers, NEW alignment \in DrawnAlignments(cfg, size),
                 NEW reuse \in BOOLEAN, Allocate(size, alignment, worker, lifetime, reuse)
          PROVE  \E e : out' = Append(out, e) /\ Validator!Validate(e)
      BY <2>1, <3>1, AllocatePasses
    <3>2. ASSUME NEW i \in 1..Len(live), Free(i)
          PROVE  \E e : out' = Append(out, e) /\ Validator!Validate(e)
      BY <2>1, <3>2, FreeDrops, DropPasses
    <3>3. ASSUME NEW i \in 1..Len(live), NEW drawn \in DrawnSizes(cfg),
                 NEW grow \in BOOLEAN,
                 NEW alignment \in DrawnAlignments(cfg, NewSize(i, drawn, grow)),
                 Reallocate(i, drawn, alignment, grow)
          PROVE  \E e : out' = Append(out, e) /\ Validator!Validate(e)
      BY <2>1, <3>3, ReallocatePasses
    <3>4. CASE Release
      BY <2>1, <3>4, ReleaseDrops, DropPasses
    <3>5. QED
      BY <2>1, <3>1, <3>2, <3>3, <3>4 DEF GeneratorNext
  <2>2. ASSUME GInv, NEW e, out' = Append(out, e), Validator!Validate(e)
        PROVE  out' # out /\ Validator!Validate(Last(out'))
    <3>1. out \in Seq(WrittenEntry)
      BY <2>2, Facts
    <3>2. Len(out') = Len(out) + 1 /\ out'[Len(out) + 1] = e /\ Len(out) \in Nat
      BY <2>2, <3>1
    <3>3. Last(out') = e
      BY <3>2 DEF Last
    <3>4. QED
      BY <2>2, <3>2, <3>3
  <2>3. QED
    BY <2>1, <2>2
<1>3. QED
  BY <1>1, <1>2, GeneratorInvariant, PTL DEF GeneratorSpec, PassesValidation
=============================================================================
