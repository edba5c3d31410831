----------------------------- MODULE SlotProofs -----------------------------
(***************************************************************************)
(* The strategies of StrategyBench that give out slots of one size: the    *)
(* fixed pool, the size-class pool and the slab, for all values of their   *)
(* constants that satisfy the assumptions of their modules.                *)
(*                                                                         *)
(* First what all strategies share: stacks of slots and tables of handles  *)
(* (Stacked), sums over tables, slots at equal distances (Ladder), and     *)
(* what the contract asks of a step (Held, Steps).  Then, pool by pool, an *)
(* inductive invariant (FixedInv, ClassInv, SlabInv), a lemma for each     *)
(* operation, and what the invariant gives.  StrategyProofs brings them    *)
(* together with the other strategies.                                     *)
(***************************************************************************)
EXTENDS StrategyBench, ArithmeticLemmas

-----------------------------------------------------------------------------
(* Stacks of slots, handles, and slots at equal distances.                 *)

(* Taking from the back, and putting back.                                 *)
LEMMA StackPop ==
  ASSUME NEW S, NEW s \in Seq(S), s # <<>>, IsInjective(s)
  PROVE  /\ Last(s) \in S /\ Last(s) \in ToSet(s)
         /\ Front(s) \in Seq(S) /\ IsInjective(Front(s))
         /\ ToSet(Front(s)) = ToSet(s) \ {Last(s)}
         /\ Len(s) \in Nat /\ Len(s) > 0 /\ Len(Front(s)) = Len(s) - 1
<1> DEFINE n == Len(s)
           t == Front(s)
<1>1. n \in Nat /\ n > 0 /\ DOMAIN s = 1..n
  OBVIOUS
<1>2. /\ t \in Seq(S) /\ Len(t) = n - 1 /\ DOMAIN t = 1..(n - 1)
      /\ \A i \in 1..(n - 1) : t[i] = s[i]
  BY <1>1 DEF Front
<1>3. Last(s) = s[n] /\ s[n] \in S
  BY <1>1 DEF Last
<1> HIDE DEF n, t
<1>4. IsInjective(t)
  BY <1>1, <1>2 DEF IsInjective
<1>5. ToSet(t) = ToSet(s) \ {s[n]} /\ s[n] \in ToSet(s)
  BY <1>1, <1>2 DEF ToSet, IsInjective
<1>6. QED
  BY <1>1, <1>2, <1>3, <1>4, <1>5 DEF n, t

LEMMA StackPush ==
  ASSUME NEW S, NEW s \in Seq(S), IsInjective(s), NEW x \in S, x \notin ToSet(s)
  PROVE  /\ Append(s, x) \in Seq(S) /\ IsInjective(Append(s, x))
         /\ ToSet(Append(s, x)) = ToSet(s) \cup {x}
         /\ Len(s) \in Nat /\ Len(Append(s, x)) = Len(s) + 1
<1> DEFINE n == Len(s)
           t == Append(s, x)
<1>1. n \in Nat /\ DOMAIN s = 1..n /\ \A i \in 1..n : s[i] # x
  BY DEF ToSet
<1>2. /\ t \in Seq(S) /\ Len(t) = n + 1 /\ DOMAIN t = 1..(n + 1)
      /\ \A i \in 1..n : t[i] = s[i]
      /\ t[n + 1] = x
  BY <1>1
<1> HIDE DEF n, t
<1>3. IsInjective(t)
  BY <1>1, <1>2 DEF IsInjective
<1>4. ToSet(t) = ToSet(s) \cup {x}
  <2>1. \A i \in 1..(n + 1) : i \in 1..n \/ i = n + 1
    BY <1>1
  <2>2. ToSet(t) \subseteq ToSet(s) \cup {x}
    BY <1>1, <1>2, <2>1 DEF ToSet
  <2>3. 1..n \subseteq 1..(n + 1) /\ n + 1 \in 1..(n + 1)
    BY <1>1
  <2>4. ToSet(s) \cup {x} \subseteq ToSet(t)
    BY <1>1, <1>2, <2>3 DEF ToSet
  <2>5. QED
    BY <2>2, <2>4
<1>5. QED
  BY <1>1, <1>2, <1>3, <1>4 DEF n, t

(* A handle enters the table, or leaves it.                                *)
LEMMA HandleAdded ==
  ASSUME NEW f, IsFiniteSet(DOMAIN f), NEW id, id \notin DOMAIN f,
         NEW g, DOMAIN g = DOMAIN f \cup {id}, \A h \in DOMAIN f : g[h] = f[h]
  PROVE  /\ IsFiniteSet(DOMAIN g)
         /\ Cardinality(DOMAIN f) \in Nat
         /\ Cardinality(DOMAIN g) = Cardinality(DOMAIN f) + 1
         /\ Range(g) = Range(f) \cup {g[id]}
<1>1. Range(g) = Range(f) \cup {g[id]}
  BY DEF Range
<1>2. QED
  BY <1>1, FS_AddElement, FS_CardinalityType

LEMMA HandleDropped ==
  ASSUME NEW f, IsFiniteSet(DOMAIN f), NEW id \in DOMAIN f,
         \A h \in DOMAIN f : f[h] = f[id] => h = id,
         NEW g, DOMAIN g = DOMAIN f \ {id}, \A h \in DOMAIN g : g[h] = f[h]
  PROVE  /\ IsFiniteSet(DOMAIN g)
         /\ Cardinality(DOMAIN f) \in Nat /\ Cardinality(DOMAIN f) > 0
         /\ Cardinality(DOMAIN g) = Cardinality(DOMAIN f) - 1
         /\ Range(g) = Range(f) \ {f[id]}
<1>1. Range(g) = Range(f) \ {f[id]}
  BY DEF Range
<1>2. /\ Cardinality(DOMAIN f) \in Nat /\ IsFiniteSet(DOMAIN f \ {id})
      /\ Cardinality(DOMAIN f \ {id}) = Cardinality(DOMAIN f) - 1
      /\ Cardinality(DOMAIN f \ {id}) \in Nat
  BY FS_RemoveElement, FS_CardinalityType
<1>3. QED
  BY <1>1, <1>2

(* A table of handles below a bound is finite.                             *)
LEMMA HandlesFinite ==
  ASSUME NEW n \in Nat, NEW f, DOMAIN f \subseteq 1..n
  PROVE  IsFiniteSet(DOMAIN f) /\ n + 1 \notin DOMAIN f
<1>1. IsFiniteSet(1..n)
  BY FS_Interval
<1>2. IsFiniteSet(DOMAIN f)
  BY <1>1, FS_Subset
<1>3. QED
  BY <1>2

LEMMA NoHandles ==
  ASSUME NEW f, f = [x \in {} |-> 0]
  PROVE  /\ DOMAIN f = {} /\ Cardinality(DOMAIN f) = 0 /\ IsFiniteSet(DOMAIN f)
         /\ Range(f) = {}
BY FS_EmptySet DEF Range

(* Rung i of a ladder with n rungs at distance s.                          *)
LEMMA Rungs ==
  ASSUME NEW s \in Nat, s > 0, NEW n \in Nat, NEW i \in 0..(n - 1)
  PROVE  /\ i * s \in Nat /\ i * s + s <= n * s
         /\ \A j \in 0..(n - 1) : /\ i < j => i * s + s <= j * s
                                  /\ i * s = j * s => i = j
<1>1. \A j, k \in Nat : j < k => j * s + s <= k * s
  <2> TAKE j, k \in Nat
  <2> HAVE j < k
  <2>1. PICK d \in Nat : k = j + 1 + d
    <3>1. k - j - 1 \in Nat /\ k = j + 1 + (k - j - 1)
      OBVIOUS
    <3>2. QED
      BY <3>1
  <2>2. k * s = j * s + s + d * s /\ d * s \in Nat /\ j * s \in Nat
    BY <2>1
  <2>3. QED
    BY <2>2
<1>2. i \in Nat /\ i < n /\ i * s \in Nat
  OBVIOUS
<1>3. \A j \in 0..(n - 1) : j \in Nat /\ j * s \in Nat
  OBVIOUS
<1>4. ASSUME NEW j \in 0..(n - 1), i * s = j * s
      PROVE  i = j
  <2>1. ~ (i < j)
    BY <1>1, <1>2, <1>3, <1>4
  <2>2. ~ (j < i)
    BY <1>1, <1>2, <1>3, <1>4
  <2>3. QED
    BY <1>2, <1>3, <2>1, <2>2
<1>5. QED
  BY <1>1, <1>2, <1>3, <1>4

(* The slots S are those on the stack s and those behind the handles of f, *)
(* each in one place.                                                      *)
Stacked(S, s, f) ==
  /\ s \in Seq(S) /\ IsInjective(s)
  /\ ToSet(s) \cup Range(f) = S
  /\ ToSet(s) \cap Range(f) = {}
  /\ IsFiniteSet(DOMAIN f)
  /\ \A g, h \in DOMAIN f : f[g] = f[h] => g = h

LEMMA StackedEmpty ==
  ASSUME NEW f, f = [x \in {} |-> 0]
  PROVE  Stacked({}, <<>>, f)
<1>1. DOMAIN f = {} /\ IsFiniteSet(DOMAIN f) /\ Range(f) = {}
  BY NoHandles
<1>2. <<>> \in Seq({}) /\ IsInjective(<<>>) /\ ToSet(<<>>) = {}
  BY DEF IsInjective, ToSet
<1>3. QED
  BY <1>1, <1>2 DEF Stacked

(* The slot at the back is handed out.                                     *)
LEMMA StackedTake ==
  ASSUME NEW S, NEW s, NEW f, Stacked(S, s, f), s # <<>>,
         NEW id, id \notin DOMAIN f,
         NEW g, DOMAIN g = DOMAIN f \cup {id}, g[id] = Last(s),
         \A h \in DOMAIN f : g[h] = f[h]
  PROVE  /\ Stacked(S, Front(s), g) /\ Last(s) \in S
         /\ \A h \in DOMAIN f : f[h] # Last(s) /\ f[h] \in S
         /\ Cardinality(DOMAIN f) \in Nat
         /\ Cardinality(DOMAIN g) = Cardinality(DOMAIN f) + 1
         /\ Len(s) \in Nat /\ Len(Front(s)) = Len(s) - 1
<1> DEFINE x == Last(s)
<1>1. /\ s \in Seq(S) /\ IsInjective(s) /\ ToSet(s) \cup Range(f) = S /\ ToSet(s) \cap Range(f) = {}
      /\ IsFiniteSet(DOMAIN f) /\ \A i, h \in DOMAIN f : f[i] = f[h] => i = h
  BY DEF Stacked
<1>2. /\ x \in S /\ x \in ToSet(s)
      /\ Front(s) \in Seq(S) /\ IsInjective(Front(s))
      /\ ToSet(Front(s)) = ToSet(s) \ {x}
      /\ Len(s) \in Nat /\ Len(s) > 0 /\ Len(Front(s)) = Len(s) - 1
  BY <1>1, StackPop
<1> HIDE DEF x
<1>3. g[id] = x
  BY DEF x
<1>4. /\ IsFiniteSet(DOMAIN g)
      /\ Cardinality(DOMAIN f) \in Nat
      /\ Cardinality(DOMAIN g) = Cardinality(DOMAIN f) + 1
      /\ Range(g) = Range(f) \cup {x}
  <2>1. IsFiniteSet(DOMAIN f)
    BY <1>1
  <2>2. QED
    BY Zenon, <1>3, <2>1, HandleAdded
<1>5. \A h \in DOMAIN f : f[h] # x /\ f[h] \in S
  BY <1>1, <1>2 DEF Range
<1>6. \A i, h \in DOMAIN g : g[i] = g[h] => i = h
  BY <1>1, <1>3, <1>5
<1>7. /\ ToSet(Front(s)) \cup Range(g) = S
      /\ ToSet(Front(s)) \cap Range(g) = {}
  <2>1. \A y \in Range(f) : y # x
    BY <1>1, <1>2
  <2>2. QED
    BY <1>1, <1>2, <1>4, <2>1
<1>8. Stacked(S, Front(s), g)
  BY <1>2, <1>4, <1>6, <1>7 DEF Stacked
<1>9. QED
  BY <1>2, <1>4, <1>5, <1>8 DEF x

(* A slot handed out is put back.                                          *)
LEMMA StackedFree ==
  ASSUME NEW S, NEW s, NEW f, Stacked(S, s, f), NEW id \in DOMAIN f,
         NEW g, DOMAIN g = DOMAIN f \ {id}, \A h \in DOMAIN g : g[h] = f[h]
  PROVE  /\ Stacked(S, Append(s, f[id]), g) /\ f[id] \in S
         /\ Cardinality(DOMAIN f) \in Nat /\ Cardinality(DOMAIN f) > 0
         /\ Cardinality(DOMAIN g) = Cardinality(DOMAIN f) - 1
         /\ Len(s) \in Nat /\ Len(Append(s, f[id])) = Len(s) + 1
<1> DEFINE x == f[id]
<1>1. /\ s \in Seq(S) /\ IsInjective(s) /\ ToSet(s) \cup Range(f) = S /\ ToSet(s) \cap Range(f) = {}
      /\ IsFiniteSet(DOMAIN f) /\ \A i, h \in DOMAIN f : f[i] = f[h] => i = h
      /\ x \in Range(f)
  BY DEF Stacked, Range
<1>2. x \in S /\ x \notin ToSet(s)
  BY <1>1
<1>3. /\ IsFiniteSet(DOMAIN g)
      /\ Cardinality(DOMAIN f) \in Nat /\ Cardinality(DOMAIN f) > 0
      /\ Cardinality(DOMAIN g) = Cardinality(DOMAIN f) - 1
      /\ Range(g) = Range(f) \ {x}
  BY Zenon, <1>1, HandleDropped
<1> HIDE DEF x
<1>4. /\ Append(s, x) \in Seq(S) /\ IsInjective(Append(s, x))
      /\ ToSet(Append(s, x)) = ToSet(s) \cup {x}
      /\ Len(s) \in Nat /\ Len(Append(s, x)) = Len(s) + 1
  BY <1>1, <1>2, StackPush
<1>5. Stacked(S, Append(s, x), g)
  <2>1. \A i, h \in DOMAIN g : g[i] = g[h] => i = h
    BY <1>1, <1>3
  <2>2. /\ ToSet(Append(s, x)) \cup Range(g) = S
        /\ ToSet(Append(s, x)) \cap Range(g) = {}
    BY <1>1, <1>2, <1>3, <1>4
  <2>3. QED
    BY <1>3, <1>4, <2>1, <2>2 DEF Stacked
<1>6. QED
  BY <1>2, <1>3, <1>4, <1>5 DEF x

(* An empty stack is filled with new slots.                                *)
LEMMA StackedGrow ==
  ASSUME NEW S, NEW f, Stacked(S, <<>>, f),
         NEW N, N \cap S = {}, NEW t \in Seq(N), IsInjective(t), ToSet(t) = N
  PROVE  Stacked(S \cup N, t, f)
<1>1. ToSet(<<>>) = {}
  BY DEF ToSet
<1>2. t \in Seq(S \cup N)
  OBVIOUS
<1>3. Range(f) = S
  BY Zenon, <1>1 DEF Stacked
<1>4. QED
  BY <1>2, <1>3 DEF Stacked

-----------------------------------------------------------------------------
(* What the contract asks, of a table of extents e when ids up to m have   *)
(* been given out, and of a step from there to f and n.                    *)

Held(e, m) ==
  /\ m \in Nat /\ DOMAIN e \subseteq 1..m
  /\ \A h \in DOMAIN e : e[h] \in Contract!Extent
  /\ \A g, h \in DOMAIN e : g = h \/ Contract!Apart(e[g], e[h])

Adds(e, f, m, n) ==
  /\ n = m + 1 /\ DOMAIN f = DOMAIN e \cup {n} /\ \A h \in DOMAIN e : f[h] = e[h]

Drops(e, f, h) ==
  /\ h \in DOMAIN e /\ DOMAIN f = DOMAIN e \ {h} /\ f = [g \in DOMAIN f |-> f[g]]
  /\ \A g \in DOMAIN f : f[g] = e[g]

Moves(e, f, h) ==
  /\ h \in DOMAIN e /\ DOMAIN f = DOMAIN e /\ \A g \in DOMAIN e \ {h} : f[g] = e[g]

Clears(f) == DOMAIN f = {} /\ f = [g \in DOMAIN f |-> f[g]]

Steps(e, f, m, n) ==
  \/ Adds(e, f, m, n)
  \/ n = m /\ (f = e \/ (\E h \in DOMAIN e : Drops(e, f, h) \/ Moves(e, f, h)) \/ Clears(f))

LEMMA ContractKept ==
  ASSUME NEW m, NEW n, NEW e, NEW f, Held(e, m), Held(f, n), Steps(e, f, m, n), n \in Ids \/ n = m,
         Owned = e, Owned' = f, next_id = m, next_id' = n
  PROVE  [Contract!Next]_(Contract!cvars)
<1>1. CASE Adds(e, f, m, n)
  <2>1. n \in Ids /\ n = m + 1 /\ m \in Nat
    BY <1>1 DEF Adds, Held
  <2>2. n \notin 1..m /\ 1..n = 1..m \cup {n}
    BY <2>1
  <2>3. f[n] \in Contract!Extent
    BY <1>1 DEF Adds, Held
  <2>4. \A h \in DOMAIN e : f[h] = e[h] /\ Contract!Apart(f[n], e[h])
    BY <1>1, <2>2 DEF Adds, Held
  <2>5. Contract!Allocate(n)
    BY <1>1, <2>2, <2>3, <2>4 DEF Contract!Allocate, Adds
  <2>6. QED
    BY <2>1, <2>5 DEF Contract!Next
<1>2. CASE n = m /\ f = e
  BY <1>2 DEF Contract!cvars
<1>3. ASSUME n = m, NEW h \in DOMAIN e, Drops(e, f, h)
      PROVE  Contract!Next
  <2>1. f = [g \in DOMAIN e \ {h} |-> e[g]]
    BY <1>3 DEF Drops
  <2>2. Contract!Free(h)
    BY <1>3, <2>1 DEF Contract!Free
  <2>3. QED
    BY <1>3, <2>2 DEF Contract!Next
<1>4. ASSUME n = m, NEW h \in DOMAIN e, Moves(e, f, h)
      PROVE  Contract!Next
  <2>1. \A g \in DOMAIN e \ {h} : f[g] = e[g] /\ Contract!Apart(f[h], e[g])
    BY <1>4 DEF Moves, Held
  <2>2. Contract!Reallocate(h)
    BY <1>4, <2>1 DEF Contract!Reallocate, Moves, Held
  <2>3. QED
    BY <1>4, <2>2 DEF Contract!Next
<1>5. CASE n = m /\ Clears(f)
  <2>1. f = [h \in {} |-> {}]
    BY <1>5 DEF Clears
  <2>2. QED
    BY <1>5, <2>1 DEF Contract!Next, Contract!Discard
<1>6. QED
  BY <1>1, <1>2, <1>3, <1>4, <1>5 DEF Steps

LEMMA ExtentAt ==
  ASSUME NEW a \in Nat, NEW s \in Nat \ {0}
  PROVE  [addr |-> a, size |-> s] \in Contract!Extent
BY DEF Contract!Extent

LEMMA ApartAt ==
  ASSUME NEW a, NEW s, NEW b, NEW t, a + s <= b \/ b + t <= a
  PROVE  Contract!Apart([addr |-> a, size |-> s], [addr |-> b, size |-> t])
BY DEF Contract!Apart

(* An injective table has as many values as entries.                       *)
LEMMA RangeSize ==
  ASSUME NEW f, IsFiniteSet(DOMAIN f), \A g, h \in DOMAIN f : f[g] = f[h] => g = h
  PROVE  IsFiniteSet(Range(f)) /\ Cardinality(Range(f)) = Cardinality(DOMAIN f)
BY ImageCard DEF Range

LEMMA SeqWider ==
  ASSUME NEW S, NEW T, S \subseteq T, NEW t \in Seq(S)
  PROVE  t \in Seq(T)
<1>1. Len(t) \in Nat /\ t \in [1..Len(t) -> S]
  OBVIOUS
<1>2. t \in [1..Len(t) -> T]
  BY <1>1
<1>3. QED
  BY <1>1, <1>2

(* Sums of the values of a table.                                          *)
LEMMA SumTable ==
  ASSUME NEW f
  PROVE  SumFunction(f) = SumOf(f, DOMAIN f)
BY DEF SumFunction, SumFunctionOnSet, FoldFunctionOnSet, MapThenFoldSet, SumOf, MapThenSumSet

LEMMA SumNone ==
  ASSUME NEW f, DOMAIN f = {}
  PROVE  SumFunction(f) = 0
BY SumTable, SumEmpty

LEMMA SumIsNat ==
  ASSUME NEW f, IsFiniteSet(DOMAIN f), \A x \in DOMAIN f : f[x] \in Nat
  PROVE  SumFunction(f) \in Nat
<1>1. SumOf(f, DOMAIN f) \in Nat
  BY SumNat
<1>2. QED
  BY <1>1, SumTable

LEMMA SumAgrees ==
  ASSUME NEW f, IsFiniteSet(DOMAIN f), NEW g, DOMAIN g = DOMAIN f,
         \A x \in DOMAIN f : g[x] = f[x]
  PROVE  SumFunction(g) = SumFunction(f)
<1>1. SumOf(g, DOMAIN f) = SumOf(f, DOMAIN f)
  BY SumSame
<1>2. QED
  BY <1>1, SumTable

LEMMA SumGains ==
  ASSUME NEW f, IsFiniteSet(DOMAIN f), \A x \in DOMAIN f : f[x] \in Nat,
         NEW id, id \notin DOMAIN f,
         NEW g, DOMAIN g = DOMAIN f \cup {id}, g[id] \in Nat, \A x \in DOMAIN f : g[x] = f[x]
  PROVE  /\ SumFunction(g) = SumFunction(f) + g[id]
         /\ SumFunction(f) \in Nat /\ SumFunction(g) \in Nat
<1>1. SumOf(g, DOMAIN f \cup {id}) = SumOf(g, DOMAIN f) + g[id]
  BY SumAdd
<1>2. SumOf(g, DOMAIN f) = SumOf(f, DOMAIN f)
  BY SumSame
<1>3. SumOf(f, DOMAIN f) \in Nat
  BY SumNat
<1>4. QED
  BY <1>1, <1>2, <1>3, SumTable

LEMMA SumLoses ==
  ASSUME NEW f, IsFiniteSet(DOMAIN f), \A x \in DOMAIN f : f[x] \in Nat,
         NEW id \in DOMAIN f,
         NEW g, DOMAIN g = DOMAIN f \ {id}, \A x \in DOMAIN g : g[x] = f[x]
  PROVE  /\ SumFunction(f) = SumFunction(g) + f[id]
         /\ SumFunction(f) \in Nat /\ SumFunction(g) \in Nat /\ f[id] \in Nat
<1>1. /\ SumOf(f, DOMAIN f \ {id}) \in Nat /\ f[id] \in Nat
      /\ SumOf(f, DOMAIN f) = SumOf(f, DOMAIN f \ {id}) + f[id]
  BY SumRemove
<1>2. IsFiniteSet(DOMAIN f \ {id})
  BY FS_RemoveElement
<1>3. SumOf(g, DOMAIN f \ {id}) = SumOf(f, DOMAIN f \ {id})
  BY <1>2, SumSame
<1>4. QED
  BY <1>1, <1>3, SumTable

LEMMA SumChanges ==
  ASSUME NEW f, IsFiniteSet(DOMAIN f), \A x \in DOMAIN f : f[x] \in Nat,
         NEW id \in DOMAIN f,
         NEW g, DOMAIN g = DOMAIN f, g[id] \in Nat, \A x \in DOMAIN f \ {id} : g[x] = f[x]
  PROVE  /\ SumFunction(f) + g[id] = SumFunction(g) + f[id]
         /\ SumFunction(f) \in Nat /\ SumFunction(g) \in Nat /\ f[id] \in Nat
         /\ SumFunction(f) >= f[id]
<1>1. /\ SumOf(f, DOMAIN f \ {id}) \in Nat /\ f[id] \in Nat
      /\ SumOf(f, DOMAIN f) = SumOf(f, DOMAIN f \ {id}) + f[id]
  BY SumRemove
<1>2. \A x \in DOMAIN g : g[x] \in Nat
  OBVIOUS
<1>3. SumOf(g, DOMAIN g) = SumOf(g, DOMAIN g \ {id}) + g[id]
  BY <1>2, SumRemove
<1>4. IsFiniteSet(DOMAIN f \ {id})
  BY FS_RemoveElement
<1>5. SumOf(g, DOMAIN f \ {id}) = SumOf(f, DOMAIN f \ {id})
  BY <1>4, SumSame
<1>6. QED
  BY <1>1, <1>3, <1>5, SumTable

LEMMA SumZero ==
  ASSUME NEW f, IsFiniteSet(DOMAIN f), \A x \in DOMAIN f : f[x] = 0
  PROVE  SumFunction(f) = 0
<1> DEFINE B == {T \in SUBSET DOMAIN f : SumOf(f, T) # 0}
<1>1. SUFFICES ASSUME B # {} PROVE FALSE
  BY SumTable
<1>2. PICK T \in B : \A U \in B : U \subseteq T => U = T
  <2> HIDE DEF B
  <2>1. B \in SUBSET SUBSET DOMAIN f
    BY DEF B
  <2>2. QED
    BY <1>1, <2>1, MinimalSubset
<1>3. T # {} /\ IsFiniteSet(T)
  BY FS_Subset, SumEmpty
<1>4. PICK x \in T : TRUE
  BY <1>3
<1>5. SumOf(f, T \ {x}) = 0
  BY <1>2
<1>6. SumOf(f, T) = SumOf(f, T \ {x}) + f[x]
  <2>1. \A y \in T : f[y] \in Nat
    OBVIOUS
  <2>2. QED
    BY <1>3, <2>1, SumRemove
<1>7. QED
  BY <1>5, <1>6

-----------------------------------------------------------------------------
(* The n rungs of a ladder from b, at distance s: the slots of a block.    *)
Ladder(b, s, n) == {b + i * s : i \in 0..(n - 1)}
LadderSeq(b, s, n) == [i \in 1..n |-> b + (i - 1) * s]

LEMMA LadderSlot ==
  ASSUME NEW b \in Nat, NEW s \in Nat, s > 0, NEW n \in Nat, NEW x \in Ladder(b, s, n)
  PROVE  x \in Nat /\ b <= x /\ x + s <= b + n * s
<1>1. PICK i \in 0..(n - 1) : x = b + i * s
  BY DEF Ladder
<1>2. i * s \in Nat /\ i * s + s <= n * s
  BY Rungs
<1>3. n * s \in Nat
  OBVIOUS
<1>4. QED
  BY <1>1, <1>2, <1>3

(* Two rungs are one, or a distance apart.                                 *)
LEMMA LadderApart ==
  ASSUME NEW b \in Nat, NEW s \in Nat, s > 0, NEW n \in Nat,
         NEW x \in Ladder(b, s, n), NEW y \in Ladder(b, s, n), x # y
  PROVE  x + s <= y \/ y + s <= x
<1>1. PICK i \in 0..(n - 1) : x = b + i * s
  BY DEF Ladder
<1>2. PICK j \in 0..(n - 1) : y = b + j * s
  BY DEF Ladder
<1>3. /\ i * s \in Nat /\ j * s \in Nat
      /\ i < j => i * s + s <= j * s
      /\ j < i => j * s + s <= i * s
  BY Rungs
<1>4. i # j /\ i \in Int /\ j \in Int
  BY <1>1, <1>2
<1>5. CASE i < j
  BY <1>1, <1>2, <1>3, <1>5
<1>6. CASE j < i
  BY <1>1, <1>2, <1>3, <1>6
<1>7. QED
  BY <1>4, <1>5, <1>6

LEMMA LadderBlock ==
  ASSUME NEW b \in Nat, NEW s \in Nat, s > 0, NEW n \in Nat, n > 0
  PROVE  LET t == LadderSeq(b, s, n)
         IN /\ t \in Seq(Ladder(b, s, n)) /\ t # <<>> /\ IsInjective(t)
            /\ Len(t) = n
            /\ ToSet(t) = Ladder(b, s, n)
<1> DEFINE S == Ladder(b, s, n)
           t == LadderSeq(b, s, n)
<1>1. \A i \in 1..n : i - 1 \in 0..(n - 1) /\ t[i] = b + (i - 1) * s
  BY DEF LadderSeq
<1>2. t \in Seq(S) /\ Len(t) = n /\ t # <<>> /\ DOMAIN t = 1..n
  <2>1. \A i \in 0..(n - 1) : b + i * s \in S
    BY DEF Ladder
  <2>2. t \in [1..n -> S]
    BY Zenon, <1>1, <2>1 DEF LadderSeq
  <2> HIDE DEF t, S
  <2>3. QED
    BY <2>2
<1>3. ToSet(t) = S
  <2>1. \A i \in 0..(n - 1) : i + 1 \in 1..n /\ i = (i + 1) - 1
    OBVIOUS
  <2>2. \A x : x \in S <=> \E i \in 0..(n - 1) : x = b + i * s
    BY DEF Ladder
  <2>3. \A x : x \in ToSet(t) <=> \E i \in 1..n : x = t[i]
    BY <1>2 DEF ToSet
  <2> HIDE DEF t, S
  <2>4. \A i \in 0..(n - 1) : t[i + 1] = b + i * s
    BY <1>1, <2>1
  <2>5. S \subseteq ToSet(t)
    BY Zenon, <2>1, <2>2, <2>3, <2>4
  <2>6. ToSet(t) \subseteq S
    BY ZenonT(60), <1>1, <2>2, <2>3
  <2>7. QED
    BY <2>5, <2>6
<1>4. IsInjective(t)
  <2>1. ASSUME NEW i \in 1..n, NEW j \in 1..n, t[i] = t[j]
        PROVE  i = j
    <3> HIDE DEF t
    <3>1. b + (i - 1) * s = b + (j - 1) * s
      BY <1>1, <2>1
    <3>2. i - 1 \in 0..(n - 1) /\ j - 1 \in 0..(n - 1)
      BY <1>1
    <3>3. (i - 1) * s \in Nat /\ (j - 1) * s \in Nat
      BY <3>2, Rungs
    <3>4. (i - 1) * s = (j - 1) * s
      BY <3>1, <3>3
    <3>5. i - 1 = j - 1
      BY <3>2, <3>4, Rungs
    <3>6. QED
      BY <3>5
  <2>2. QED
    BY <1>2, <2>1 DEF IsInjective
<1>5. QED
  BY <1>2, <1>3, <1>4

-----------------------------------------------------------------------------
(* The least power of two that the pools round up to.                      *)
LEMMA LeastPower ==
  ASSUME NEW P \in SUBSET Nat, NEW least \in Nat, \E p \in P : p >= least
  PROVE  LET q == CHOOSE p \in P : p >= least /\ \A r \in P : r >= least => p <= r
         IN q \in P /\ q >= least
<1> DEFINE T == {p \in P : p >= least}
<1>1. T \in SUBSET Nat /\ T # {}
  BY Zenon
<1>2. PICK m \in T : \A y \in T : m <= y
  <2> HIDE DEF T
  <2>1. QED
    BY <1>1, NatMin
<1>3. m \in P /\ m >= least /\ \A r \in P : r >= least => m <= r
  BY <1>2
<1>4. QED
  BY Zenon, <1>3

-----------------------------------------------------------------------------
(* The fixed pool.                                                         *)

LEMMA FixedOps ==
  /\ \A s : /\ Fixed!ToSet(s) = ToSet(s) /\ Fixed!Front(s) = Front(s)
            /\ Fixed!Last(s) = Last(s) /\ Fixed!IsInjective(s) = IsInjective(s)
  /\ \A S : Fixed!Cardinality(S) = Cardinality(S)
<1>1. \A s : /\ Fixed!ToSet(s) = ToSet(s) /\ Fixed!Front(s) = Front(s)
             /\ Fixed!Last(s) = Last(s) /\ Fixed!IsInjective(s) = IsInjective(s)
  BY DEF Fixed!ToSet, ToSet, Fixed!Front, Front, Fixed!Last, Last,
         Fixed!IsInjective, IsInjective
<1>2. \A S : Fixed!Cardinality(S) = Cardinality(S)
  BY DEF Fixed!Cardinality, Cardinality
<1>3. QED
  BY <1>1, <1>2

FixedBytes == FixedSetup.block_slots * Fixed!SlotStride
FixedSlots == UNION {Fixed!SlotsOf(b) : b \in blocks}

(* Blocks lie apart.  While it has not been shut down, the slots counted   *)
(* are those on the stack and those handed out.                            *)
FixedInv ==
  /\ Fixed!TypeOK
  /\ \A b, c \in blocks : b = c \/ b + FixedBytes <= c \/ c + FixedBytes <= b
  /\ Stacked(FixedSlots, free_list, live)
  /\ live_count = Cardinality(DOMAIN live)
  /\ live_bytes = FixedSetup.object_size * live_count
  /\ ~ closed => total_slots = Len(free_list) + Cardinality(DOMAIN live)
  /\ IsFiniteSet(blocks)
  /\ FixedSetup.block_slots * Cardinality(blocks) <= total_slots
  /\ total_slots <= FixedSetup.capacity

LEMMA FixedConstants ==
  /\ Fixed!SlotStride \in Nat /\ Fixed!SlotStride > 0
  /\ FixedSetup.object_size \in Nat /\ FixedSetup.object_size > 0
  /\ FixedSetup.object_size <= Fixed!SlotStride
  /\ FixedSetup.block_slots \in Nat /\ FixedSetup.block_slots > 0
  /\ FixedSetup.capacity \in Nat /\ FixedSetup.ids \in Nat
  /\ FixedSetup.places \subseteq Nat
  /\ FixedSetup.requests \subseteq [size : Nat, alignment : Nat]
  /\ FixedBytes \in Nat /\ FixedBytes > 0
<1>1. Fixed!Assumptions
  BY StrategyAssumptions
<1>2. Fixed!PowersOfTwo \subseteq Nat
  BY DEF Fixed!PowersOfTwo
<1> DEFINE size == FixedSetup.object_size
           align == FixedSetup.align
           least == IF size > align THEN size ELSE align
<1>3. /\ size \in Nat /\ size > 0 /\ align \in Fixed!PowersOfTwo
      /\ \E p \in Fixed!PowersOfTwo : size <= p
  BY <1>1 DEF Fixed!Assumptions
<1>4. least \in Nat /\ size <= least /\ \E p \in Fixed!PowersOfTwo : p >= least
  <2>1. align \in Nat
    BY Zenon, <1>2, <1>3
  <2>2. CASE size > align
    <3>1. PICK p \in Fixed!PowersOfTwo : size <= p
      BY <1>3
    <3>2. least = size /\ p \in Nat
      BY <1>2, <2>2
    <3> HIDE DEF least, size, align
    <3>3. QED
      BY <1>3, <3>1, <3>2
  <2>3. CASE ~ (size > align)
    <3>1. least = align
      BY <2>3
    <3> HIDE DEF least, size, align
    <3>2. QED
      BY <1>3, <2>1, <2>3, <3>1
  <2>4. QED
    BY <2>2, <2>3
<1>5. Fixed!SlotStride \in Fixed!PowersOfTwo /\ Fixed!SlotStride >= least
  <2> HIDE DEF least
  <2>1. LET q == CHOOSE p \in Fixed!PowersOfTwo :
                   p >= least /\ \A r \in Fixed!PowersOfTwo : r >= least => p <= r
        IN q \in Fixed!PowersOfTwo /\ q >= least
    BY <1>2, <1>4, LeastPower
  <2>2. QED
    BY <2>1 DEF Fixed!SlotStride, least
<1>6. Fixed!SlotStride \in Nat /\ Fixed!SlotStride > 0 /\ size <= Fixed!SlotStride
  <2> HIDE DEF least
  <2>1. QED
    BY <1>2, <1>3, <1>4, <1>5
<1>7. /\ FixedSetup.block_slots \in Nat /\ FixedSetup.block_slots > 0
      /\ FixedSetup.capacity \in Nat /\ FixedSetup.ids \in Nat
      /\ FixedSetup.places \subseteq Nat
      /\ FixedSetup.requests \subseteq [size : Nat, alignment : Nat]
  BY <1>1 DEF Fixed!Assumptions
<1>8. FixedBytes \in Nat /\ FixedBytes > 0
  BY <1>6, <1>7 DEF FixedBytes
<1>9. QED
  BY <1>3, <1>6, <1>7, <1>8

(* The slots of a block.                                                   *)
LEMMA FixedLadder ==
  ASSUME NEW b
  PROVE  /\ Fixed!SlotsOf(b) = Ladder(b, Fixed!SlotStride, FixedSetup.block_slots)
         /\ FixedBytes = FixedSetup.block_slots * Fixed!SlotStride
         /\ [i \in 1..FixedSetup.block_slots |-> Fixed!Slot(b, i - 1)]
              = LadderSeq(b, Fixed!SlotStride, FixedSetup.block_slots)
BY DEF Fixed!SlotsOf, Fixed!Slot, Ladder, LadderSeq, FixedBytes

LEMMA FixedSlot ==
  ASSUME NEW b \in Nat, NEW x \in Fixed!SlotsOf(b)
  PROVE  x \in Nat /\ b <= x /\ x + Fixed!SlotStride <= b + FixedBytes
BY Zenon, FixedConstants, FixedLadder, LadderSlot

(* Two slots are one, or a stride apart.                                   *)
LEMMA FixedApart ==
  ASSUME NEW b \in Nat, NEW c \in Nat,
         b = c \/ b + FixedBytes <= c \/ c + FixedBytes <= b,
         NEW x \in Fixed!SlotsOf(b), NEW y \in Fixed!SlotsOf(c), x # y
  PROVE  x + Fixed!SlotStride <= y \/ y + Fixed!SlotStride <= x
<1>1. CASE b = c
  <2> DEFINE s == Fixed!SlotStride
             n == FixedSetup.block_slots
  <2>1. /\ s \in Nat /\ s > 0 /\ n \in Nat
        /\ x \in Ladder(b, s, n) /\ y \in Ladder(b, s, n)
    BY Zenon, <1>1, FixedConstants, FixedLadder
  <2> HIDE DEF s, n
  <2>2. x + s <= y \/ y + s <= x
    BY <2>1, LadderApart
  <2>3. QED
    BY <2>2 DEF s
<1>2. CASE b # c
  <2>1. /\ x \in Nat /\ b <= x /\ x + Fixed!SlotStride <= b + FixedBytes
        /\ y \in Nat /\ c <= y /\ y + Fixed!SlotStride <= c + FixedBytes
        /\ Fixed!SlotStride \in Nat /\ FixedBytes \in Nat
    BY FixedSlot, FixedConstants
  <2>2. QED
    BY <1>2, <2>1
<1>3. QED
  BY <1>1, <1>2

(* The slots of a new block, in address order.                             *)
LEMMA FixedBlock ==
  ASSUME NEW b \in Nat
  PROVE  LET t == [i \in 1..FixedSetup.block_slots |-> Fixed!Slot(b, i - 1)]
         IN /\ t \in Seq(Fixed!SlotsOf(b)) /\ t # <<>> /\ IsInjective(t)
            /\ Len(t) = FixedSetup.block_slots
            /\ ToSet(t) = Fixed!SlotsOf(b)
<1> DEFINE s == Fixed!SlotStride
           n == FixedSetup.block_slots
           S == Fixed!SlotsOf(b)
           t == [i \in 1..n |-> Fixed!Slot(b, i - 1)]
<1>1. s \in Nat /\ s > 0 /\ n \in Nat /\ n > 0
  BY FixedConstants
<1>2. S = Ladder(b, s, n) /\ t = LadderSeq(b, s, n)
  BY FixedLadder
<1> HIDE DEF s, n, t, S
<1>3. LET u == LadderSeq(b, s, n)
      IN /\ u \in Seq(Ladder(b, s, n)) /\ u # <<>> /\ IsInjective(u)
         /\ Len(u) = n
         /\ ToSet(u) = Ladder(b, s, n)
  BY <1>1, LadderBlock
<1>4. /\ t \in Seq(S) /\ t # <<>> /\ IsInjective(t) /\ Len(t) = n /\ ToSet(t) = S
  BY <1>2, <1>3
<1>5. QED
  BY Zenon, <1>4 DEF s, n, t, S

LEMMA FixedInit ==
  ASSUME Fixed!Init
  PROVE  FixedInv
<1>1. /\ blocks = {} /\ free_list = <<>> /\ live = [x \in {} |-> 0]
      /\ next_id = 0 /\ total_slots = 0 /\ live_count = 0 /\ live_bytes = 0
      /\ closed = FALSE /\ result = "ok"
  BY DEF Fixed!Init, Fixed!Empty
<1>2. DOMAIN live = {} /\ Cardinality(DOMAIN live) = 0
  BY <1>1, NoHandles
<1>3. IsFiniteSet({}) /\ Cardinality({}) = 0
  BY FS_EmptySet
<1>4. FixedSlots = {}
  BY <1>1 DEF FixedSlots
<1>5. Fixed!TypeOK
  <2>1. blocks \subseteq FixedSetup.places /\ free_list \in Seq(FixedSlots)
    BY <1>1
  <2>2. next_id \in 0..FixedSetup.ids /\ DOMAIN live \subseteq 1..next_id
    BY <1>1, <1>2, FixedConstants
  <2>3. QED
    BY Zenon, <1>1, <2>1, <2>2 DEF Fixed!TypeOK, FixedSlots
<1>6. Stacked(FixedSlots, free_list, live)
  BY <1>1, <1>4, StackedEmpty
<1>7. Len(<<>>) = 0
  OBVIOUS
<1>8. /\ live_bytes = FixedSetup.object_size * live_count
      /\ FixedSetup.block_slots * Cardinality(blocks) <= total_slots
      /\ total_slots <= FixedSetup.capacity
  BY <1>1, <1>3, FixedConstants
<1>9. QED
  BY <1>1, <1>2, <1>3, <1>5, <1>6, <1>7, <1>8 DEF FixedInv

(* A call that only reports.                                               *)
LEMMA FixedFails ==
  ASSUME FixedInv,
         NEW code \in {"ok", "size_too_large", "alignment_unsupported", "capacity_exceeded",
                       "out_of_memory", "invalid_handle"},
         Fixed!Fails(code)
  PROVE  FixedInv'
<1>1. /\ result' = code
      /\ UNCHANGED <<blocks, free_list, live, next_id, total_slots, live_count, live_bytes,
                     closed>>
  BY DEF Fixed!Fails, Fixed!slots, Fixed!gauges
<1>2. QED
  BY <1>1 DEF FixedInv, Fixed!TypeOK, FixedSlots

LEMMA FixedStutter ==
  ASSUME FixedInv, UNCHANGED Fixed!vars
  PROVE  FixedInv'
BY DEF FixedInv, Fixed!TypeOK, FixedSlots, Fixed!vars, Fixed!slots, Fixed!gauges

(* A slot is taken from the stack s, which fits what is live.              *)
LEMMA FixedTake ==
  ASSUME NEW S, NEW s, Stacked(S, s, live), s # <<>>, Fixed!Take(s),
         next_id \in Nat, DOMAIN live \subseteq 1..next_id,
         live_count = Cardinality(DOMAIN live),
         live_bytes = FixedSetup.object_size * live_count
  PROVE  /\ Stacked(S, free_list', live')
         /\ next_id' = next_id + 1 /\ DOMAIN live' \subseteq 1..next_id'
         /\ live_count' = Cardinality(DOMAIN live') /\ live_count' \in Nat
         /\ live_bytes' = FixedSetup.object_size * live_count' /\ live_bytes' \in Nat
         /\ closed' = closed /\ result' = "ok"
         /\ Len(free_list') + Cardinality(DOMAIN live') = Len(s) + Cardinality(DOMAIN live)
<1> DEFINE id == next_id + 1
<1>1. /\ free_list' = Front(s)
      /\ live' = [h \in DOMAIN live \cup {id} |-> IF h = id THEN Last(s) ELSE live[h]]
      /\ next_id' = id /\ live_count' = live_count + 1
      /\ live_bytes' = live_bytes + FixedSetup.object_size
      /\ closed' = closed /\ result' = "ok"
  BY FixedOps DEF Fixed!Take
<1>2. id \notin DOMAIN live
  OBVIOUS
<1> DEFINE new == live'
<1> HIDE DEF id
<1>0. /\ DOMAIN new = DOMAIN live \cup {id} /\ new[id] = Last(s)
       /\ \A h \in DOMAIN live : new[h] = live[h]
  BY <1>1, <1>2
<1> HIDE DEF new
<1>3. /\ Stacked(S, Front(s), new)
      /\ DOMAIN new = DOMAIN live \cup {id}
      /\ Cardinality(DOMAIN live) \in Nat
      /\ Cardinality(DOMAIN new) = Cardinality(DOMAIN live) + 1
      /\ Len(s) \in Nat /\ Len(Front(s)) = Len(s) - 1
  BY <1>2, <1>0, StackedTake
<1>4. DOMAIN live' \subseteq 1..next_id'
  BY <1>1, <1>3 DEF id, new
<1>5. /\ FixedSetup.object_size * (live_count + 1)
           = FixedSetup.object_size * live_count + FixedSetup.object_size
      /\ FixedSetup.object_size * (live_count + 1) \in Nat
  <2> DEFINE z == FixedSetup.object_size
             c == live_count
  <2>1. z \in Nat /\ c \in Nat
    BY <1>3, FixedConstants
  <2> HIDE DEF z, c
  <2>2. z * (c + 1) = z * c + z /\ z * (c + 1) \in Nat
    BY <2>1
  <2>3. QED
    BY <2>2 DEF z, c
<1>6. live_bytes' = FixedSetup.object_size * live_count' /\ live_bytes' \in Nat
  BY <1>1, <1>3, <1>5
<1>7. QED
  BY <1>1, <1>3, <1>4, <1>6 DEF id, new

LEMMA FixedAllocate ==
  ASSUME FixedInv, NEW req, Fixed!Allocate(req)
  PROVE  FixedInv'
<1>1. /\ next_id < FixedSetup.ids /\ free_list # <<>> /\ Fixed!Take(free_list)
      /\ blocks' = blocks /\ total_slots' = total_slots
  BY DEF Fixed!Allocate, Fixed!slots
<1>2. /\ next_id \in Nat /\ DOMAIN live \subseteq 1..next_id
      /\ live_count = Cardinality(DOMAIN live)
      /\ live_bytes = FixedSetup.object_size * live_count
      /\ Stacked(FixedSlots, free_list, live)
  BY FixedConstants DEF FixedInv, Fixed!TypeOK
<1>3. FixedSlots' = FixedSlots
  BY <1>1 DEF FixedSlots
<1>4. /\ Stacked(FixedSlots, free_list', live')
      /\ next_id' = next_id + 1 /\ DOMAIN live' \subseteq 1..next_id'
      /\ live_count' = Cardinality(DOMAIN live') /\ live_count' \in Nat
      /\ live_bytes' = FixedSetup.object_size * live_count' /\ live_bytes' \in Nat
      /\ closed' = closed /\ result' = "ok"
      /\ Len(free_list') + Cardinality(DOMAIN live')
           = Len(free_list) + Cardinality(DOMAIN live)
  BY <1>1, <1>2, FixedTake
<1>5. Fixed!TypeOK'
  <2>1. next_id' \in 0..FixedSetup.ids
    BY <1>1, <1>2, <1>4, FixedConstants
  <2>2. free_list' \in Seq(FixedSlots')
    BY <1>3, <1>4 DEF Stacked
  <2>3. QED
    BY Zenon, <1>1, <1>4, <2>1, <2>2 DEF FixedInv, Fixed!TypeOK, FixedSlots
<1>6. QED
  BY <1>1, <1>3, <1>4, <1>5 DEF FixedInv

LEMMA FixedGrow ==
  ASSUME FixedInv, NEW req, Fixed!AllocateGrow(req)
  PROVE  FixedInv'
<1> DEFINE n == FixedSetup.block_slots
<1>1. /\ next_id < FixedSetup.ids /\ free_list = <<>>
      /\ total_slots + n <= FixedSetup.capacity /\ total_slots' = total_slots + n
  BY DEF Fixed!AllocateGrow, Fixed!MayGrow
<1>2. PICK b \in FixedSetup.places :
        /\ Fixed!Vacant(b) /\ blocks' = blocks \cup {b}
        /\ Fixed!Take([i \in 1..n |-> Fixed!Slot(b, i - 1)])
  BY Zenon DEF Fixed!AllocateGrow
<1> DEFINE t == [i \in 1..n |-> Fixed!Slot(b, i - 1)]
           S == FixedSlots \cup Fixed!SlotsOf(b)
<1>3. /\ n \in Nat /\ n > 0 /\ b \in Nat /\ FixedBytes \in Nat /\ FixedBytes > 0
      /\ FixedSetup.ids \in Nat /\ FixedSetup.capacity \in Nat
  BY FixedConstants
<1>4. /\ next_id \in Nat /\ DOMAIN live \subseteq 1..next_id
      /\ live_count = Cardinality(DOMAIN live)
      /\ live_bytes = FixedSetup.object_size * live_count
      /\ Stacked(FixedSlots, <<>>, live)
      /\ blocks \subseteq FixedSetup.places /\ IsFiniteSet(blocks)
      /\ total_slots \in Nat /\ n * Cardinality(blocks) <= total_slots
      /\ \A c, d \in blocks : c = d \/ c + FixedBytes <= d \/ d + FixedBytes <= c
      /\ ~ closed => total_slots = Len(free_list) + Cardinality(DOMAIN live)
      /\ closed \in BOOLEAN
  BY <1>1, FixedConstants DEF FixedInv, Fixed!TypeOK
<1>5. \A c \in blocks : c \in Nat /\ (b + FixedBytes <= c \/ c + FixedBytes <= b)
  BY <1>2, <1>4, FixedConstants DEF Fixed!Vacant, FixedBytes
<1>6. b \notin blocks
  BY <1>3, <1>5
<1>7. FixedSlots' = S
  BY <1>2 DEF FixedSlots
<1>8. Fixed!SlotsOf(b) \cap FixedSlots = {}
  <2> SUFFICES ASSUME NEW x \in Fixed!SlotsOf(b), NEW c \in blocks, x \in Fixed!SlotsOf(c)
               PROVE  FALSE
    BY DEF FixedSlots
  <2>1. /\ x \in Nat /\ b <= x /\ x + Fixed!SlotStride <= b + FixedBytes
        /\ Fixed!SlotStride \in Nat /\ Fixed!SlotStride > 0
    BY <1>3, FixedSlot, FixedConstants
  <2>2. c <= x /\ x + Fixed!SlotStride <= c + FixedBytes
    BY <1>5, FixedSlot
  <2>3. QED
    BY <1>3, <1>5, <2>1, <2>2
<1>9. /\ t \in Seq(Fixed!SlotsOf(b)) /\ t # <<>> /\ IsInjective(t)
      /\ Len(t) = n /\ ToSet(t) = Fixed!SlotsOf(b)
  BY <1>3, FixedBlock
<1>10. Fixed!Take(t)
  BY <1>2
<1> HIDE DEF n, t, S
<1>11. Stacked(S, t, live)
  BY <1>4, <1>8, <1>9, StackedGrow DEF S
<1>12. /\ Stacked(S, free_list', live')
       /\ next_id' = next_id + 1 /\ DOMAIN live' \subseteq 1..next_id'
       /\ live_count' = Cardinality(DOMAIN live') /\ live_count' \in Nat
       /\ live_bytes' = FixedSetup.object_size * live_count' /\ live_bytes' \in Nat
       /\ closed' = closed /\ result' = "ok"
       /\ Len(free_list') + Cardinality(DOMAIN live') = Len(t) + Cardinality(DOMAIN live)
  BY <1>4, <1>9, <1>10, <1>11, FixedTake
<1>13. /\ IsFiniteSet(blocks') /\ Cardinality(blocks) \in Nat
       /\ Cardinality(blocks') = Cardinality(blocks) + 1
  BY <1>2, <1>4, <1>6, FS_AddElement, FS_CardinalityType
<1>14. n * Cardinality(blocks') <= total_slots'
  <2>1. /\ n * (Cardinality(blocks) + 1) = n * Cardinality(blocks) + n
        /\ n * Cardinality(blocks) \in Nat
    BY <1>3, <1>13
  <2>2. QED
    BY <1>1, <1>3, <1>4, <1>13, <2>1 DEF n
<1>15. total_slots' \in Nat /\ total_slots' <= FixedSetup.capacity
  BY <1>1, <1>3, <1>4 DEF n
<1>16. ~ closed' => total_slots' = Len(free_list') + Cardinality(DOMAIN live')
  <2>1. Len(<<>>) = 0 /\ Cardinality(DOMAIN live) \in Nat
    BY <1>4, FS_CardinalityType DEF Stacked
  <2>2. ~ closed => total_slots = Cardinality(DOMAIN live)
    BY <1>1, <1>4, <2>1
  <2>3. QED
    BY <1>1, <1>3, <1>9, <1>12, <2>1, <2>2 DEF n
<1>17. \A c, d \in blocks' : c = d \/ c + FixedBytes <= d \/ d + FixedBytes <= c
  BY <1>2, <1>4, <1>5
<1>18. Fixed!TypeOK'
  <2>1. next_id' \in 0..FixedSetup.ids
    BY SMTT(60), <1>1, <1>3, <1>4, <1>12
  <2>2. free_list' \in Seq(FixedSlots')
    BY <1>7, <1>12 DEF Stacked
  <2>3. blocks' \subseteq FixedSetup.places /\ closed' \in BOOLEAN
    BY Zenon, <1>2, <1>4, <1>12
  <2>4. QED
    BY <1>12, <1>15, <2>1, <2>2, <2>3 DEF Fixed!TypeOK, FixedSlots
<1>19. QED
  BY <1>7, <1>12, <1>13, <1>14, <1>15, <1>16, <1>17, <1>18 DEF FixedInv, n

LEMMA FixedFree ==
  ASSUME FixedInv, NEW h, Fixed!Free(h)
  PROVE  FixedInv'
<1>1. /\ h \in DOMAIN live
      /\ free_list' = Append(free_list, live[h])
      /\ live' = [g \in DOMAIN live \ {h} |-> live[g]]
      /\ live_count' = IF live_count > 0 THEN live_count - 1 ELSE live_count
      /\ live_bytes' = IF live_bytes >= FixedSetup.object_size
                         THEN live_bytes - FixedSetup.object_size ELSE live_bytes
      /\ result' = "ok" /\ next_id' = next_id /\ closed' = closed
      /\ blocks' = blocks /\ total_slots' = total_slots
  BY DEF Fixed!Free, Fixed!slots
<1>2. /\ next_id \in Nat /\ DOMAIN live \subseteq 1..next_id
      /\ live_count = Cardinality(DOMAIN live)
      /\ live_bytes = FixedSetup.object_size * live_count
      /\ Stacked(FixedSlots, free_list, live)
      /\ ~ closed => total_slots = Len(free_list) + Cardinality(DOMAIN live)
  BY FixedConstants DEF FixedInv, Fixed!TypeOK
<1>3. FixedSlots' = FixedSlots
  BY <1>1 DEF FixedSlots
<1> DEFINE new == live'
<1>9. DOMAIN new = DOMAIN live \ {h} /\ \A g \in DOMAIN new : new[g] = live[g]
  BY <1>1
<1> HIDE DEF new
<1>4. /\ Stacked(FixedSlots, Append(free_list, live[h]), new)
      /\ DOMAIN new = DOMAIN live \ {h}
      /\ Cardinality(DOMAIN live) \in Nat /\ Cardinality(DOMAIN live) > 0
      /\ Cardinality(DOMAIN new) = Cardinality(DOMAIN live) - 1
      /\ Len(free_list) \in Nat /\ Len(Append(free_list, live[h])) = Len(free_list) + 1
  <2>1. h \in DOMAIN live /\ Stacked(FixedSlots, free_list, live)
    BY <1>1, <1>2
  <2>2. Stacked(FixedSlots, Append(free_list, live[h]), new)
    BY <1>9, <2>1, StackedFree
  <2>3. /\ Cardinality(DOMAIN live) \in Nat /\ Cardinality(DOMAIN live) > 0
        /\ Cardinality(DOMAIN new) = Cardinality(DOMAIN live) - 1
    <3>1. IsFiniteSet(DOMAIN live) /\ \A g \in DOMAIN live : live[g] = live[h] => g = h
      BY <2>1 DEF Stacked
    <3>2. QED
      BY <1>9, <2>1, <3>1, HandleDropped
  <2>4. Len(free_list) \in Nat /\ Len(Append(free_list, live[h])) = Len(free_list) + 1
    BY <1>9, <2>1, StackedFree
  <2>5. QED
    BY <1>9, <2>2, <2>3, <2>4
<1>5. /\ live_count' = Cardinality(DOMAIN live') /\ live_count' \in Nat
      /\ live_bytes' = FixedSetup.object_size * live_count' /\ live_bytes' \in Nat
  <2> DEFINE c == Cardinality(DOMAIN live)
             z == FixedSetup.object_size
  <2>1. z \in Nat /\ c \in Nat /\ c > 0
    BY <1>4, FixedConstants
  <2>2. live_count' = c - 1
    BY <1>1, <1>2, <2>1
  <2>3. z * c = z * (c - 1) + z /\ z * (c - 1) \in Nat
    BY <2>1
  <2>4. live_bytes' = z * (c - 1)
    BY <1>1, <1>2, <2>1, <2>3
  <2>5. QED
    BY <1>4, <2>1, <2>2, <2>3, <2>4 DEF new
<1>6. Fixed!TypeOK'
  <2>1. free_list' \in Seq(FixedSlots')
    BY <1>1, <1>3, <1>4 DEF Stacked
  <2>2. QED
    BY <1>1, <1>2, <1>4, <1>5, <2>1 DEF FixedInv, Fixed!TypeOK, FixedSlots, new
<1>7. ~ closed' => total_slots' = Len(free_list') + Cardinality(DOMAIN live')
  BY <1>1, <1>2, <1>4 DEF new
<1>8. QED
  BY <1>1, <1>3, <1>4, <1>5, <1>6, <1>7 DEF FixedInv, new

LEMMA FixedDiscard ==
  ASSUME FixedInv, Fixed!Discard, total_slots' \in {0, total_slots},
         closed' \in BOOLEAN, ~ closed' => total_slots' = 0
  PROVE  FixedInv'
<1>1. /\ blocks' = {} /\ free_list' = <<>> /\ live' = [x \in {} |-> 0]
      /\ live_count' = 0 /\ live_bytes' = 0 /\ result' = "ok" /\ next_id' = next_id
  BY DEF Fixed!Discard, Fixed!Empty
<1>2. DOMAIN live' = {} /\ Cardinality(DOMAIN live') = 0
  BY <1>1, NoHandles
<1>3. IsFiniteSet({}) /\ Cardinality({}) = 0 /\ Len(<<>>) = 0
  BY FS_EmptySet
<1>4. FixedSlots' = {}
  BY <1>1 DEF FixedSlots
<1>5. total_slots' \in Nat /\ total_slots' <= FixedSetup.capacity
  BY FixedConstants DEF FixedInv, Fixed!TypeOK
<1>6. Fixed!TypeOK'
  BY <1>1, <1>2, <1>5 DEF FixedInv, Fixed!TypeOK
<1> DEFINE new == live'
<1>7. Stacked({}, <<>>, new)
  BY <1>1, StackedEmpty
<1>8. /\ live_bytes' = FixedSetup.object_size * live_count'
      /\ FixedSetup.block_slots * Cardinality(blocks') <= total_slots'
  BY <1>1, <1>3, <1>5, FixedConstants
<1>9. QED
  BY <1>1, <1>2, <1>3, <1>4, <1>5, <1>6, <1>7, <1>8 DEF FixedInv

LEMMA FixedNext ==
  ASSUME FixedInv, Fixed!Next
  PROVE  FixedInv'
<1>1. ASSUME NEW req, Fixed!AllocateRejected(req)
      PROVE  FixedInv'
  BY <1>1, FixedFails DEF Fixed!AllocateRejected, Fixed!Admission
<1>2. ASSUME NEW req, Fixed!AllocateExhausted(req)
      PROVE  FixedInv'
  BY <1>2, FixedFails DEF Fixed!AllocateExhausted
<1>3. ASSUME NEW h, Fixed!FreeUnknown(h)
      PROVE  FixedInv'
  BY <1>3, FixedFails DEF Fixed!FreeUnknown
<1>4. CASE Fixed!Trim
  BY <1>4, FixedFails DEF Fixed!Trim
<1>5. CASE Fixed!Reset
  BY <1>5, FixedDiscard DEF Fixed!Reset, FixedInv, Fixed!TypeOK
<1>6. CASE Fixed!Shutdown
  BY <1>6, FixedDiscard DEF Fixed!Shutdown
<1>7. ASSUME NEW req, \/ Fixed!AllocateRejected(req) \/ Fixed!Allocate(req)
                       \/ Fixed!AllocateGrow(req) \/ Fixed!AllocateExhausted(req)
      PROVE  FixedInv'
  BY <1>1, <1>2, <1>7, FixedAllocate, FixedGrow
<1>8. ASSUME NEW h, Fixed!FreeUnknown(h) \/ Fixed!Free(h)
      PROVE  FixedInv'
  BY <1>3, <1>8, FixedFree
<1>9. QED
  BY <1>4, <1>5, <1>6, <1>7, <1>8 DEF Fixed!Next

LEMMA FixedHeld ==
  ASSUME FixedInv
  PROVE  Held(Fixed!extents, next_id)
<1>1. /\ next_id \in Nat /\ DOMAIN live \subseteq 1..next_id
      /\ Stacked(FixedSlots, free_list, live)
      /\ \A b, c \in blocks : b = c \/ b + FixedBytes <= c \/ c + FixedBytes <= b
      /\ blocks \subseteq Nat
  BY FixedConstants DEF FixedInv, Fixed!TypeOK
<1>2. DOMAIN Fixed!extents = DOMAIN live
  BY DEF Fixed!extents
<1>3. \A h \in DOMAIN live : Fixed!extents[h] = [addr |-> live[h], size |-> FixedSetup.object_size]
  BY DEF Fixed!extents
<1>4. ASSUME NEW h \in DOMAIN live
      PROVE  live[h] \in Nat /\ \E b \in blocks : live[h] \in Fixed!SlotsOf(b)
  <2>1. live[h] \in FixedSlots
    BY <1>1 DEF Stacked, Range
  <2>2. PICK b \in blocks : live[h] \in Fixed!SlotsOf(b)
    BY <2>1 DEF FixedSlots
  <2>3. b \in Nat
    BY <1>1
  <2>4. QED
    BY <2>2, <2>3, FixedSlot
<1>5. ASSUME NEW g \in DOMAIN live, NEW h \in DOMAIN live, g # h
      PROVE  Contract!Apart(Fixed!extents[g], Fixed!extents[h])
  <2>1. PICK b \in blocks : live[g] \in Fixed!SlotsOf(b)
    BY <1>4
  <2>2. PICK c \in blocks : live[h] \in Fixed!SlotsOf(c)
    BY <1>4
  <2>3. /\ live[g] # live[h] /\ b \in Nat /\ c \in Nat
        /\ b = c \/ b + FixedBytes <= c \/ c + FixedBytes <= b
    BY <1>1, <1>5 DEF Stacked
  <2>4. \/ live[g] + Fixed!SlotStride <= live[h]
        \/ live[h] + Fixed!SlotStride <= live[g]
    BY <2>1, <2>2, <2>3, FixedApart
  <2>5. \/ live[g] + FixedSetup.object_size <= live[h]
        \/ live[h] + FixedSetup.object_size <= live[g]
    BY <1>4, <2>4, FixedConstants
  <2>6. QED
    BY Zenon, <1>3, <2>5, ApartAt
<1>6. \A h \in DOMAIN live : Fixed!extents[h] \in Contract!Extent
  <2>1. FixedSetup.object_size \in Nat \ {0}
    BY FixedConstants
  <2>2. QED
    BY Zenon, <1>3, <1>4, <2>1, ExtentAt
<1>7. QED
  BY <1>1, <1>2, <1>5, <1>6 DEF Held

LEMMA FixedSteps ==
  ASSUME FixedInv, Fixed!Next
  PROVE  /\ Steps(Fixed!extents, Fixed!extents', next_id, next_id')
         /\ next_id' = next_id \/ next_id' \in 1..FixedSetup.ids
<1> DEFINE e == Fixed!extents
           f == Fixed!extents'
           x(s) == [addr |-> s, size |-> FixedSetup.object_size]
<1>1. /\ DOMAIN e = DOMAIN live /\ \A h \in DOMAIN live : e[h] = x(live[h])
      /\ DOMAIN f = DOMAIN live' /\ \A h \in DOMAIN live' : f[h] = x(live'[h])
      /\ f = [h \in DOMAIN f |-> f[h]]
  BY DEF Fixed!extents
<1>2. next_id \in Nat /\ FixedSetup.ids \in Nat /\ DOMAIN live \subseteq 1..next_id
  BY FixedConstants DEF FixedInv, Fixed!TypeOK
<1>3. ASSUME NEW code, Fixed!Fails(code)
      PROVE  f = e /\ next_id' = next_id
  BY <1>3 DEF Fixed!Fails, Fixed!extents
<1>4. ASSUME NEW s, Fixed!Take(s), next_id < FixedSetup.ids
      PROVE  Adds(e, f, next_id, next_id') /\ next_id' \in 1..FixedSetup.ids
  <2>1. /\ next_id' = next_id + 1 /\ DOMAIN live' = DOMAIN live \cup {next_id'}
        /\ \A h \in DOMAIN live : h # next_id' => live'[h] = live[h]
    BY <1>4 DEF Fixed!Take
  <2>2. next_id' \notin DOMAIN live /\ next_id' \in 1..FixedSetup.ids
    BY <1>2, <1>4, <2>1
  <2>3. \A h \in DOMAIN live : live'[h] = live[h]
    BY <2>1, <2>2
  <2> HIDE DEF e, f, x
  <2>4. QED
    BY <1>1, <2>1, <2>2, <2>3 DEF Adds
<1>5. ASSUME NEW h, Fixed!Free(h)
      PROVE  Drops(e, f, h) /\ h \in DOMAIN e /\ next_id' = next_id
  <2>1. /\ next_id' = next_id /\ h \in DOMAIN live /\ DOMAIN live' = DOMAIN live \ {h}
        /\ \A g \in DOMAIN live' : live'[g] = live[g]
    BY <1>5 DEF Fixed!Free
  <2> HIDE DEF e, f, x
  <2>2. QED
    BY <1>1, <2>1 DEF Drops
<1>6. ASSUME Fixed!Discard
      PROVE  Clears(f) /\ next_id' = next_id
  BY <1>1, <1>6 DEF Fixed!Discard, Fixed!Empty, Clears
<1> HIDE DEF e, f, x
<1>7. ASSUME NEW req, \/ Fixed!AllocateRejected(req) \/ Fixed!Allocate(req)
                       \/ Fixed!AllocateGrow(req) \/ Fixed!AllocateExhausted(req)
      PROVE  Steps(e, f, next_id, next_id') /\ (next_id' = next_id \/ next_id' \in 1..FixedSetup.ids)
  BY Zenon, <1>3, <1>4, <1>7 DEF Fixed!AllocateRejected, Fixed!Allocate, Fixed!AllocateGrow,
     Fixed!AllocateExhausted, Steps
<1>8. ASSUME NEW h, Fixed!FreeUnknown(h) \/ Fixed!Free(h)
      PROVE  Steps(e, f, next_id, next_id') /\ next_id' = next_id
  BY <1>3, <1>5, <1>8 DEF Fixed!FreeUnknown, Steps
<1>9. CASE Fixed!Trim \/ Fixed!Reset \/ Fixed!Shutdown
  BY <1>3, <1>6, <1>9 DEF Fixed!Trim, Fixed!Reset, Fixed!Shutdown, Steps, e, f
<1>10. QED
  BY <1>7, <1>8, <1>9 DEF Fixed!Next, e, f

(* What the runs check of the fixed pool.                                  *)
LEMMA FixedSound ==
  ASSUME FixedInv
  PROVE  Fixed!TypeOK /\ Fixed!WithinCapacity /\ Fixed!SlotsConserved
<1>1. Fixed!WithinCapacity
  <2>1. IsFiniteSet(blocks) /\ FixedSetup.block_slots * Cardinality(blocks) <= total_slots
        /\ total_slots <= FixedSetup.capacity /\ total_slots \in Nat
    BY DEF FixedInv, Fixed!TypeOK
  <2>2. Cardinality(blocks) \in Nat
    BY <2>1, FS_CardinalityType
  <2>3. FixedSetup.block_slots * Cardinality(blocks) \in Nat
    BY <2>2, FixedConstants
  <2>4. FixedSetup.block_slots * Cardinality(blocks) <= FixedSetup.capacity
    BY <2>1, <2>3, FixedConstants
  <2>5. QED
    BY <2>4, FixedOps DEF Fixed!WithinCapacity
<1>2. /\ Stacked(FixedSlots, free_list, live)
      /\ live_count = Cardinality(DOMAIN live)
      /\ live_bytes = FixedSetup.object_size * live_count
  BY DEF FixedInv
<1>3. Fixed!LiveSlots = Range(live)
  BY DEF Fixed!LiveSlots, Range
<1>4. Cardinality(Range(live)) = Cardinality(DOMAIN live)
  BY <1>2, RangeSize DEF Stacked
<1>5. Fixed!SlotsConserved
  BY <1>2, <1>3, <1>4, FixedOps DEF Fixed!SlotsConserved, Stacked, FixedSlots
<1>6. QED
  BY <1>1, <1>5 DEF FixedInv

(* It refuses for its capacity only when it is full.                       *)
LEMMA FixedRefuses ==
  ASSUME FixedInv, Fixed!Next, ~ closed, result' = "capacity_exceeded"
  PROVE  Fixed!Full
<1>1. PICK req : Fixed!AllocateExhausted(req)
  BY DEF Fixed!Next, Fixed!AllocateRejected, Fixed!Admission, Fixed!Allocate,
     Fixed!AllocateGrow, Fixed!Take, Fixed!Fails, Fixed!FreeUnknown, Fixed!Free, Fixed!Trim,
     Fixed!Reset, Fixed!Shutdown, Fixed!Discard
<1>2. free_list = <<>> /\ ~ (total_slots + FixedSetup.block_slots <= FixedSetup.capacity)
  BY <1>1 DEF Fixed!AllocateExhausted, Fixed!Fails, Fixed!MayGrow
<1>3. /\ total_slots = Len(free_list) + Cardinality(DOMAIN live)
      /\ total_slots \in Nat /\ IsFiniteSet(DOMAIN live)
  BY DEF FixedInv, Fixed!TypeOK, Stacked
<1>4. Cardinality(DOMAIN live) \in Nat /\ Len(<<>>) = 0
  BY <1>3, FS_CardinalityType
<1>5. Cardinality(DOMAIN live) + FixedSetup.block_slots > FixedSetup.capacity
  BY <1>2, <1>3, <1>4, FixedConstants
<1>6. QED
  BY <1>5, FixedOps DEF Fixed!Full

-----------------------------------------------------------------------------
(* The size-class pool.                                                    *)

LEMMA ClassOps ==
  /\ \A s : /\ Class!ToSet(s) = ToSet(s) /\ Class!Front(s) = Front(s)
            /\ Class!Last(s) = Last(s) /\ Class!IsInjective(s) = IsInjective(s)
  /\ \A S : Class!Cardinality(S) = Cardinality(S)
  /\ \A f : Class!SumFunction(f) = SumFunction(f)
<1>1. \A s : /\ Class!ToSet(s) = ToSet(s) /\ Class!Front(s) = Front(s)
             /\ Class!Last(s) = Last(s) /\ Class!IsInjective(s) = IsInjective(s)
  BY DEF Class!ToSet, ToSet, Class!Front, Front, Class!Last, Last,
         Class!IsInjective, IsInjective
<1>2. \A S : Class!Cardinality(S) = Cardinality(S)
  BY DEF Class!Cardinality, Cardinality
<1>3. \A f : Class!SumFunction(f) = SumFunction(f)
  BY DEF Class!SumFunction, Class!SumFunctionOnSet, Class!FoldFunctionOnSet,
         Class!MapThenFoldSet, SumFunction, SumFunctionOnSet, FoldFunctionOnSet, MapThenFoldSet
<1>4. QED
  BY <1>1, <1>2, <1>3

ClassSlots(c, b) == {Class!Slot(c, b, i) : i \in 0..(ClassSetup.block_slots - 1)}
ClassLive(c) == [h \in {g \in DOMAIN live : live[g].class_idx = c} |-> live[h].ptr]
ClassSize == [h \in DOMAIN live |-> ClassSetup.class_sizes[live[h].class_idx]]
ClassBytes == [c \in Class!Class |-> Class!BlockBytes(c) * Cardinality(class_blocks[c])]

(* Blocks lie apart, of whatever classes they are; the slots of each class *)
(* are those on its stack and those behind its handles.                    *)
ClassInv ==
  /\ Class!TypeOK
  /\ DOMAIN class_free_list = Class!Class
  /\ \A c, d \in Class!Class : \A b \in class_blocks[c], e \in class_blocks[d] :
       (c = d /\ b = e) \/ b + Class!BlockBytes(c) <= e \/ e + Class!BlockBytes(d) <= b
  /\ \A c \in Class!Class :
       /\ Stacked(Class!SlotsOf(c), class_free_list[c], ClassLive(c))
       /\ IsFiniteSet(class_blocks[c])
  /\ total_bytes = SumFunction(ClassBytes)
  /\ live_count = Cardinality(DOMAIN live)
  /\ live_bytes = SumFunction(ClassSize)
  /\ granted >= requested /\ granted >= live_bytes

LEMMA ClassConstants ==
  /\ \A c \in Class!Class :
       /\ ClassSetup.class_sizes[c] \in Nat /\ ClassSetup.class_sizes[c] > 0
       /\ Class!SlotStride(c) \in Nat /\ Class!SlotStride(c) > 0
       /\ ClassSetup.class_sizes[c] <= Class!SlotStride(c)
       /\ Class!BlockBytes(c) = ClassSetup.block_slots * Class!SlotStride(c)
       /\ Class!BlockBytes(c) \in Nat /\ Class!BlockBytes(c) > 0
  /\ ClassSetup.block_slots \in Nat /\ ClassSetup.block_slots > 0
  /\ ClassSetup.max_bytes \in Nat /\ ClassSetup.max_allocation \in Nat /\ ClassSetup.ids \in Nat
  /\ ClassSetup.places \subseteq Nat
  /\ ClassSetup.requests \subseteq [size : Nat, alignment : Nat]
  /\ IsFiniteSet(Class!Class)
  /\ Class!Class = 1..Len(ClassSetup.class_sizes)
  /\ ClassSetup.class_sizes \in Seq(Nat) /\ Len(ClassSetup.class_sizes) \in Nat
<1> DEFINE P == Class!PowersOfTwo
<1>1. Class!Assumptions
  BY StrategyAssumptions
<1>2. P \subseteq Nat /\ 16 \in P
  <2>1. 2^4 = 16 /\ 4 \in 0..12
    OBVIOUS
  <2>2. QED
    BY <2>1 DEF Class!PowersOfTwo
<1>3. /\ ClassSetup.class_sizes \in Seq(Nat \ {0})
      /\ ClassSetup.block_slots \in Nat /\ ClassSetup.block_slots > 0
      /\ ClassSetup.max_bytes \in Nat /\ ClassSetup.max_allocation \in Nat
      /\ ClassSetup.ids \in Nat /\ ClassSetup.places \subseteq Nat
      /\ ClassSetup.requests \subseteq [size : Nat, alignment : Nat]
      /\ Class!Class = 1..Len(ClassSetup.class_sizes)
  BY <1>1 DEF Class!Assumptions, Class!Class
<1>4. /\ IsFiniteSet(Class!Class)
      /\ ClassSetup.class_sizes \in Seq(Nat) /\ Len(ClassSetup.class_sizes) \in Nat
  <2>1. ClassSetup.class_sizes \in Seq(Nat) /\ Len(ClassSetup.class_sizes) \in Nat
    BY <1>3
  <2>2. QED
    BY <1>3, <2>1, FS_Interval
<1>5. ASSUME NEW c \in Class!Class
      PROVE  /\ ClassSetup.class_sizes[c] \in Nat /\ ClassSetup.class_sizes[c] > 0
             /\ Class!SlotStride(c) \in Nat /\ Class!SlotStride(c) > 0
             /\ ClassSetup.class_sizes[c] <= Class!SlotStride(c)
             /\ Class!BlockBytes(c) = ClassSetup.block_slots * Class!SlotStride(c)
             /\ Class!BlockBytes(c) \in Nat /\ Class!BlockBytes(c) > 0
  <2> DEFINE size == ClassSetup.class_sizes[c]
             least == IF size > 16 THEN size ELSE 16
             q == Class!SlotStride(c)
             n == ClassSetup.block_slots
  <2>1. size \in Nat /\ size > 0
    BY <1>3
  <2>2. PICK p \in P : size <= p
    BY <1>1 DEF Class!Assumptions
  <2>3. least \in Nat /\ size <= least /\ least > 0 /\ (least = size \/ least = 16)
    BY <2>1
  <2> HIDE DEF least
  <2>4. \E r \in P : r >= least
    <3>1. 16 \in P /\ p \in P /\ p \in Nat
      BY <1>2, <2>2
    <3>2. p >= least \/ 16 >= least
      BY <2>1, <2>2, <2>3, <3>1
    <3>3. QED
      BY <3>1, <3>2
  <2>5. LET r == CHOOSE r \in P : r >= least /\ \A t \in P : t >= least => r <= t
        IN r \in P /\ r >= least
    BY <1>2, <2>3, <2>4, LeastPower
  <2>6. q \in P /\ q >= least
    BY <2>5 DEF Class!SlotStride, least
  <2> HIDE DEF P, size, q, n
  <2>7. q \in Nat /\ q > 0 /\ size <= q
    BY <1>2, <2>1, <2>3, <2>6
  <2>8. Class!BlockBytes(c) = q * n /\ n \in Nat /\ n > 0
    BY <1>3 DEF Class!BlockBytes, q, n
  <2>9. q * n = n * q /\ q * n \in Nat /\ q * n > 0
    BY <2>7, <2>8
  <2>10. QED
    BY <2>1, <2>7, <2>8, <2>9 DEF size, q, n
<1>6. QED
  BY <1>3, <1>4, <1>5

(* The slots of a block of class c at b.                                   *)
LEMMA ClassLadder ==
  ASSUME NEW c, NEW b
  PROVE  /\ ClassSlots(c, b) = Ladder(b, Class!SlotStride(c), ClassSetup.block_slots)
         /\ [i \in 1..ClassSetup.block_slots |-> Class!Slot(c, b, i - 1)]
              = LadderSeq(b, Class!SlotStride(c), ClassSetup.block_slots)
BY DEF ClassSlots, Class!Slot, Ladder, LadderSeq

LEMMA ClassSlotsOf ==
  ASSUME NEW c
  PROVE  Class!SlotsOf(c) = UNION {ClassSlots(c, b) : b \in class_blocks[c]}
BY DEF Class!SlotsOf, ClassSlots

LEMMA ClassSlot ==
  ASSUME NEW c \in Class!Class, NEW b \in Nat, NEW x \in ClassSlots(c, b)
  PROVE  x \in Nat /\ b <= x /\ x + Class!SlotStride(c) <= b + Class!BlockBytes(c)
<1> DEFINE s == Class!SlotStride(c)
           n == ClassSetup.block_slots
<1>1. /\ s \in Nat /\ s > 0 /\ n \in Nat /\ Class!BlockBytes(c) = n * s
      /\ x \in Ladder(b, s, n)
  BY Zenon, ClassConstants, ClassLadder
<1> HIDE DEF s, n
<1>2. x \in Nat /\ b <= x /\ x + s <= b + n * s
  BY <1>1, LadderSlot
<1>3. QED
  BY <1>1, <1>2 DEF s

(* Two slots are one, or lie apart.                                        *)
LEMMA ClassApart ==
  ASSUME NEW c \in Class!Class, NEW d \in Class!Class, NEW b \in Nat, NEW e \in Nat,
         (c = d /\ b = e) \/ b + Class!BlockBytes(c) <= e \/ e + Class!BlockBytes(d) <= b,
         NEW x \in ClassSlots(c, b), NEW y \in ClassSlots(d, e), x # y
  PROVE  x + Class!SlotStride(c) <= y \/ y + Class!SlotStride(d) <= x
<1>1. CASE c = d /\ b = e
  <2> DEFINE s == Class!SlotStride(c)
             n == ClassSetup.block_slots
  <2>1. /\ s \in Nat /\ s > 0 /\ n \in Nat
        /\ x \in Ladder(b, s, n) /\ y \in Ladder(b, s, n)
    BY Zenon, <1>1, ClassConstants, ClassLadder
  <2> HIDE DEF s, n
  <2>2. x + s <= y \/ y + s <= x
    BY <2>1, LadderApart
  <2>3. QED
    BY <1>1, <2>2 DEF s
<1>2. CASE ~ (c = d /\ b = e)
  <2>1. /\ x \in Nat /\ b <= x /\ x + Class!SlotStride(c) <= b + Class!BlockBytes(c)
        /\ y \in Nat /\ e <= y /\ y + Class!SlotStride(d) <= e + Class!BlockBytes(d)
        /\ Class!SlotStride(c) \in Nat /\ Class!BlockBytes(c) \in Nat
        /\ Class!SlotStride(d) \in Nat /\ Class!BlockBytes(d) \in Nat
    BY ClassSlot, ClassConstants
  <2>2. QED
    BY <1>2, <2>1
<1>3. QED
  BY <1>1, <1>2

LEMMA ClassBlock ==
  ASSUME NEW c \in Class!Class, NEW b \in Nat
  PROVE  LET t == [i \in 1..ClassSetup.block_slots |-> Class!Slot(c, b, i - 1)]
         IN /\ t \in Seq(ClassSlots(c, b)) /\ t # <<>> /\ IsInjective(t)
            /\ Len(t) = ClassSetup.block_slots
            /\ ToSet(t) = ClassSlots(c, b)
<1> DEFINE s == Class!SlotStride(c)
           n == ClassSetup.block_slots
           S == ClassSlots(c, b)
           t == [i \in 1..n |-> Class!Slot(c, b, i - 1)]
<1>1. s \in Nat /\ s > 0 /\ n \in Nat /\ n > 0
  BY ClassConstants
<1>2. S = Ladder(b, s, n) /\ t = LadderSeq(b, s, n)
  BY ClassLadder
<1> HIDE DEF s, n, t, S
<1>3. LET u == LadderSeq(b, s, n)
      IN /\ u \in Seq(Ladder(b, s, n)) /\ u # <<>> /\ IsInjective(u)
         /\ Len(u) = n
         /\ ToSet(u) = Ladder(b, s, n)
  BY <1>1, LadderBlock
<1>4. /\ t \in Seq(S) /\ t # <<>> /\ IsInjective(t) /\ Len(t) = n /\ ToSet(t) = S
  BY <1>2, <1>3
<1>5. QED
  BY Zenon, <1>4 DEF s, n, t, S

(* Nothing is held.                                                        *)
LEMMA ClassEmpty ==
  ASSUME class_blocks = [c \in Class!Class |-> {}],
         class_free_list = [c \in Class!Class |-> <<>>], live = [x \in {} |-> 0],
         next_id \in 0..ClassSetup.ids, total_bytes = 0, live_count = 0, live_bytes = 0,
         requested \in Nat, granted \in Nat, granted >= requested, result = "ok"
  PROVE  ClassInv
<1>1. DOMAIN live = {} /\ Cardinality(DOMAIN live) = 0
  BY NoHandles
<1>2. IsFiniteSet({}) /\ Cardinality({}) = 0
  BY FS_EmptySet
<1>3. ASSUME NEW c \in Class!Class
      PROVE  /\ Stacked(Class!SlotsOf(c), class_free_list[c], ClassLive(c))
             /\ IsFiniteSet(class_blocks[c])
  <2>1. Class!SlotsOf(c) = {} /\ class_free_list[c] = <<>> /\ class_blocks[c] = {}
    BY DEF Class!SlotsOf
  <2>2. ClassLive(c) = [x \in {} |-> 0]
    BY <1>1 DEF ClassLive
  <2>3. QED
    BY <1>2, <2>1, <2>2, StackedEmpty
<1>4. SumFunction(ClassBytes) = 0
  <2>1. /\ DOMAIN ClassBytes = Class!Class
        /\ \A c \in Class!Class : ClassBytes[c] = 0
    <3>1. \A c \in Class!Class : /\ Class!BlockBytes(c) \in Nat
                                 /\ Cardinality(class_blocks[c]) = 0
      BY <1>2, ClassConstants
    <3>2. \A c \in Class!Class : Class!BlockBytes(c) * Cardinality(class_blocks[c]) = 0
      BY <3>1
    <3>3. QED
      BY <3>2 DEF ClassBytes
  <2>2. QED
    BY Zenon, <2>1, SumZero, ClassConstants
<1>5. SumFunction(ClassSize) = 0
  <2>1. DOMAIN ClassSize = {}
    BY <1>1 DEF ClassSize
  <2>2. QED
    BY <2>1, SumNone
<1>6. Class!TypeOK
  <2>1. class_blocks \in [Class!Class -> SUBSET ClassSetup.places]
    OBVIOUS
  <2>2. \A c \in Class!Class : class_free_list[c] \in Seq(Nat)
    OBVIOUS
  <2>3. total_bytes \in 0..ClassSetup.max_bytes
    BY ClassConstants
  <2>4. QED
    BY <1>1, <2>1, <2>2, <2>3 DEF Class!TypeOK
<1>7. \A c, d \in Class!Class : \A b \in class_blocks[c], e \in class_blocks[d] :
        (c = d /\ b = e) \/ b + Class!BlockBytes(c) <= e \/ e + Class!BlockBytes(d) <= b
  OBVIOUS
<1>8. QED
  BY <1>1, <1>3, <1>4, <1>5, <1>6, <1>7 DEF ClassInv

(* A table of class c gains the handle id, or loses it; the others stay.   *)
LEMMA ClassLiveGains ==
  ASSUME NEW c \in Class!Class, NEW id, id \notin DOMAIN live, NEW x,
         DOMAIN live' = DOMAIN live \cup {id}, live'[id] = [ptr |-> x, class_idx |-> c],
         \A h \in DOMAIN live : live'[h] = live[h]
  PROVE  /\ id \notin DOMAIN ClassLive(c) /\ ClassLive(c)'[id] = x
         /\ DOMAIN (ClassLive(c)') = DOMAIN ClassLive(c) \cup {id}
         /\ \A h \in DOMAIN ClassLive(c) : ClassLive(c)'[h] = ClassLive(c)[h]
         /\ \A d \in Class!Class \ {c} : ClassLive(d)' = ClassLive(d)
<1>1. live'[id].class_idx = c /\ live'[id].ptr = x
  OBVIOUS
<1>2. \A d \in Class!Class : DOMAIN (ClassLive(d)')
        = DOMAIN ClassLive(d) \cup (IF d = c THEN {id} ELSE {})
  BY <1>1 DEF ClassLive
<1>3. \A d \in Class!Class : \A h \in DOMAIN ClassLive(d) : ClassLive(d)'[h] = ClassLive(d)[h]
  BY DEF ClassLive
<1>4. ClassLive(c)'[id] = x
  BY <1>1 DEF ClassLive
<1>5. ASSUME NEW d \in Class!Class \ {c}
      PROVE  ClassLive(d)' = ClassLive(d)
  <2>1. {g \in DOMAIN live' : live'[g].class_idx = d} = {g \in DOMAIN live : live[g].class_idx = d}
    BY <1>1
  <2>2. QED
    BY <2>1 DEF ClassLive
<1>6. id \notin DOMAIN ClassLive(c)
  BY DEF ClassLive
<1>7. DOMAIN (ClassLive(c)') = DOMAIN ClassLive(c) \cup {id}
  BY <1>2
<1>8. QED
  BY <1>3, <1>4, <1>5, <1>6, <1>7

LEMMA ClassLiveLoses ==
  ASSUME NEW c \in Class!Class, NEW id \in DOMAIN live, live[id].class_idx = c,
         DOMAIN live' = DOMAIN live \ {id},
         \A h \in DOMAIN live' : live'[h] = live[h]
  PROVE  /\ id \in DOMAIN ClassLive(c) /\ ClassLive(c)[id] = live[id].ptr
         /\ DOMAIN (ClassLive(c)') = DOMAIN ClassLive(c) \ {id}
         /\ \A h \in DOMAIN (ClassLive(c)') : ClassLive(c)'[h] = ClassLive(c)[h]
         /\ \A d \in Class!Class \ {c} : ClassLive(d)' = ClassLive(d)
<1>1. id \in DOMAIN ClassLive(c) /\ ClassLive(c)[id] = live[id].ptr
  BY DEF ClassLive
<1>2. DOMAIN (ClassLive(c)') = DOMAIN ClassLive(c) \ {id}
  BY DEF ClassLive
<1>3. \A h \in DOMAIN (ClassLive(c)') : ClassLive(c)'[h] = ClassLive(c)[h]
  BY DEF ClassLive
<1>4. ASSUME NEW d \in Class!Class \ {c}
      PROVE  ClassLive(d)' = ClassLive(d)
  <2>1. {g \in DOMAIN live' : live'[g].class_idx = d} = {g \in DOMAIN live : live[g].class_idx = d}
    OBVIOUS
  <2>2. \A h \in {g \in DOMAIN live : live[g].class_idx = d} : live'[h] = live[h]
    BY <2>1
  <2>3. QED
    BY <2>1, <2>2 DEF ClassLive
<1>5. QED
  BY <1>1, <1>2, <1>3, <1>4

LEMMA ClassInit ==
  ASSUME Class!Init
  PROVE  ClassInv
<1>1. /\ class_blocks = [c \in Class!Class |-> {}]
      /\ class_free_list = [c \in Class!Class |-> <<>>] /\ live = [x \in {} |-> 0]
      /\ next_id = 0 /\ total_bytes = 0
      /\ live_count = 0 /\ live_bytes = 0 /\ requested = 0 /\ granted = 0 /\ result = "ok"
  BY DEF Class!Init, Class!Empty
<1>2. next_id \in 0..ClassSetup.ids /\ requested \in Nat /\ granted \in Nat
      /\ granted >= requested
  BY <1>1, ClassConstants
<1>3. QED
  BY <1>1, <1>2, ClassEmpty

(* What a step that takes or puts back a slot of class c leaves to show.   *)
LEMMA ClassKept ==
  ASSUME ClassInv, NEW c \in Class!Class,
         class_blocks' = class_blocks, total_bytes' = total_bytes,
         Stacked(Class!SlotsOf(c), class_free_list'[c], ClassLive(c)'),
         class_free_list'[c] \in Seq(Nat),
         DOMAIN class_free_list' = Class!Class,
         \A d \in Class!Class \ {c} : /\ class_free_list'[d] = class_free_list[d]
                                      /\ ClassLive(d)' = ClassLive(d),
         next_id' \in 0..ClassSetup.ids, DOMAIN live' \subseteq 1..next_id',
         \A h \in DOMAIN live' : live'[h].ptr \in Nat /\ live'[h].class_idx \in Class!Class,
         live_count' = Cardinality(DOMAIN live'), live_count' \in Nat,
         live_bytes' = SumFunction(ClassSize'), live_bytes' \in Nat,
         requested' \in Nat, granted' \in Nat,
         granted' >= requested', granted' >= live_bytes',
         result' = "ok"
  PROVE  ClassInv'
<1>1. \A d \in Class!Class : Class!SlotsOf(d)' = Class!SlotsOf(d)
  BY DEF Class!SlotsOf
<1>2. ClassBytes' = ClassBytes
  BY DEF ClassBytes
<1>3. \A d \in Class!Class : Stacked(Class!SlotsOf(d), class_free_list'[d], ClassLive(d)')
  BY Zenon DEF ClassInv
<1>4. Class!TypeOK'
  <2>1. \A d \in Class!Class : class_free_list'[d] \in Seq(Nat)
    BY Zenon DEF ClassInv, Class!TypeOK
  <2>2. QED
    BY Zenon, <2>1 DEF ClassInv, Class!TypeOK
<1>5. QED
  BY <1>1, <1>2, <1>3, <1>4 DEF ClassInv

(* The class of an admitted request is large enough.                       *)
LEMMA ClassIndex ==
  ASSUME NEW req \in ClassSetup.requests, Class!Admission(req) = "ok"
  PROVE  /\ Class!ClassIndexFor(req.size) \in Class!Class
         /\ req.size \in Nat
         /\ ClassSetup.class_sizes[Class!ClassIndexFor(req.size)] >= req.size
<1> DEFINE sizes == ClassSetup.class_sizes
           I == {i \in 1..Len(sizes) : sizes[i] >= req.size}
           c == Class!ClassIndexFor(req.size)
<1>1. c # 0
  BY DEF Class!Admission
<1>2. c = IF I # {} THEN Class!Min(I) ELSE 0
  BY DEF Class!ClassIndexFor, Class!SelectInSeq
<1>3. I \in SUBSET Nat /\ I # {}
  BY <1>1, <1>2
<1>4. c \in I
  <2> HIDE DEF I
  <2>1. \E m \in I : \A y \in I : m <= y
    BY <1>3, NatMin
  <2>2. QED
    BY Zenon, <1>2, <1>3, <2>1 DEF Class!Min
<1>5. req.size \in Nat
  BY ClassConstants
<1>6. QED
  BY <1>4, <1>5, ClassConstants

(* Only the result may change.                                             *)
LEMMA ClassUnchanged ==
  ASSUME ClassInv,
         result' \in {"ok", "size_too_large", "alignment_unsupported", "capacity_exceeded",
                      "out_of_memory", "invalid_handle"},
         UNCHANGED <<class_blocks, total_bytes, class_free_list, live, next_id, live_count,
                     live_bytes, requested, granted>>
  PROVE  ClassInv'
<1>1. \A c \in Class!Class : Class!SlotsOf(c)' = Class!SlotsOf(c)
  BY DEF Class!SlotsOf
<1>2. \A c \in Class!Class : ClassLive(c)' = ClassLive(c)
  BY DEF ClassLive
<1>3. ClassSize' = ClassSize /\ ClassBytes' = ClassBytes
  BY DEF ClassSize, ClassBytes
<1>4. Class!TypeOK'
  BY DEF ClassInv, Class!TypeOK
<1>5. \A c \in Class!Class :
        Stacked(Class!SlotsOf(c)', class_free_list'[c], ClassLive(c)') /\ IsFiniteSet(class_blocks'[c])
  BY <1>1, <1>2 DEF ClassInv
<1>6. QED
  BY <1>1, <1>2, <1>3, <1>4, <1>5 DEF ClassInv

(* A call that only reports.                                               *)
LEMMA ClassFails ==
  ASSUME ClassInv,
         NEW code \in {"ok", "size_too_large", "alignment_unsupported", "capacity_exceeded",
                       "out_of_memory", "invalid_handle"},
         Class!Fails(code)
  PROVE  ClassInv'
<1>1. /\ result' = code
      /\ UNCHANGED <<class_blocks, total_bytes, class_free_list, live, next_id, live_count,
                     live_bytes, requested, granted>>
  BY DEF Class!Fails, Class!backing, Class!gauges
<1>2. QED
  BY <1>1, ClassUnchanged

LEMMA ClassStutter ==
  ASSUME ClassInv, UNCHANGED Class!vars
  PROVE  ClassInv'
<1>1. /\ result' = result
      /\ UNCHANGED <<class_blocks, total_bytes, class_free_list, live, next_id, live_count,
                     live_bytes, requested, granted>>
  BY DEF Class!vars, Class!backing, Class!gauges
<1>2. result \in {"ok", "size_too_large", "alignment_unsupported", "capacity_exceeded",
                  "out_of_memory", "invalid_handle"}
  BY DEF ClassInv, Class!TypeOK
<1>3. QED
  BY <1>1, <1>2, ClassUnchanged

(* Each handle has the size of its class.                                  *)
LEMMA ClassSizes ==
  ASSUME ClassInv
  PROVE  /\ DOMAIN ClassSize = DOMAIN live
         /\ \A h \in DOMAIN live : ClassSize[h] = ClassSetup.class_sizes[live[h].class_idx]
         /\ \A h \in DOMAIN ClassSize : ClassSize[h] \in Nat
         /\ next_id \in Nat /\ DOMAIN live \subseteq 1..next_id
         /\ IsFiniteSet(DOMAIN live) /\ next_id + 1 \notin DOMAIN live
<1>1. next_id \in Nat /\ DOMAIN live \subseteq 1..next_id
  BY ClassConstants DEF ClassInv, Class!TypeOK
<1>2. \A h \in DOMAIN live : live[h].class_idx \in Class!Class
  BY DEF ClassInv, Class!TypeOK
<1>3. /\ DOMAIN ClassSize = DOMAIN live
      /\ \A h \in DOMAIN live : ClassSize[h] = ClassSetup.class_sizes[live[h].class_idx]
  BY DEF ClassSize
<1>4. \A h \in DOMAIN ClassSize : ClassSize[h] \in Nat
  BY Zenon, <1>2, <1>3, ClassConstants
<1>5. QED
  BY <1>1, <1>3, <1>4, HandlesFinite

(* A slot of class c is taken from the stack s, which fits what is live.   *)
LEMMA ClassTake ==
  ASSUME ClassInv, NEW c \in Class!Class, NEW S, NEW s, Stacked(S, s, ClassLive(c)), s # <<>>,
         S \subseteq Nat, NEW req, req.size \in Nat, req.size <= ClassSetup.class_sizes[c],
         Class!Take(c, s, req)
  PROVE  /\ Stacked(S, class_free_list'[c], ClassLive(c)') /\ class_free_list'[c] \in Seq(Nat)
         /\ DOMAIN class_free_list' = Class!Class
         /\ \A d \in Class!Class \ {c} : /\ class_free_list'[d] = class_free_list[d]
                                         /\ ClassLive(d)' = ClassLive(d)
         /\ next_id' = next_id + 1 /\ DOMAIN live' \subseteq 1..next_id'
         /\ \A h \in DOMAIN live' : live'[h].ptr \in Nat /\ live'[h].class_idx \in Class!Class
         /\ live_count' = Cardinality(DOMAIN live') /\ live_count' \in Nat
         /\ live_bytes' = SumFunction(ClassSize') /\ live_bytes' \in Nat
         /\ requested' \in Nat /\ granted' \in Nat
         /\ granted' >= requested' /\ granted' >= live_bytes'
         /\ result' = "ok"
<1> DEFINE id == next_id + 1
           x == Last(s)
           size == ClassSetup.class_sizes[c]
<1>1. /\ class_free_list' = [class_free_list EXCEPT ![c] = Front(s)]
      /\ live' = [h \in DOMAIN live \cup {id} |->
                    IF h = id THEN [ptr |-> x, class_idx |-> c] ELSE live[h]]
      /\ next_id' = id
      /\ live_count' = live_count + 1 /\ live_bytes' = live_bytes + size
      /\ requested' = requested + req.size /\ granted' = granted + size
      /\ result' = "ok"
  BY Zenon, ClassOps DEF Class!Take
<1>2. /\ DOMAIN ClassSize = DOMAIN live
      /\ \A h \in DOMAIN ClassSize : ClassSize[h] \in Nat
      /\ \A h \in DOMAIN live : ClassSize[h] = ClassSetup.class_sizes[live[h].class_idx]
      /\ next_id \in Nat /\ DOMAIN live \subseteq 1..next_id
      /\ IsFiniteSet(DOMAIN live) /\ id \notin DOMAIN live
  BY ClassSizes
<1>3. size \in Nat
  BY ClassConstants
<1> HIDE DEF id, x, size
<1>4. /\ DOMAIN live' = DOMAIN live \cup {id} /\ live'[id] = [ptr |-> x, class_idx |-> c]
      /\ \A h \in DOMAIN live : live'[h] = live[h]
  BY <1>1, <1>2
<1>5. /\ id \notin DOMAIN ClassLive(c) /\ ClassLive(c)'[id] = x
      /\ DOMAIN (ClassLive(c)') = DOMAIN ClassLive(c) \cup {id}
      /\ \A h \in DOMAIN ClassLive(c) : ClassLive(c)'[h] = ClassLive(c)[h]
      /\ \A d \in Class!Class \ {c} : ClassLive(d)' = ClassLive(d)
  BY Zenon, <1>2, <1>4, ClassLiveGains
<1>6. Stacked(S, Front(s), ClassLive(c)') /\ x \in S
  <2> DEFINE f == ClassLive(c)
             g == ClassLive(c)'
  <2>1. /\ id \notin DOMAIN f /\ g[id] = Last(s) /\ DOMAIN g = DOMAIN f \cup {id}
        /\ \A h \in DOMAIN f : g[h] = f[h]
        /\ Stacked(S, s, f)
    BY <1>5 DEF x
  <2> HIDE DEF f, g
  <2>2. Stacked(S, Front(s), g)
    BY <2>1, StackedTake
  <2>3. Last(s) \in S
    BY <2>1, StackPop DEF Stacked
  <2>4. QED
    BY <2>2, <2>3 DEF g, x
<1>7. /\ DOMAIN class_free_list = Class!Class
      /\ live_count = Cardinality(DOMAIN live) /\ live_bytes = SumFunction(ClassSize)
      /\ granted >= requested /\ granted >= live_bytes
      /\ requested \in Nat /\ granted \in Nat
      /\ \A h \in DOMAIN live : live[h].ptr \in Nat /\ live[h].class_idx \in Class!Class
  BY DEF ClassInv, Class!TypeOK
<1>8. /\ DOMAIN class_free_list' = Class!Class /\ class_free_list'[c] = Front(s)
      /\ \A d \in Class!Class \ {c} : class_free_list'[d] = class_free_list[d]
  BY <1>1, <1>7
<1>9. Front(s) \in Seq(Nat)
  <2> DEFINE t == Front(s)
  <2>1. t \in Seq(S)
    BY <1>6 DEF Stacked
  <2> HIDE DEF t
  <2>2. t \in Seq(Nat)
    BY Zenon, <2>1, SeqWider
  <2>3. QED
    BY <2>2 DEF t
<1>10. DOMAIN live' \subseteq 1..next_id'
  BY <1>1, <1>2, <1>4 DEF id
<1>11. \A h \in DOMAIN live' : live'[h].ptr \in Nat /\ live'[h].class_idx \in Class!Class
  <2>1. live'[id].ptr = x /\ live'[id].class_idx = c
    BY <1>4
  <2>2. x \in Nat
    BY Zenon, <1>6
  <2>3. \A h \in DOMAIN live : live'[h].ptr \in Nat /\ live'[h].class_idx \in Class!Class
    BY <1>4, <1>7
  <2>4. QED
    BY <1>4, <2>1, <2>2, <2>3
<1>12. live_count' = Cardinality(DOMAIN live') /\ live_count' \in Nat
  <2>1. Cardinality(DOMAIN live \cup {id}) = Cardinality(DOMAIN live) + 1
    BY Zenon, <1>2, FS_AddElement
  <2>2. Cardinality(DOMAIN live) \in Nat
    BY <1>2, FS_CardinalityType
  <2>3. QED
    BY <1>1, <1>4, <1>7, <2>1, <2>2
<1>13. SumFunction(ClassSize') = SumFunction(ClassSize) + size /\ SumFunction(ClassSize) \in Nat
  <2> DEFINE f == ClassSize
             g == ClassSize'
  <2>1. DOMAIN g = DOMAIN f \cup {id} /\ g[id] = size /\ \A h \in DOMAIN f : g[h] = f[h]
    BY <1>2, <1>4 DEF ClassSize, size
  <2>2. /\ IsFiniteSet(DOMAIN f) /\ id \notin DOMAIN f
        /\ \A h \in DOMAIN f : f[h] \in Nat
    BY <1>2
  <2> HIDE DEF f, g
  <2>3. SumFunction(g) = SumFunction(f) + g[id] /\ SumFunction(f) \in Nat
    BY Zenon, <1>3, <2>1, <2>2, SumGains
  <2>4. QED
    BY <2>1, <2>3 DEF f, g
<1>14. /\ live_bytes' = SumFunction(ClassSize') /\ live_bytes' \in Nat
       /\ requested' \in Nat /\ granted' \in Nat
       /\ granted' >= requested' /\ granted' >= live_bytes'
  <2> DEFINE n == SumFunction(ClassSize)
  <2>1. n \in Nat /\ size \in Nat /\ requested \in Nat /\ granted \in Nat
    BY <1>3, <1>7, <1>13 DEF size
  <2>2. /\ SumFunction(ClassSize') = n + size /\ live_bytes' = n + size
        /\ requested' = requested + req.size /\ granted' = granted + size
        /\ req.size <= size /\ granted >= requested /\ granted >= n /\ req.size \in Nat
    BY <1>1, <1>7, <1>13 DEF size
  <2> HIDE DEF n
  <2>3. QED
    BY <2>1, <2>2
<1>15. QED
  BY Zenon, <1>1, <1>5, <1>6, <1>8, <1>9, <1>10, <1>11, <1>12, <1>14 DEF id

LEMMA ClassAllocate ==
  ASSUME ClassInv, NEW req \in ClassSetup.requests, Class!Allocate(req)
  PROVE  ClassInv'
<1> DEFINE c == Class!ClassIndexFor(req.size)
<1>1. /\ c \in Class!Class /\ req.size \in Nat /\ req.size <= ClassSetup.class_sizes[c]
  BY ClassIndex, ClassConstants DEF Class!Allocate
<1>2. /\ next_id < ClassSetup.ids /\ class_free_list[c] # <<>>
      /\ Class!Take(c, class_free_list[c], req)
      /\ class_blocks' = class_blocks /\ total_bytes' = total_bytes
  BY DEF Class!Allocate, Class!backing
<1> HIDE DEF c
<1> DEFINE S == Class!SlotsOf(c)
           s == class_free_list[c]
<1>3. Stacked(S, s, ClassLive(c)) /\ S \subseteq Nat
  <2>1. Stacked(S, s, ClassLive(c))
    BY <1>1 DEF ClassInv
  <2>2. class_blocks[c] \subseteq Nat
    BY Zenon, <1>1, ClassConstants DEF ClassInv, Class!TypeOK
  <2>3. QED
    BY <1>1, <2>1, <2>2, ClassSlotsOf, ClassSlot
<1> HIDE DEF S, s
<1>6. /\ Stacked(S, class_free_list'[c], ClassLive(c)') /\ class_free_list'[c] \in Seq(Nat)
      /\ DOMAIN class_free_list' = Class!Class
      /\ \A d \in Class!Class \ {c} : /\ class_free_list'[d] = class_free_list[d]
                                      /\ ClassLive(d)' = ClassLive(d)
      /\ next_id' = next_id + 1 /\ DOMAIN live' \subseteq 1..next_id'
      /\ \A h \in DOMAIN live' : live'[h].ptr \in Nat /\ live'[h].class_idx \in Class!Class
      /\ live_count' = Cardinality(DOMAIN live') /\ live_count' \in Nat
      /\ live_bytes' = SumFunction(ClassSize') /\ live_bytes' \in Nat
      /\ requested' \in Nat /\ granted' \in Nat
      /\ granted' >= requested' /\ granted' >= live_bytes'
      /\ result' = "ok"
  BY Zenon, <1>1, <1>2, <1>3, ClassTake DEF s
<1>7. next_id' \in 0..ClassSetup.ids
  BY <1>2, <1>6, ClassConstants DEF ClassInv, Class!TypeOK
<1>8. Stacked(Class!SlotsOf(c), class_free_list'[c], ClassLive(c)')
  BY <1>6 DEF S
<1>9. QED
  BY Zenon, <1>1, <1>2, <1>6, <1>7, <1>8, ClassKept

(* What a block of class c at b adds.                                      *)
LEMMA ClassBytesGrow ==
  ASSUME ClassInv, NEW c \in Class!Class, NEW b, b \notin class_blocks[c],
         class_blocks' = [class_blocks EXCEPT ![c] = @ \cup {b}]
  PROVE  /\ IsFiniteSet(class_blocks'[c])
         /\ SumFunction(ClassBytes') = SumFunction(ClassBytes) + Class!BlockBytes(c)
<1> DEFINE f == ClassBytes
           g == ClassBytes'
           z == Class!BlockBytes(c)
           n == Cardinality(class_blocks[c])
<1>1. /\ \A d \in Class!Class : IsFiniteSet(class_blocks[d])
      /\ DOMAIN class_blocks = Class!Class
  BY DEF ClassInv, Class!TypeOK
<1>2. /\ class_blocks'[c] = class_blocks[c] \cup {b}
      /\ \A d \in Class!Class \ {c} : class_blocks'[d] = class_blocks[d]
  BY <1>1
<1>3. /\ IsFiniteSet(class_blocks'[c]) /\ n \in Nat
      /\ Cardinality(class_blocks'[c]) = n + 1
  <2>1. IsFiniteSet(class_blocks[c])
    BY <1>1
  <2>2. QED
    BY <1>2, <2>1, FS_AddElement, FS_CardinalityType
<1>4. /\ DOMAIN f = Class!Class /\ DOMAIN g = Class!Class
      /\ \A d \in Class!Class \ {c} : g[d] = f[d]
      /\ f[c] = z * n /\ g[c] = z * (n + 1)
  BY <1>2, <1>3 DEF ClassBytes
<1>5. \A d \in Class!Class : f[d] \in Nat
  <2>1. \A d \in Class!Class : Cardinality(class_blocks[d]) \in Nat /\ Class!BlockBytes(d) \in Nat
    BY <1>1, FS_CardinalityType, ClassConstants
  <2>2. \A d \in Class!Class : Class!BlockBytes(d) * Cardinality(class_blocks[d]) \in Nat
    BY <2>1
  <2>3. QED
    BY <2>2 DEF ClassBytes
<1>6. z \in Nat
  BY ClassConstants
<1> HIDE DEF f, g, z, n
<1>7. z * (n + 1) = z * n + z /\ z * n \in Nat /\ z * (n + 1) \in Nat
  BY <1>3, <1>6
<1>8. IsFiniteSet(DOMAIN f) /\ c \in DOMAIN f /\ g[c] \in Nat
  BY <1>4, <1>7, ClassConstants
<1>9. /\ SumFunction(f) + g[c] = SumFunction(g) + f[c]
      /\ SumFunction(f) \in Nat /\ SumFunction(g) \in Nat
  <2>1. /\ DOMAIN g = DOMAIN f /\ \A d \in DOMAIN f \ {c} : g[d] = f[d]
        /\ \A d \in DOMAIN f : f[d] \in Nat
    BY <1>4, <1>5
  <2>2. QED
    BY <1>8, <2>1, SumChanges
<1>10. SumFunction(g) = SumFunction(f) + z
  BY <1>4, <1>6, <1>7, <1>9
<1>11. QED
  BY <1>3, <1>10 DEF f, g, z

LEMMA ClassGrow ==
  ASSUME ClassInv, NEW req \in ClassSetup.requests, Class!AllocateGrow(req)
  PROVE  ClassInv'
<1> DEFINE c == Class!ClassIndexFor(req.size)
           n == ClassSetup.block_slots
           z == Class!BlockBytes(c)
<1>1. /\ c \in Class!Class /\ req.size \in Nat /\ req.size <= ClassSetup.class_sizes[c]
  BY ClassIndex, ClassConstants DEF Class!AllocateGrow
<1>2. /\ next_id < ClassSetup.ids /\ class_free_list[c] = <<>>
      /\ total_bytes + z <= ClassSetup.max_bytes /\ total_bytes' = total_bytes + z
  BY DEF Class!AllocateGrow, Class!MayGrow
<1>3. PICK b \in ClassSetup.places :
        /\ Class!Vacant(c, b) /\ class_blocks' = [class_blocks EXCEPT ![c] = @ \cup {b}]
        /\ Class!Take(c, [i \in 1..n |-> Class!Slot(c, b, i - 1)], req)
  BY Zenon DEF Class!AllocateGrow
<1> HIDE DEF c
<1> DEFINE t == [i \in 1..n |-> Class!Slot(c, b, i - 1)]
           N == ClassSlots(c, b)
           S == Class!SlotsOf(c) \cup N
<1>4. /\ z \in Nat /\ z > 0 /\ b \in Nat /\ ClassSetup.ids \in Nat /\ ClassSetup.max_bytes \in Nat
  BY Zenon, <1>1, ClassConstants
<1>5. /\ next_id \in Nat /\ total_bytes \in Nat
      /\ class_blocks \in [Class!Class -> SUBSET ClassSetup.places]
      /\ total_bytes = SumFunction(ClassBytes)
      /\ \A d \in Class!Class : IsFiniteSet(class_blocks[d]) /\ class_blocks[d] \subseteq Nat
      /\ \A d \in Class!Class :
           /\ Stacked(Class!SlotsOf(d), class_free_list[d], ClassLive(d))
           /\ class_free_list[d] \in Seq(Nat)
      /\ \A d, e \in Class!Class : \A x \in class_blocks[d], y \in class_blocks[e] :
           (d = e /\ x = y) \/ x + Class!BlockBytes(d) <= y \/ y + Class!BlockBytes(e) <= x
  <2>1. /\ next_id \in 0..ClassSetup.ids /\ total_bytes \in 0..ClassSetup.max_bytes
        /\ class_blocks \in [Class!Class -> SUBSET ClassSetup.places]
        /\ \A d \in Class!Class : class_free_list[d] \in Seq(Nat)
    BY DEF ClassInv, Class!TypeOK
  <2>2. next_id \in Nat /\ total_bytes \in Nat
    BY <2>1, <1>4
  <2>3. \A d \in Class!Class : class_blocks[d] \subseteq Nat
    BY Zenon, <2>1, ClassConstants
  <2>4. QED
    BY <2>1, <2>2, <2>3 DEF ClassInv
<1>6. \A d \in Class!Class : \A x \in class_blocks[d] :
        x \in Nat /\ (b + z <= x \/ x + Class!BlockBytes(d) <= b)
  BY <1>3, <1>5 DEF Class!Vacant
<1>7. b \notin class_blocks[c]
  BY <1>1, <1>4, <1>6
<1>8. /\ class_blocks'[c] = class_blocks[c] \cup {b}
      /\ \A d \in Class!Class \ {c} : class_blocks'[d] = class_blocks[d]
      /\ class_blocks' \in [Class!Class -> SUBSET ClassSetup.places]
  BY <1>1, <1>3, <1>5
<1>9. Class!SlotsOf(c)' = S
  BY <1>1, <1>8 DEF Class!SlotsOf, ClassSlots
<1>10. \A d \in Class!Class \ {c} : Class!SlotsOf(d)' = Class!SlotsOf(d)
  BY <1>8 DEF Class!SlotsOf
<1>11. N \cap Class!SlotsOf(c) = {} /\ S \subseteq Nat
  <2>1. ASSUME NEW x \in N, NEW e \in class_blocks[c], x \in ClassSlots(c, e)
        PROVE  FALSE
    <3>1. /\ x \in Nat /\ b <= x /\ x + Class!SlotStride(c) <= b + z
          /\ Class!SlotStride(c) \in Nat /\ Class!SlotStride(c) > 0
      BY <1>1, <1>4, ClassSlot, ClassConstants
    <3>2. e \in Nat /\ e <= x /\ x + Class!SlotStride(c) <= e + z
      BY <1>1, <1>6, <2>1, ClassSlot
    <3>3. QED
      BY <1>1, <1>4, <1>6, <3>1, <3>2
  <2>2. N \subseteq Nat /\ Class!SlotsOf(c) \subseteq Nat
    BY <1>1, <1>4, <1>5, ClassSlot, ClassSlotsOf
  <2>3. QED
    BY <2>1, <2>2, ClassSlotsOf
<1>12. t \in Seq(N) /\ t # <<>> /\ IsInjective(t) /\ ToSet(t) = N
  BY Zenon, <1>1, <1>4, ClassBlock
<1>13. Class!Take(c, t, req) /\ Stacked(Class!SlotsOf(c), <<>>, ClassLive(c))
  BY <1>1, <1>2, <1>3, <1>5
<1> HIDE DEF n, t, N, z
<1>14. Stacked(S, t, ClassLive(c))
  <2> DEFINE f == ClassLive(c)
             R == Class!SlotsOf(c)
  <2>1. Stacked(R, <<>>, f) /\ N \cap R = {}
    BY <1>11, <1>13
  <2> HIDE DEF f, R
  <2>2. Stacked(R \cup N, t, f)
    BY <1>12, <2>1, StackedGrow
  <2>3. QED
    BY <2>2 DEF f, R
<1> HIDE DEF S
<1>15. /\ Stacked(S, class_free_list'[c], ClassLive(c)') /\ class_free_list'[c] \in Seq(Nat)
       /\ DOMAIN class_free_list' = Class!Class
       /\ \A d \in Class!Class \ {c} : /\ class_free_list'[d] = class_free_list[d]
                                       /\ ClassLive(d)' = ClassLive(d)
       /\ next_id' = next_id + 1 /\ DOMAIN live' \subseteq 1..next_id'
       /\ \A h \in DOMAIN live' : live'[h].ptr \in Nat /\ live'[h].class_idx \in Class!Class
       /\ live_count' = Cardinality(DOMAIN live') /\ live_count' \in Nat
       /\ live_bytes' = SumFunction(ClassSize') /\ live_bytes' \in Nat
       /\ requested' \in Nat /\ granted' \in Nat
       /\ granted' >= requested' /\ granted' >= live_bytes'
       /\ result' = "ok"
  BY Zenon, <1>1, <1>11, <1>12, <1>13, <1>14, ClassTake
<1>16. /\ IsFiniteSet(class_blocks'[c])
       /\ total_bytes' = SumFunction(ClassBytes')
  BY Zenon, <1>1, <1>2, <1>3, <1>5, <1>7, ClassBytesGrow DEF z
<1>17. \A d \in Class!Class :
         /\ Stacked(Class!SlotsOf(d)', class_free_list'[d], ClassLive(d)')
         /\ IsFiniteSet(class_blocks'[d]) /\ class_free_list'[d] \in Seq(Nat)
  <2>1. ASSUME NEW d \in Class!Class \ {c}
        PROVE  /\ Stacked(Class!SlotsOf(d)', class_free_list'[d], ClassLive(d)')
               /\ IsFiniteSet(class_blocks'[d]) /\ class_free_list'[d] \in Seq(Nat)
    <3>1. /\ Class!SlotsOf(d)' = Class!SlotsOf(d) /\ ClassLive(d)' = ClassLive(d)
          /\ class_free_list'[d] = class_free_list[d] /\ class_blocks'[d] = class_blocks[d]
      BY <1>8, <1>10, <1>15
    <3>2. QED
      BY <1>5, <3>1
  <2>2. /\ Stacked(Class!SlotsOf(c)', class_free_list'[c], ClassLive(c)')
        /\ IsFiniteSet(class_blocks'[c]) /\ class_free_list'[c] \in Seq(Nat)
    BY <1>9, <1>15, <1>16
  <2>3. QED
    BY <2>1, <2>2
<1>18. \A d, e \in Class!Class : \A x \in class_blocks'[d], y \in class_blocks'[e] :
         (d = e /\ x = y) \/ x + Class!BlockBytes(d) <= y \/ y + Class!BlockBytes(e) <= x
  <2>1. \A d \in Class!Class : \A x \in class_blocks'[d] :
          x \in class_blocks[d] \/ (d = c /\ x = b)
    BY <1>8
  <2>2. QED
    BY <1>5, <1>6, <2>1 DEF z
<1>19. Class!TypeOK'
  <2>1. next_id' \in 0..ClassSetup.ids
    BY <1>2, <1>4, <1>5, <1>15
  <2>2. total_bytes' \in 0..ClassSetup.max_bytes
    BY <1>2, <1>4, <1>5
  <2>3. \A d \in Class!Class : class_free_list'[d] \in Seq(Nat)
    BY <1>17
  <2>4. QED
    BY <1>8, <1>15, <2>1, <2>2, <2>3 DEF Class!TypeOK
<1>20. QED
  BY Zenon, <1>15, <1>16, <1>17, <1>18, <1>19 DEF ClassInv

LEMMA ClassFree ==
  ASSUME ClassInv, NEW h, Class!Free(h)
  PROVE  ClassInv'
<1>0. PICK c : c = live[h].class_idx
  OBVIOUS
<1> DEFINE x == live[h].ptr
           S == Class!SlotsOf(c)
           s == class_free_list[c]
           size == ClassSetup.class_sizes[c]
<1>1. /\ h \in DOMAIN live
      /\ class_free_list' = [class_free_list EXCEPT ![c] = Append(@, x)]
      /\ live_bytes' = IF live_bytes >= size THEN live_bytes - size ELSE live_bytes
      /\ live' = [g \in DOMAIN live \ {h} |-> live[g]]
      /\ live_count' = IF live_count > 0 THEN live_count - 1 ELSE live_count
      /\ result' = "ok" /\ class_blocks' = class_blocks /\ total_bytes' = total_bytes
      /\ next_id' = next_id /\ requested' = requested /\ granted' = granted
  BY <1>0 DEF Class!Free, Class!HomeClass, Class!backing
<1>2. /\ c \in Class!Class /\ DOMAIN class_free_list = Class!Class
      /\ Stacked(S, s, ClassLive(c)) /\ s \in Seq(Nat)
      /\ live_count = Cardinality(DOMAIN live) /\ live_bytes = SumFunction(ClassSize)
      /\ granted >= requested /\ granted >= live_bytes
      /\ requested \in Nat /\ granted \in Nat
      /\ next_id \in 0..ClassSetup.ids /\ DOMAIN live \subseteq 1..next_id
      /\ \A g \in DOMAIN live : live[g].ptr \in Nat /\ live[g].class_idx \in Class!Class
  BY Zenon, <1>0, <1>1 DEF ClassInv, Class!TypeOK
<1>3. DOMAIN live' = DOMAIN live \ {h} /\ \A g \in DOMAIN live' : live'[g] = live[g]
  BY <1>1
<1> HIDE DEF x
<1>4. /\ h \in DOMAIN ClassLive(c) /\ ClassLive(c)[h] = x
      /\ DOMAIN (ClassLive(c)') = DOMAIN ClassLive(c) \ {h}
      /\ \A g \in DOMAIN (ClassLive(c)') : ClassLive(c)'[g] = ClassLive(c)[g]
      /\ \A d \in Class!Class \ {c} : ClassLive(d)' = ClassLive(d)
  BY Zenon, <1>0, <1>1, <1>2, <1>3, ClassLiveLoses DEF x
<1>5. /\ class_free_list'[c] = Append(s, x) /\ DOMAIN class_free_list' = Class!Class
      /\ \A d \in Class!Class \ {c} : class_free_list'[d] = class_free_list[d]
  BY <1>1, <1>2
<1> HIDE DEF S, s
<1>6. Stacked(S, Append(s, x), ClassLive(c)')
  <2> DEFINE f == ClassLive(c)
             g == ClassLive(c)'
  <2>1. /\ h \in DOMAIN f /\ f[h] = x /\ DOMAIN g = DOMAIN f \ {h}
        /\ \A i \in DOMAIN g : g[i] = f[i]
        /\ Stacked(S, s, f)
    BY <1>2, <1>4
  <2> HIDE DEF f, g
  <2>2. Stacked(S, Append(s, f[h]), g)
    BY Zenon, <2>1, StackedFree
  <2>3. QED
    BY <2>1, <2>2 DEF g
<1>7. class_free_list'[c] \in Seq(Nat)
  <2>1. x \in Nat
    BY <1>1, <1>2 DEF x
  <2>2. QED
    BY <1>2, <1>5, <2>1
<1>8. live_count' = Cardinality(DOMAIN live') /\ live_count' \in Nat
  <2>1. IsFiniteSet(DOMAIN live)
    BY ClassSizes
  <2>2. /\ Cardinality(DOMAIN live \ {h}) = Cardinality(DOMAIN live) - 1
        /\ Cardinality(DOMAIN live \ {h}) \in Nat /\ Cardinality(DOMAIN live) \in Nat
    BY <1>1, <2>1, FS_RemoveElement, FS_CardinalityType
  <2>3. QED
    BY <1>1, <1>2, <1>3, <2>2
<1>9. SumFunction(ClassSize) = SumFunction(ClassSize') + size /\ SumFunction(ClassSize') \in Nat
  <2> DEFINE f == ClassSize
             g == ClassSize'
  <2>1. DOMAIN g = DOMAIN f \ {h} /\ f[h] = size /\ \A i \in DOMAIN g : g[i] = f[i]
    BY <1>0, <1>1, <1>3 DEF ClassSize
  <2>2. IsFiniteSet(DOMAIN f) /\ h \in DOMAIN f /\ \A i \in DOMAIN f : f[i] \in Nat
    BY <1>1, ClassSizes
  <2> HIDE DEF f, g
  <2>3. SumFunction(f) = SumFunction(g) + f[h] /\ SumFunction(g) \in Nat
    BY Zenon, <2>1, <2>2, SumLoses
  <2>4. QED
    BY <2>1, <2>3 DEF f, g
<1>10. live_bytes' = SumFunction(ClassSize') /\ live_bytes' \in Nat /\ live_bytes' <= granted
  <2> DEFINE n == SumFunction(ClassSize')
  <2>1. n \in Nat /\ live_bytes = n + size /\ size \in Nat /\ granted \in Nat /\ granted >= live_bytes
    BY Zenon, <1>2, <1>9, ClassConstants
  <2>2. live_bytes' = IF live_bytes >= size THEN live_bytes - size ELSE live_bytes
    BY <1>1
  <2> HIDE DEF n, size
  <2>3. live_bytes' = n /\ n <= granted
    BY <2>1, <2>2
  <2>4. QED
    BY <2>1, <2>3 DEF n
<1>11. /\ Stacked(Class!SlotsOf(c), class_free_list'[c], ClassLive(c)')
       /\ next_id' \in 0..ClassSetup.ids /\ DOMAIN live' \subseteq 1..next_id'
       /\ \A g \in DOMAIN live' : live'[g].ptr \in Nat /\ live'[g].class_idx \in Class!Class
       /\ requested' \in Nat /\ granted' \in Nat
       /\ granted' >= requested' /\ granted' >= live_bytes'
  BY Zenon, <1>1, <1>2, <1>3, <1>5, <1>6, <1>10 DEF S
<1>12. QED
  BY Zenon, <1>1, <1>2, <1>4, <1>5, <1>7, <1>8, <1>10, <1>11, ClassKept

LEMMA ClassReleaseAll ==
  ASSUME ClassInv, Class!ReleaseAll
  PROVE  ClassInv'
<1>1. /\ class_blocks' = [c \in Class!Class |-> {}]
      /\ class_free_list' = [c \in Class!Class |-> <<>>] /\ live' = [x \in {} |-> 0]
      /\ total_bytes' = 0 /\ live_count' = 0 /\ live_bytes' = 0 /\ result' = "ok"
      /\ next_id' = next_id /\ requested' = requested /\ granted' = granted
  BY DEF Class!ReleaseAll, Class!Empty
<1>2. /\ next_id \in 0..ClassSetup.ids
      /\ requested \in Nat /\ granted \in Nat /\ granted >= requested
  BY DEF ClassInv, Class!TypeOK
<1> DEFINE new == live'
<1>3. DOMAIN live' = {} /\ Cardinality(DOMAIN live') = 0
  <2>1. new = [x \in {} |-> 0]
    BY <1>1
  <2> HIDE DEF new
  <2>2. DOMAIN new = {} /\ Cardinality(DOMAIN new) = 0
    BY <2>1, NoHandles
  <2>3. QED
    BY <2>2 DEF new
<1>4. IsFiniteSet({}) /\ Cardinality({}) = 0
  BY FS_EmptySet
<1>5. ASSUME NEW c \in Class!Class
      PROVE  /\ Stacked(Class!SlotsOf(c)', class_free_list'[c], ClassLive(c)')
             /\ IsFiniteSet(class_blocks'[c])
  <2> DEFINE f == ClassLive(c)'
  <2>1. Class!SlotsOf(c)' = {} /\ class_free_list'[c] = <<>> /\ class_blocks'[c] = {}
    BY <1>1 DEF Class!SlotsOf
  <2>2. f = [x \in {} |-> 0]
    BY <1>3 DEF ClassLive
  <2> HIDE DEF f
  <2>3. Stacked({}, <<>>, f)
    BY <2>2, StackedEmpty
  <2>4. QED
    BY <1>4, <2>1, <2>3 DEF f
<1>6. SumFunction(ClassBytes') = 0
  <2> DEFINE f == ClassBytes'
  <2>1. \A c \in Class!Class : /\ Class!BlockBytes(c) \in Nat
                               /\ Cardinality(class_blocks'[c]) = 0
    BY <1>1, <1>4, ClassConstants
  <2>2. \A c \in Class!Class : Class!BlockBytes(c) * Cardinality(class_blocks'[c]) = 0
    BY <2>1
  <2>3. DOMAIN f = Class!Class /\ \A c \in Class!Class : f[c] = 0
    BY <2>2 DEF ClassBytes
  <2> HIDE DEF f
  <2>4. SumFunction(f) = 0
    BY Zenon, <2>3, SumZero, ClassConstants
  <2>5. QED
    BY <2>4 DEF f
<1>7. SumFunction(ClassSize') = 0
  <2> DEFINE f == ClassSize'
  <2>1. DOMAIN f = {}
    BY <1>3 DEF ClassSize
  <2> HIDE DEF f
  <2>2. SumFunction(f) = 0
    BY <2>1, SumNone
  <2>3. QED
    BY <2>2 DEF f
<1>8. Class!TypeOK'
  <2>1. class_blocks' \in [Class!Class -> SUBSET ClassSetup.places]
    BY <1>1
  <2>2. \A c \in Class!Class : class_free_list'[c] \in Seq(Nat)
    BY <1>1
  <2>3. total_bytes' \in 0..ClassSetup.max_bytes
    BY <1>1, ClassConstants
  <2>4. QED
    BY <1>1, <1>2, <1>3, <2>1, <2>2, <2>3 DEF Class!TypeOK
<1>9. \A c, d \in Class!Class : \A b \in class_blocks'[c], e \in class_blocks'[d] :
        (c = d /\ b = e) \/ b + Class!BlockBytes(c) <= e \/ e + Class!BlockBytes(d) <= b
  BY <1>1
<1>10. QED
  BY <1>1, <1>2, <1>3, <1>5, <1>6, <1>7, <1>8, <1>9 DEF ClassInv

LEMMA ClassNext ==
  ASSUME ClassInv, Class!Next
  PROVE  ClassInv'
<1>1. ASSUME NEW req, Class!AllocateRejected(req)
      PROVE  ClassInv'
  BY <1>1, ClassFails DEF Class!AllocateRejected, Class!Admission
<1>2. ASSUME NEW req, Class!AllocateExhausted(req)
      PROVE  ClassInv'
  BY <1>2, ClassFails DEF Class!AllocateExhausted
<1>3. ASSUME NEW h, Class!FreeUnknown(h)
      PROVE  ClassInv'
  BY <1>3, ClassFails DEF Class!FreeUnknown
<1>4. CASE Class!Trim
  BY <1>4, ClassFails DEF Class!Trim
<1>5. CASE Class!ReleaseAll
  BY <1>5, ClassReleaseAll
<1>6. ASSUME NEW req \in ClassSetup.requests,
             \/ Class!AllocateRejected(req) \/ Class!Allocate(req)
             \/ Class!AllocateGrow(req) \/ Class!AllocateExhausted(req)
      PROVE  ClassInv'
  BY <1>1, <1>2, <1>6, ClassAllocate, ClassGrow
<1>7. ASSUME NEW h, Class!FreeUnknown(h) \/ Class!Free(h)
      PROVE  ClassInv'
  BY <1>3, <1>7, ClassFree
<1>8. QED
  BY <1>4, <1>5, <1>6, <1>7 DEF Class!Next

(* The slot behind a handle lies in a block of the handle's class.         *)
LEMMA ClassHome ==
  ASSUME ClassInv, NEW h \in DOMAIN live
  PROVE  /\ live[h].class_idx \in Class!Class /\ live[h].ptr \in Nat
         /\ live[h].ptr \in Class!SlotsOf(live[h].class_idx)
         /\ \E b \in class_blocks[live[h].class_idx] :
              b \in Nat /\ live[h].ptr \in ClassSlots(live[h].class_idx, b)
<1> DEFINE c == live[h].class_idx
<1>1. c \in Class!Class /\ live[h].ptr \in Nat
  BY DEF ClassInv, Class!TypeOK
<1>2. Stacked(Class!SlotsOf(c), class_free_list[c], ClassLive(c))
  BY <1>1 DEF ClassInv
<1>3. live[h].ptr \in Range(ClassLive(c))
  <2>1. h \in DOMAIN ClassLive(c) /\ ClassLive(c)[h] = live[h].ptr
    BY DEF ClassLive
  <2>2. QED
    BY <2>1 DEF Range
<1>4. live[h].ptr \in Class!SlotsOf(c)
  BY <1>2, <1>3 DEF Stacked
<1>5. PICK b \in class_blocks[c] : live[h].ptr \in ClassSlots(c, b)
  BY <1>4, ClassSlotsOf
<1>6. b \in Nat
  BY Zenon, <1>1, ClassConstants DEF ClassInv, Class!TypeOK
<1>7. QED
  BY <1>1, <1>4, <1>5, <1>6

(* Two handles have different slots, which lie apart.                      *)
LEMMA ClassHandlesApart ==
  ASSUME ClassInv, NEW g \in DOMAIN live, NEW h \in DOMAIN live, g # h
  PROVE  /\ live[g].ptr # live[h].ptr
         /\ \/ live[g].ptr + ClassSetup.class_sizes[live[g].class_idx] <= live[h].ptr
            \/ live[h].ptr + ClassSetup.class_sizes[live[h].class_idx] <= live[g].ptr
<1> DEFINE c == live[g].class_idx
           d == live[h].class_idx
           x == live[g].ptr
           y == live[h].ptr
<1>1. /\ c \in Class!Class /\ x \in Nat
      /\ \E b \in class_blocks[c] : b \in Nat /\ x \in ClassSlots(c, b)
  BY ClassHome
<1>2. /\ d \in Class!Class /\ y \in Nat
      /\ \E b \in class_blocks[d] : b \in Nat /\ y \in ClassSlots(d, b)
  BY ClassHome
<1>3. PICK b \in class_blocks[c] : b \in Nat /\ x \in ClassSlots(c, b)
  BY <1>1
<1>4. PICK e \in class_blocks[d] : e \in Nat /\ y \in ClassSlots(d, e)
  BY <1>2
<1>5. (c = d /\ b = e) \/ b + Class!BlockBytes(c) <= e \/ e + Class!BlockBytes(d) <= b
  BY <1>1, <1>2 DEF ClassInv
<1>6. x # y
  <2>1. CASE c = d
    <3>1. Stacked(Class!SlotsOf(c), class_free_list[c], ClassLive(c))
      BY <1>1 DEF ClassInv
    <3>2. \A i, j \in DOMAIN ClassLive(c) : ClassLive(c)[i] = ClassLive(c)[j] => i = j
      BY <3>1 DEF Stacked
    <3>3. /\ g \in DOMAIN ClassLive(c) /\ h \in DOMAIN ClassLive(c)
          /\ ClassLive(c)[g] = x /\ ClassLive(c)[h] = y
      BY <2>1 DEF ClassLive
    <3> HIDE DEF x, y, c
    <3>4. QED
      BY <3>2, <3>3
  <2>2. CASE c # d
    <3>1. /\ b <= x /\ x + Class!SlotStride(c) <= b + Class!BlockBytes(c)
          /\ e <= y /\ y + Class!SlotStride(d) <= e + Class!BlockBytes(d)
      BY <1>1, <1>2, <1>3, <1>4, ClassSlot
    <3>2. /\ Class!SlotStride(c) \in Nat /\ Class!SlotStride(c) > 0 /\ Class!BlockBytes(c) \in Nat
          /\ Class!SlotStride(d) \in Nat /\ Class!SlotStride(d) > 0 /\ Class!BlockBytes(d) \in Nat
      BY Zenon, <1>1, <1>2, ClassConstants
    <3> HIDE DEF x, y, c, d
    <3>3. QED
      BY <1>1, <1>2, <1>3, <1>4, <1>5, <2>2, <3>1, <3>2
  <2>3. QED
    BY <2>1, <2>2
<1> HIDE DEF x, y, c, d
<1>7. x + Class!SlotStride(c) <= y \/ y + Class!SlotStride(d) <= x
  BY <1>1, <1>2, <1>3, <1>4, <1>5, <1>6, ClassApart
<1>8. /\ ClassSetup.class_sizes[c] <= Class!SlotStride(c)
      /\ ClassSetup.class_sizes[d] <= Class!SlotStride(d)
      /\ ClassSetup.class_sizes[c] \in Nat /\ ClassSetup.class_sizes[d] \in Nat
      /\ Class!SlotStride(c) \in Nat /\ Class!SlotStride(d) \in Nat
  BY <1>1, <1>2, ClassConstants
<1>9. x + ClassSetup.class_sizes[c] <= y \/ y + ClassSetup.class_sizes[d] <= x
  BY <1>1, <1>2, <1>7, <1>8
<1>10. QED
  BY <1>6, <1>9 DEF x, y, c, d

LEMMA ClassHeld ==
  ASSUME ClassInv
  PROVE  Held(Class!extents, next_id)
<1>1. next_id \in Nat /\ DOMAIN live \subseteq 1..next_id
  BY ClassConstants DEF ClassInv, Class!TypeOK
<1>2. /\ DOMAIN Class!extents = DOMAIN live
      /\ \A h \in DOMAIN live : Class!extents[h]
           = [addr |-> live[h].ptr, size |-> ClassSetup.class_sizes[live[h].class_idx]]
  BY DEF Class!extents
<1>3. ASSUME NEW g \in DOMAIN live, NEW h \in DOMAIN live, g # h
      PROVE  Contract!Apart(Class!extents[g], Class!extents[h])
  BY <1>2, <1>3, ClassHandlesApart, ApartAt
<1>4. \A h \in DOMAIN live : Class!extents[h] \in Contract!Extent
  <2>1. \A h \in DOMAIN live : /\ live[h].ptr \in Nat
                               /\ ClassSetup.class_sizes[live[h].class_idx] \in Nat \ {0}
    BY SMTT(60), ClassHome, ClassConstants
  <2>2. QED
    BY <1>2, <2>1, ExtentAt
<1>5. QED
  BY <1>1, <1>2, <1>3, <1>4 DEF Held

LEMMA ClassSteps ==
  ASSUME ClassInv, Class!Next
  PROVE  /\ Steps(Class!extents, Class!extents', next_id, next_id')
         /\ next_id' = next_id \/ next_id' \in 1..ClassSetup.ids
<1> DEFINE e == Class!extents
           f == Class!extents'
           x(r) == [addr |-> r.ptr, size |-> ClassSetup.class_sizes[r.class_idx]]
<1>1. /\ DOMAIN e = DOMAIN live /\ \A h \in DOMAIN live : e[h] = x(live[h])
      /\ DOMAIN f = DOMAIN live' /\ \A h \in DOMAIN live' : f[h] = x(live'[h])
      /\ f = [h \in DOMAIN f |-> f[h]]
  BY DEF Class!extents
<1>2. next_id \in Nat /\ ClassSetup.ids \in Nat /\ DOMAIN live \subseteq 1..next_id
  BY ClassConstants DEF ClassInv, Class!TypeOK
<1>3. ASSUME NEW code, Class!Fails(code)
      PROVE  f = e /\ next_id' = next_id
  BY <1>3 DEF Class!Fails, Class!extents
<1>4. ASSUME NEW c, NEW s, NEW req, Class!Take(c, s, req), next_id < ClassSetup.ids
      PROVE  Adds(e, f, next_id, next_id') /\ next_id' \in 1..ClassSetup.ids
  <2>1. /\ next_id' = next_id + 1 /\ DOMAIN live' = DOMAIN live \cup {next_id'}
        /\ \A h \in DOMAIN live : h # next_id' => live'[h] = live[h]
    BY <1>4 DEF Class!Take
  <2>2. next_id' \notin DOMAIN live /\ next_id' \in 1..ClassSetup.ids
    BY <1>2, <1>4, <2>1
  <2>3. \A h \in DOMAIN live : live'[h] = live[h]
    BY <2>1, <2>2
  <2> HIDE DEF e, f, x
  <2>4. QED
    BY <1>1, <2>1, <2>2, <2>3 DEF Adds
<1>5. ASSUME NEW h, Class!Free(h)
      PROVE  Drops(e, f, h) /\ h \in DOMAIN e /\ next_id' = next_id
  <2>1. /\ next_id' = next_id /\ h \in DOMAIN live /\ DOMAIN live' = DOMAIN live \ {h}
        /\ \A g \in DOMAIN live' : live'[g] = live[g]
    BY <1>5 DEF Class!Free
  <2> HIDE DEF e, f, x
  <2>2. QED
    BY <1>1, <2>1 DEF Drops
<1>6. ASSUME Class!ReleaseAll
      PROVE  Clears(f) /\ next_id' = next_id
  BY <1>1, <1>6 DEF Class!ReleaseAll, Class!Empty, Clears
<1> HIDE DEF e, f, x
<1>7. ASSUME NEW req, \/ Class!AllocateRejected(req) \/ Class!Allocate(req)
                       \/ Class!AllocateGrow(req) \/ Class!AllocateExhausted(req)
      PROVE  Steps(e, f, next_id, next_id') /\ (next_id' = next_id \/ next_id' \in 1..ClassSetup.ids)
  BY Zenon, <1>3, <1>4, <1>7 DEF Class!AllocateRejected, Class!Allocate, Class!AllocateGrow,
     Class!AllocateExhausted, Steps
<1>8. ASSUME NEW h, Class!FreeUnknown(h) \/ Class!Free(h)
      PROVE  Steps(e, f, next_id, next_id') /\ next_id' = next_id
  BY <1>3, <1>5, <1>8 DEF Class!FreeUnknown, Steps
<1>9. CASE Class!Trim \/ Class!ReleaseAll
  BY <1>3, <1>6, <1>9 DEF Class!Trim, Steps, e, f
<1>10. QED
  BY <1>7, <1>8, <1>9 DEF Class!Next, e, f

(* What the runs check of the size-class pool.                             *)
LEMMA ClassSound ==
  ASSUME ClassInv
  PROVE  Class!TypeOK /\ Class!SlotsStayInClass /\ Class!Accounting
<1>1. Class!Accounting
  BY ClassOps DEF Class!Accounting, ClassInv, ClassBytes, ClassSize
<1>2. ASSUME NEW c \in Class!Class
      PROVE  /\ IsInjective(class_free_list[c])
             /\ ToSet(class_free_list[c]) \cup Class!LiveSlots(c) = Class!SlotsOf(c)
             /\ ToSet(class_free_list[c]) \cap Class!LiveSlots(c) = {}
  <2>1. Stacked(Class!SlotsOf(c), class_free_list[c], ClassLive(c))
    BY DEF ClassInv
  <2>2. Range(ClassLive(c)) = Class!LiveSlots(c)
    BY Zenon DEF Range, ClassLive, Class!LiveSlots
  <2>3. QED
    BY <2>1, <2>2 DEF Stacked
<1>3. \A g, h \in DOMAIN live : live[g].ptr = live[h].ptr => g = h
  BY ClassHandlesApart
<1>4. Class!SlotsStayInClass
  BY <1>2, <1>3, ClassOps DEF Class!SlotsStayInClass
<1>5. QED
  BY <1>1, <1>4 DEF ClassInv

-----------------------------------------------------------------------------
(* The slab.                                                               *)

(* The live slots of the slab at b.                                        *)
SlabLive(b) == [h \in {g \in DOMAIN live : PageOf(live[g]) = b} |-> live[h]]

SlabRecord == [base : PageBases, free_list : Seq(Nat)]

(* The pages of ss are all different, the slots of each are those on its   *)
(* stack and those behind handles, and every handle's slot is in one.      *)
SlabShape(ss) ==
  /\ ss \in Seq(SlabRecord)
  /\ \A i, j \in 1..Len(ss) : ss[i].base = ss[j].base => i = j
  /\ \A i \in 1..Len(ss) :
       Stacked(SlotsOf(ss[i].base), ss[i].free_list, SlabLive(ss[i].base))
  /\ \A h \in DOMAIN live : \E i \in 1..Len(ss) : live[h] \in SlotsOf(ss[i].base)

SlabInv ==
  /\ SlabShape(slabs)
  /\ next_id \in 0..MaxIds /\ DOMAIN live \subseteq 1..next_id
  /\ {live_count, live_bytes, requested, granted, growth, recovered} \subseteq Nat
  /\ total_bytes = PageSize * Len(slabs) /\ total_bytes <= MaxBytes
  /\ total_bytes + recovered <= PageSize * growth
  /\ live_count = Cardinality(DOMAIN live)
  /\ live_bytes = ObjectSize * live_count
  /\ granted >= requested /\ granted >= live_bytes
  /\ result \in {"ok", "size_too_large", "alignment_unsupported", "capacity_exceeded",
                 "invalid_handle"}

LEMMA SlabConstants ==
  /\ ObjectSize \in Nat /\ ObjectSize > 0 /\ PageSize \in Nat /\ PageSize > 0
  /\ HeaderSize \in Nat /\ MaxBytes \in Nat /\ MaxIds \in Nat
  /\ \A b \in PageBases : b \in Nat /\ b % PageSize = 0
  /\ Request \subseteq [size : Nat, alignment : Nat]
  /\ Stride \in Nat /\ Stride > 0 /\ ObjectSize <= Stride
  /\ SlotsPerSlab \in Nat /\ SlotsPerSlab > 0
  /\ HeaderSize + SlotsPerSlab * Stride <= PageSize
<1> DEFINE least == IF ObjectSize > 16 THEN ObjectSize ELSE 16
           s == Stride
           room == PageSize - HeaderSize
           fit == room \div s
<1>1. /\ ObjectSize \in Nat /\ ObjectSize > 0 /\ PageSize \in Nat /\ PageSize > 0
      /\ HeaderSize \in Nat /\ MaxBytes \in Nat /\ MaxIds \in Nat
      /\ \A b \in PageBases : b \in Nat /\ b % PageSize = 0
      /\ Request \subseteq [size : Nat, alignment : Nat]
  BY SlabAssumption
<1>2. least \in Nat /\ ObjectSize <= least /\ least >= 16
  BY <1>1
<1>3. s = ((least + 16 - 1) \div 16) * 16
  BY DEF Stride, AlignUp
<1> HIDE DEF least
<1>4. s \in Nat /\ s >= least
  BY <1>2, <1>3
<1>5. HeaderSize + s <= PageSize
  BY ObjectFits
<1> HIDE DEF s
<1>6. room \in Nat /\ room >= s
  BY <1>1, <1>4, <1>5
<1>7. SlotsPerSlab = IF fit = 0 THEN 1 ELSE fit
  BY DEF SlotsPerSlab, s
<1>8. fit \in Nat /\ room = s * fit + (room % s) /\ room % s \in Nat /\ room % s < s
  <2> HIDE DEF room
  <2>1. QED
    BY <1>2, <1>4, <1>6, DivMod
<1> HIDE DEF fit
<1>9. fit # 0
  BY <1>4, <1>6, <1>8
<1>10. SlotsPerSlab = fit /\ fit > 0
  BY <1>7, <1>8, <1>9
<1>11. fit * s = s * fit /\ s * fit \in Nat
  BY <1>4, <1>8
<1>12. HeaderSize + fit * s <= PageSize
  BY <1>1, <1>6, <1>8, <1>11
<1>13. QED
  BY <1>1, <1>2, <1>4, <1>8, <1>10, <1>12 DEF s

LEMMA SlabLadder ==
  ASSUME NEW b
  PROVE  /\ SlotsOf(b) = Ladder(b + HeaderSize, Stride, SlotsPerSlab)
         /\ [i \in 1..SlotsPerSlab |-> Slot(b, i - 1)]
              = LadderSeq(b + HeaderSize, Stride, SlotsPerSlab)
BY DEF SlotsOf, Slot, Ladder, LadderSeq

(* A slot lies in its page, behind the header.                             *)
LEMMA SlabSlot ==
  ASSUME NEW b \in PageBases, NEW x \in SlotsOf(b)
  PROVE  /\ x \in Nat /\ b \in Nat /\ b <= x /\ x + Stride <= b + PageSize
         /\ PageOf(x) = b
<1> DEFINE s == Stride
           n == SlotsPerSlab
           m == n * s
           c == b + HeaderSize
           r == x - b
           q == b \div PageSize
<1>1. /\ s \in Nat /\ s > 0 /\ n \in Nat /\ n > 0 /\ HeaderSize \in Nat
      /\ PageSize \in Nat /\ PageSize > 0 /\ HeaderSize + m <= PageSize
      /\ b \in Nat /\ b % PageSize = 0
  BY SlabConstants
<1>2. c \in Nat /\ x \in Ladder(c, s, n)
  <2>1. SlotsOf(b) = Ladder(c, s, n)
    BY Zenon, SlabLadder
  <2>2. c \in Nat
    BY <1>1
  <2> HIDE DEF c, s, n
  <2>3. QED
    BY <2>1, <2>2
<1>3. x \in Nat /\ c <= x /\ x + s <= c + m
  <2> HIDE DEF c, s, n
  <2>1. QED
    BY <1>1, <1>2, LadderSlot
<1>4. m \in Nat
  BY <1>1
<1> HIDE DEF s, m
<1>5. b <= x /\ x + s <= b + PageSize /\ r \in Nat /\ r < PageSize
  BY <1>1, <1>3, <1>4
<1>6. q \in Nat /\ b = PageSize * q
  <2>1. q \in Nat /\ b = PageSize * q + (b % PageSize)
    BY <1>1, DivMod
  <2> HIDE DEF q
  <2>2. PageSize * q \in Nat
    BY <1>1, <2>1
  <2>3. QED
    BY <1>1, <2>1, <2>2
<1>7. (PageSize * q + r) % PageSize = r
  <2> HIDE DEF q, r
  <2>1. QED
    BY <1>1, <1>5, <1>6, DivModUnique
<1> HIDE DEF q
<1>8. PageSize * q + r = x
  BY <1>1, <1>3, <1>6
<1>9. x - (x % PageSize) = b
  BY <1>1, <1>3, <1>7, <1>8
<1>10. QED
  BY <1>1, <1>3, <1>5, <1>9 DEF PageOf, s

(* Two slots of a page lie apart; pages lie apart.                         *)
LEMMA SlabApart ==
  ASSUME NEW b \in PageBases, NEW c \in PageBases,
         NEW x \in SlotsOf(b), NEW y \in SlotsOf(c), x # y
  PROVE  x + ObjectSize <= y \/ y + ObjectSize <= x
<1>1. /\ x \in Nat /\ b <= x /\ x + Stride <= b + PageSize
      /\ y \in Nat /\ c <= y /\ y + Stride <= c + PageSize
      /\ b \in Nat /\ c \in Nat
  BY SlabSlot
<1>2. Stride \in Nat /\ Stride > 0 /\ ObjectSize <= Stride /\ ObjectSize \in Nat /\ PageSize \in Nat
      /\ SlotsPerSlab \in Nat /\ HeaderSize \in Nat /\ PageSize > 0
  BY SlabConstants
<1>3. x + Stride <= y \/ y + Stride <= x
  <2>1. CASE b = c
    <3> DEFINE d == b + HeaderSize
    <3>1. SlotsOf(b) = Ladder(d, Stride, SlotsPerSlab)
      BY Zenon, SlabLadder
    <3>2. d \in Nat
      BY <1>1, <1>2
    <3> HIDE DEF d
    <3>3. QED
      BY <1>2, <2>1, <3>1, <3>2, LadderApart
  <2>2. CASE b # c
    <3>1. b % PageSize = 0 /\ c % PageSize = 0
      BY SlabConstants
    <3>2. b < c => b + PageSize <= c
      BY <1>1, <1>2, <3>1, MultiplesApart
    <3>3. c < b => c + PageSize <= b
      BY Zenon, <1>1, <1>2, <3>1, MultiplesApart
    <3>4. QED
      BY <1>1, <1>2, <2>2, <3>2, <3>3
  <2>3. QED
    BY <2>1, <2>2
<1>4. QED
  BY <1>1, <1>2, <1>3

LEMMA SlabPage ==
  ASSUME NEW b \in PageBases
  PROVE  LET t == [i \in 1..SlotsPerSlab |-> Slot(b, i - 1)]
         IN /\ t \in Seq(SlotsOf(b)) /\ t # <<>> /\ IsInjective(t)
            /\ Len(t) = SlotsPerSlab
            /\ ToSet(t) = SlotsOf(b)
<1> DEFINE s == Stride
           n == SlotsPerSlab
           c == b + HeaderSize
           S == SlotsOf(b)
           t == [i \in 1..n |-> Slot(b, i - 1)]
<1>1. s \in Nat /\ s > 0 /\ n \in Nat /\ n > 0 /\ c \in Nat
  BY SlabConstants
<1>2. S = Ladder(c, s, n) /\ t = LadderSeq(c, s, n)
  BY SlabLadder
<1> HIDE DEF s, n, c, t, S
<1>3. LET u == LadderSeq(c, s, n)
      IN /\ u \in Seq(Ladder(c, s, n)) /\ u # <<>> /\ IsInjective(u)
         /\ Len(u) = n
         /\ ToSet(u) = Ladder(c, s, n)
  BY <1>1, LadderBlock
<1>4. /\ t \in Seq(S) /\ t # <<>> /\ IsInjective(t) /\ Len(t) = n /\ ToSet(t) = S
  BY <1>2, <1>3
<1>5. QED
  BY Zenon, <1>4 DEF t, S, n

(* A stack of different slots has as many slots as its length.             *)
LEMMA StackSize ==
  ASSUME NEW S, NEW s \in Seq(S), IsInjective(s)
  PROVE  IsFiniteSet(ToSet(s)) /\ Cardinality(ToSet(s)) = Len(s)
<1> DEFINE n == Len(s)
<1>1. n \in Nat /\ DOMAIN s = 1..n
  OBVIOUS
<1> HIDE DEF n
<1>2. IsFiniteSet(1..n) /\ Cardinality(1..n) = n
  BY <1>1, FS_Interval
<1>3. \A i, j \in 1..n : s[i] = s[j] => i = j
  BY <1>1 DEF IsInjective
<1>4. /\ IsFiniteSet({s[i] : i \in 1..n})
      /\ Cardinality({s[i] : i \in 1..n}) = Cardinality(1..n)
  BY <1>1, <1>2, <1>3, ImageCard
<1>5. ToSet(s) = {s[i] : i \in 1..n}
  BY <1>1 DEF ToSet
<1>6. QED
  BY <1>2, <1>4, <1>5 DEF n

(* A stack as long as a slab has slots holds all of them.                  *)
LEMMA StackedFull ==
  ASSUME NEW b \in PageBases, NEW s, NEW f, Stacked(SlotsOf(b), s, f), Len(s) = SlotsPerSlab
  PROVE  DOMAIN f = {}
<1> DEFINE S == SlotsOf(b)
<1>1. IsFiniteSet(S) /\ Cardinality(S) = SlotsPerSlab
  <2> DEFINE t == [i \in 1..SlotsPerSlab |-> Slot(b, i - 1)]
  <2>1. t \in Seq(S) /\ IsInjective(t) /\ Len(t) = SlotsPerSlab /\ ToSet(t) = S
    BY SlabPage
  <2> HIDE DEF t, S
  <2>2. QED
    BY <2>1, StackSize
<1> HIDE DEF S
<1>2. /\ s \in Seq(S) /\ IsInjective(s) /\ ToSet(s) \cup Range(f) = S
      /\ ToSet(s) \cap Range(f) = {}
  BY DEF Stacked, S
<1>3. Cardinality(ToSet(s)) = SlotsPerSlab
  BY <1>2, StackSize
<1>4. ToSet(s) = S
  BY <1>1, <1>2, <1>3, FS_Subset
<1>5. Range(f) = {}
  BY <1>2, <1>4
<1>6. \A h \in DOMAIN f : f[h] \in Range(f)
  BY DEF Range
<1>7. QED
  BY <1>5, <1>6

(* One free list is replaced.                                              *)
WithList(ss, i, q) == [ss EXCEPT ![i].free_list = q]

LEMMA SlabPut ==
  ASSUME NEW ss \in Seq(SlabRecord), NEW i \in 1..Len(ss), NEW q \in Seq(Nat)
  PROVE  LET t == WithList(ss, i, q)
         IN /\ t \in Seq(SlabRecord) /\ Len(t) = Len(ss)
            /\ t[i].free_list = q
            /\ \A j \in 1..Len(ss) : t[j].base = ss[j].base /\ (j # i => t[j] = ss[j])
<1> DEFINE n == Len(ss)
           r == [ss[i] EXCEPT !.free_list = q]
           t == WithList(ss, i, q)
<1>1. n \in Nat /\ ss \in [1..n -> SlabRecord] /\ i \in 1..n
  OBVIOUS
<1>2. t = [ss EXCEPT ![i] = r]
  BY DEF WithList
<1> HIDE DEF n, t
<1>3. r \in SlabRecord /\ r.base = ss[i].base /\ r.free_list = q
  <2>1. ss[i] \in SlabRecord
    BY <1>1
  <2>2. QED
    BY Zenon, <2>1 DEF SlabRecord
<1> HIDE DEF r
<1>4. /\ t \in [1..n -> SlabRecord] /\ t[i] = r
      /\ \A j \in 1..n : j # i => t[j] = ss[j]
  BY <1>1, <1>2, <1>3
<1>5. t \in Seq(SlabRecord) /\ Len(t) = n
  BY <1>1, <1>4
<1>6. \A j \in 1..n : t[j].base = ss[j].base
  BY <1>3, <1>4
<1>7. QED
  BY <1>3, <1>4, <1>5, <1>6 DEF n, t

LEMMA SlabLiveGains ==
  ASSUME NEW b, NEW x, PageOf(x) = b, NEW id, id \notin DOMAIN live,
         DOMAIN live' = DOMAIN live \cup {id}, live'[id] = x,
         \A h \in DOMAIN live : live'[h] = live[h]
  PROVE  /\ id \notin DOMAIN SlabLive(b) /\ SlabLive(b)'[id] = x
         /\ DOMAIN (SlabLive(b)') = DOMAIN SlabLive(b) \cup {id}
         /\ \A h \in DOMAIN SlabLive(b) : SlabLive(b)'[h] = SlabLive(b)[h]
         /\ \A c : c # b => SlabLive(c)' = SlabLive(c)
<1> DEFINE L == {g \in DOMAIN live : PageOf(live[g]) = b}
<1>1. \A g \in DOMAIN live' : PageOf(live'[g]) = IF g = id THEN b ELSE PageOf(live[g])
  OBVIOUS
<1>2. {g \in DOMAIN live' : PageOf(live'[g]) = b} = L \cup {id} /\ id \notin L
  BY <1>1
<1>3. SlabLive(b) = [h \in L |-> live[h]] /\ SlabLive(b)' = [h \in L \cup {id} |-> live'[h]]
  BY <1>2 DEF SlabLive
<1>4. ASSUME NEW c, c # b
      PROVE  SlabLive(c)' = SlabLive(c)
  <2>1. {g \in DOMAIN live' : PageOf(live'[g]) = c} = {g \in DOMAIN live : PageOf(live[g]) = c}
    BY <1>1, <1>4
  <2>2. QED
    BY <2>1 DEF SlabLive
<1> HIDE DEF L
<1>5. \A h \in L : h \in DOMAIN live
  BY DEF L
<1>6. QED
  BY <1>2, <1>3, <1>4, <1>5

LEMMA SlabLiveLoses ==
  ASSUME NEW b, NEW id \in DOMAIN live, PageOf(live[id]) = b,
         DOMAIN live' = DOMAIN live \ {id},
         \A h \in DOMAIN live' : live'[h] = live[h]
  PROVE  /\ id \in DOMAIN SlabLive(b) /\ SlabLive(b)[id] = live[id]
         /\ DOMAIN (SlabLive(b)') = DOMAIN SlabLive(b) \ {id}
         /\ \A h \in DOMAIN (SlabLive(b)') :
              SlabLive(b)'[h] = SlabLive(b)[h]
         /\ \A c : c # b => SlabLive(c)' = SlabLive(c)
<1> DEFINE L == {g \in DOMAIN live : PageOf(live[g]) = b}
<1>1. \A g \in DOMAIN live' : PageOf(live'[g]) = PageOf(live[g])
  OBVIOUS
<1>3. {g \in DOMAIN live' : PageOf(live'[g]) = b} = L \ {id} /\ id \in L
  BY <1>1
<1>4. SlabLive(b) = [h \in L |-> live[h]] /\ SlabLive(b)' = [h \in L \ {id} |-> live'[h]]
  BY <1>3 DEF SlabLive
<1>5. ASSUME NEW c, c # b
      PROVE  SlabLive(c)' = SlabLive(c)
  <2>1. {g \in DOMAIN live' : PageOf(live'[g]) = c} = {g \in DOMAIN live : PageOf(live[g]) = c}
    BY <1>1, <1>5
  <2>2. \A h \in {g \in DOMAIN live : PageOf(live[g]) = c} : live'[h] = live[h]
    BY <2>1
  <2>3. QED
    BY <2>1, <2>2 DEF SlabLive
<1> HIDE DEF L
<1>6. \A h \in L : h \in DOMAIN live
  BY DEF L
<1>7. QED
  BY <1>3, <1>4, <1>5, <1>6

(* The slot at the back of slab i is handed out.                           *)
LEMMA SlabShapeTake ==
  ASSUME NEW ss, SlabShape(ss), NEW i \in 1..Len(ss), ss[i].free_list # <<>>,
         NEW t, t = [ss EXCEPT ![i].free_list = Front(@)],
         NEW id, id \notin DOMAIN live, DOMAIN live' = DOMAIN live \cup {id},
         live'[id] = Last(ss[i].free_list), \A h \in DOMAIN live : live'[h] = live[h]
  PROVE  SlabShape(t)' /\ Len(t) = Len(ss)
<1> DEFINE b == ss[i].base
           s == ss[i].free_list
           x == Last(s)
           q == Front(s)
<1>1. /\ ss \in Seq(SlabRecord) /\ Len(ss) \in Nat
      /\ \A j, k \in 1..Len(ss) : ss[j].base = ss[k].base => j = k
      /\ \A j \in 1..Len(ss) :
           Stacked(SlotsOf(ss[j].base), ss[j].free_list, SlabLive(ss[j].base))
      /\ \A h \in DOMAIN live : \E j \in 1..Len(ss) : live[h] \in SlotsOf(ss[j].base)
  BY DEF SlabShape
<1>2. ss[i] \in SlabRecord /\ b \in PageBases /\ s \in Seq(Nat) /\ s # <<>>
  <2>1. ss[i] \in SlabRecord
    BY <1>1
  <2>2. b \in PageBases /\ s \in Seq(Nat)
    BY <2>1 DEF SlabRecord
  <2>3. QED
    BY <2>1, <2>2
<1>3. Stacked(SlotsOf(b), s, SlabLive(b)) /\ live'[id] = x
  BY <1>1
<1>4. t = WithList(ss, i, q)
  BY DEF WithList
<1> HIDE DEF b, s, x, q
<1>5. IsInjective(s)
  BY <1>3 DEF Stacked
<1>6. q \in Seq(Nat)
  BY <1>2, <1>5, StackPop DEF q
<1>7. /\ t \in Seq(SlabRecord) /\ Len(t) = Len(ss) /\ t[i].free_list = q
      /\ \A j \in 1..Len(ss) : t[j].base = ss[j].base /\ (j # i => t[j] = ss[j])
  <2> DEFINE u == WithList(ss, i, q)
  <2>1. /\ u \in Seq(SlabRecord) /\ Len(u) = Len(ss) /\ u[i].free_list = q
        /\ \A j \in 1..Len(ss) : u[j].base = ss[j].base /\ (j # i => u[j] = ss[j])
    BY <1>1, <1>6, SlabPut
  <2> HIDE DEF u
  <2>2. t = u
    BY <1>4 DEF u
  <2>3. QED
    BY Zenon, <2>1, <2>2
<1>8. x \in SlotsOf(b)
  <2>1. s \in Seq(SlotsOf(b))
    BY <1>3 DEF Stacked
  <2>2. QED
    BY <1>2, <1>5, <2>1, StackPop DEF x
<1>9. PageOf(x) = b
  BY <1>2, <1>8, SlabSlot
<1>10. /\ id \notin DOMAIN SlabLive(b) /\ SlabLive(b)'[id] = x
       /\ DOMAIN (SlabLive(b)') = DOMAIN SlabLive(b) \cup {id}
       /\ \A h \in DOMAIN SlabLive(b) : SlabLive(b)'[h] = SlabLive(b)[h]
       /\ \A c : c # b => SlabLive(c)' = SlabLive(c)
  <2>1. /\ PageOf(x) = b /\ id \notin DOMAIN live
        /\ DOMAIN live' = DOMAIN live \cup {id} /\ live'[id] = x
        /\ \A h \in DOMAIN live : live'[h] = live[h]
    BY <1>3, <1>9
  <2>2. QED
    BY ONLY ZenonT(60), <2>1, SlabLiveGains
<1>11. Stacked(SlotsOf(b), q, SlabLive(b)')
  <2> DEFINE f == SlabLive(b)
             g == SlabLive(b)'
  <2>1. /\ id \notin DOMAIN f /\ g[id] = Last(s) /\ DOMAIN g = DOMAIN f \cup {id}
        /\ \A h \in DOMAIN f : g[h] = f[h]
        /\ Stacked(SlotsOf(b), s, f) /\ s # <<>>
    BY <1>2, <1>3, <1>10 DEF x
  <2> HIDE DEF f, g
  <2>2. Stacked(SlotsOf(b), Front(s), g)
    BY <2>1, StackedTake
  <2>3. QED
    BY <2>2 DEF g, q
<1>12. ASSUME NEW j \in 1..Len(ss)
       PROVE  Stacked(SlotsOf(t[j].base), t[j].free_list, SlabLive(t[j].base)')
  <2>1. CASE j = i
    BY <1>7, <1>11, <2>1 DEF b
  <2>2. CASE j # i
    <3>1. ss[j].base # b
      BY <1>1, <2>2 DEF b
    <3>2. SlabLive(ss[j].base)' = SlabLive(ss[j].base)
      BY <1>10, <3>1
    <3>3. QED
      BY <1>1, <1>7, <2>2, <3>2
  <2>3. QED
    BY <2>1, <2>2
<1>13. ASSUME NEW h \in DOMAIN live'
       PROVE  \E j \in 1..Len(t) : live'[h] \in SlotsOf(t[j].base)
  <2>1. CASE h = id
    BY <1>3, <1>7, <1>8, <2>1 DEF b
  <2>2. CASE h \in DOMAIN live
    BY <1>1, <1>7, <2>2
  <2>3. QED
    BY <2>1, <2>2
<1>14. SlabShape(t)'
  BY <1>1, <1>7, <1>12, <1>13 DEF SlabShape
<1>15. QED
  BY <1>7, <1>14

(* A slot handed out is put back on its slab's list.                       *)
LEMMA SlabShapeFree ==
  ASSUME NEW ss, SlabShape(ss), NEW i \in 1..Len(ss), NEW id \in DOMAIN live,
         ss[i].base = PageOf(live[id]),
         NEW t, t = [ss EXCEPT ![i].free_list = Append(@, live[id])],
         DOMAIN live' = DOMAIN live \ {id}, \A h \in DOMAIN live' : live'[h] = live[h]
  PROVE  SlabShape(t)' /\ Len(t) = Len(ss)
<1>1. PICK x : x = live[id]
  OBVIOUS
<1> DEFINE b == ss[i].base
           s == ss[i].free_list
           q == Append(s, x)
<1>2. /\ ss \in Seq(SlabRecord) /\ Len(ss) \in Nat
      /\ \A j, k \in 1..Len(ss) : ss[j].base = ss[k].base => j = k
      /\ \A j \in 1..Len(ss) :
           Stacked(SlotsOf(ss[j].base), ss[j].free_list, SlabLive(ss[j].base))
      /\ \A h \in DOMAIN live : \E j \in 1..Len(ss) : live[h] \in SlotsOf(ss[j].base)
  BY DEF SlabShape
<1>3. b \in PageBases /\ s \in Seq(Nat)
  <2>1. ss[i] \in SlabRecord
    BY <1>2
  <2>2. QED
    BY <2>1 DEF SlabRecord
<1>4. Stacked(SlotsOf(b), s, SlabLive(b)) /\ PageOf(x) = b /\ live[id] = x
  BY <1>1, <1>2
<1>5. t = WithList(ss, i, q)
  BY <1>1 DEF WithList
<1> HIDE DEF b, s, q
<1>6. /\ id \in DOMAIN SlabLive(b) /\ SlabLive(b)[id] = x
      /\ DOMAIN (SlabLive(b)') = DOMAIN SlabLive(b) \ {id}
      /\ \A h \in DOMAIN (SlabLive(b)') : SlabLive(b)'[h] = SlabLive(b)[h]
      /\ \A c : c # b => SlabLive(c)' = SlabLive(c)
  <2>1. PageOf(live[id]) = b
    BY <1>4
  <2>2. /\ id \in DOMAIN SlabLive(b) /\ SlabLive(b)[id] = live[id]
        /\ DOMAIN (SlabLive(b)') = DOMAIN SlabLive(b) \ {id}
        /\ \A h \in DOMAIN (SlabLive(b)') : SlabLive(b)'[h] = SlabLive(b)[h]
        /\ \A c : c # b => SlabLive(c)' = SlabLive(c)
    BY Zenon, <2>1, SlabLiveLoses
  <2>3. QED
    BY <1>4, <2>2
<1>7. Stacked(SlotsOf(b), q, SlabLive(b)') /\ x \in SlotsOf(b)
  <2> DEFINE f == SlabLive(b)
             g == SlabLive(b)'
  <2>1. /\ id \in DOMAIN f /\ f[id] = x /\ DOMAIN g = DOMAIN f \ {id}
        /\ \A h \in DOMAIN g : g[h] = f[h]
        /\ Stacked(SlotsOf(b), s, f)
    BY <1>4, <1>6
  <2> HIDE DEF f, g
  <2>2. Stacked(SlotsOf(b), Append(s, f[id]), g) /\ f[id] \in SlotsOf(b)
    BY ZenonT(60), <2>1, StackedFree
  <2>3. QED
    BY <2>1, <2>2 DEF g, q
<1>8. q \in Seq(Nat)
  <2>1. x \in Nat
    BY <1>3, <1>7, SlabSlot
  <2>2. QED
    BY <1>3, <2>1 DEF q
<1>9. /\ t \in Seq(SlabRecord) /\ Len(t) = Len(ss) /\ t[i].free_list = q
      /\ \A j \in 1..Len(ss) : t[j].base = ss[j].base /\ (j # i => t[j] = ss[j])
  <2> DEFINE u == WithList(ss, i, q)
  <2>1. /\ u \in Seq(SlabRecord) /\ Len(u) = Len(ss) /\ u[i].free_list = q
        /\ \A j \in 1..Len(ss) : u[j].base = ss[j].base /\ (j # i => u[j] = ss[j])
    BY <1>2, <1>8, SlabPut
  <2> HIDE DEF u
  <2>2. t = u
    BY <1>5 DEF u
  <2>3. QED
    BY Zenon, <2>1, <2>2
<1>10. ASSUME NEW j \in 1..Len(ss)
       PROVE  Stacked(SlotsOf(t[j].base), t[j].free_list, SlabLive(t[j].base)')
  <2>1. CASE j = i
    BY Zenon, <1>7, <1>9, <2>1 DEF b
  <2>2. CASE j # i
    <3>1. ss[j].base # b
      BY <1>2, <2>2 DEF b
    <3>2. SlabLive(ss[j].base)' = SlabLive(ss[j].base)
      BY <1>6, <3>1
    <3>3. QED
      BY <1>2, <1>9, <2>2, <3>2
  <2>3. QED
    BY <2>1, <2>2
<1>11. \A h \in DOMAIN live' : \E j \in 1..Len(t) : live'[h] \in SlotsOf(t[j].base)
  BY <1>2, <1>9
<1>12. SlabShape(t)'
  BY <1>2, <1>9, <1>10, <1>11 DEF SlabShape
<1>13. QED
  BY <1>9, <1>12

(* A page that is not held yet is added, with all its slots free.          *)
LEMMA SlabShapeGrow ==
  ASSUME NEW ss, SlabShape(ss), NEW b \in PageBases, \A i \in 1..Len(ss) : ss[i].base # b,
         NEW page, page = [base |-> b, free_list |-> [i \in 1..SlotsPerSlab |-> Slot(b, i - 1)]],
         IsFiniteSet(DOMAIN live)
  PROVE  LET t == Append(ss, page)
         IN SlabShape(t) /\ Len(t) = Len(ss) + 1 /\ t[Len(t)].free_list # <<>>
<1> DEFINE n == Len(ss)
           q == [i \in 1..SlotsPerSlab |-> Slot(b, i - 1)]
           t == Append(ss, page)
<1>1. /\ ss \in Seq(SlabRecord) /\ n \in Nat
      /\ \A j, k \in 1..n : ss[j].base = ss[k].base => j = k
      /\ \A j \in 1..n :
           Stacked(SlotsOf(ss[j].base), ss[j].free_list, SlabLive(ss[j].base))
      /\ \A h \in DOMAIN live : \E j \in 1..n : live[h] \in SlotsOf(ss[j].base)
  BY DEF SlabShape
<1>2. q \in Seq(SlotsOf(b)) /\ q # <<>> /\ IsInjective(q) /\ ToSet(q) = SlotsOf(b)
  BY Zenon, SlabPage
<1>3. page.base = b /\ page.free_list = q /\ page = [base |-> b, free_list |-> q]
  OBVIOUS
<1> HIDE DEF q
<1>4. q \in Seq(Nat)
  <2>1. SlotsOf(b) \subseteq Nat
    BY SlabSlot
  <2>2. QED
    BY <1>2, <2>1, SeqWider
<1>5. page \in SlabRecord
  BY Zenon, <1>3, <1>4 DEF SlabRecord
<1>6. /\ t \in Seq(SlabRecord) /\ Len(t) = n + 1 /\ t[n + 1] = page
      /\ \A j \in 1..n : t[j] = ss[j]
  BY <1>1, <1>5
<1>7. \A j \in 1..(n + 1) : j \in 1..n \/ j = n + 1
  BY <1>1
<1> HIDE DEF n, t
<1>8. \A j \in 1..n : ss[j].base \in PageBases
  <2>1. \A j \in 1..n : ss[j] \in SlabRecord
    BY <1>1 DEF n
  <2>2. QED
    BY <2>1 DEF SlabRecord
<1>9. DOMAIN SlabLive(b) = {}
  <2>1. SUFFICES ASSUME NEW h \in DOMAIN live, PageOf(live[h]) = b PROVE FALSE
    BY DEF SlabLive
  <2>2. PICK j \in 1..n : live[h] \in SlotsOf(ss[j].base)
    BY <1>1
  <2>3. PageOf(live[h]) = ss[j].base
    BY <1>8, <2>2, SlabSlot
  <2>4. QED
    BY <2>1, <2>2, <2>3 DEF n
<1>10. Stacked(SlotsOf(b), q, SlabLive(b))
  <2>1. Range(SlabLive(b)) = {} /\ IsFiniteSet(DOMAIN SlabLive(b))
    BY <1>9, FS_EmptySet DEF Range
  <2>2. QED
    BY <1>2, <1>9, <2>1 DEF Stacked
<1>11. \A j \in 1..(n + 1) : Stacked(SlotsOf(t[j].base), t[j].free_list, SlabLive(t[j].base))
  BY Zenon, <1>1, <1>3, <1>6, <1>7, <1>10
<1>12. \A j, k \in 1..(n + 1) : t[j].base = t[k].base => j = k
  <2>1. \A j \in 1..n : t[j].base # b /\ t[j].base = ss[j].base
    BY <1>6 DEF n
  <2>2. QED
    BY <1>1, <1>3, <1>6, <1>7, <2>1
<1>13. \A h \in DOMAIN live : \E j \in 1..(n + 1) : live[h] \in SlotsOf(t[j].base)
  <2>1. 1..n \subseteq 1..(n + 1)
    BY <1>1
  <2>2. QED
    BY <1>1, <1>6, <2>1
<1>14. SlabShape(t)
  BY <1>6, <1>11, <1>12, <1>13 DEF SlabShape
<1>15. t[Len(t)].free_list # <<>>
  BY <1>2, <1>3, <1>6
<1>16. QED
  BY <1>6, <1>14, <1>15 DEF n, t

(* The slabs that are not idle are kept, in their order.                   *)
LEMMA SlabShapeKeep ==
  ASSUME NEW ss, SlabShape(ss), NEW K, K = {i \in DOMAIN ss : ~ Idle(ss[i])},
         NEW f \in InOrder(K), NEW t, t = [n \in DOMAIN f |-> ss[f[n]]]
  PROVE  /\ SlabShape(t) /\ Len(t) = Cardinality(K)
         /\ Cardinality(K) \in Nat /\ Cardinality(K) <= Len(ss)
<1> DEFINE c == Cardinality(K)
<1>1. /\ ss \in Seq(SlabRecord) /\ Len(ss) \in Nat /\ DOMAIN ss = 1..Len(ss)
      /\ \A j, k \in 1..Len(ss) : ss[j].base = ss[k].base => j = k
      /\ \A j \in 1..Len(ss) :
           Stacked(SlotsOf(ss[j].base), ss[j].free_list, SlabLive(ss[j].base))
      /\ \A h \in DOMAIN live : \E j \in 1..Len(ss) : live[h] \in SlotsOf(ss[j].base)
  BY DEF SlabShape
<1>2. \A j \in 1..Len(ss) : ss[j] \in SlabRecord
  BY <1>1
<1>3. /\ K \subseteq 1..Len(ss) /\ IsFiniteSet(K) /\ c \in Nat /\ c <= Len(ss)
  <2>1. IsFiniteSet(1..Len(ss)) /\ Cardinality(1..Len(ss)) = Len(ss)
    BY <1>1, FS_Interval
  <2>2. K \subseteq 1..Len(ss)
    BY <1>1
  <2>3. QED
    BY <2>1, <2>2, FS_Subset, FS_CardinalityType
<1>4. /\ DOMAIN f = 1..c /\ \A n \in 1..c : f[n] \in K
      /\ \A m, n \in 1..c : m < n => f[m] < f[n]
  BY DEF InOrder
<1> HIDE DEF c
<1>5. \A m, n \in 1..c : f[m] = f[n] => m = n
  <2>1. \A m, n \in 1..c : f[m] \in Int /\ f[n] \in Int
    BY <1>1, <1>3, <1>4
  <2>2. \A m, n \in 1..c : m < n \/ m = n \/ n < m
    BY <1>3
  <2>3. QED
    BY <1>4, <2>1, <2>2
<1>6. \A i \in K : \E n \in 1..c : i = f[n]
  <2> DEFINE T == Range(f)
  <2>1. IsFiniteSet(1..c) /\ Cardinality(1..c) = c
    BY <1>3, FS_Interval
  <2>2. Cardinality(T) = c
    <3>1. IsFiniteSet(DOMAIN f) /\ \A g, h \in DOMAIN f : f[g] = f[h] => g = h
      BY <1>4, <1>5, <2>1
    <3>2. QED
      BY Zenon, <1>4, <2>1, <3>1, RangeSize
  <2>3. T \subseteq K /\ T = {f[n] : n \in 1..c}
    BY <1>4 DEF Range
  <2> HIDE DEF T
  <2>4. T = K
    BY Zenon, <1>3, <2>2, <2>3, FS_Subset DEF c
  <2>5. QED
    BY <2>3, <2>4
<1>7. DOMAIN t = 1..c /\ \A n \in 1..c : t[n] = ss[f[n]]
  BY <1>4
<1>8. t \in Seq(SlabRecord) /\ Len(t) = c
  <2>1. t \in [1..c -> SlabRecord]
    BY <1>2, <1>3, <1>4
  <2>2. QED
    BY <1>3, <2>1
<1>9. \A j, k \in 1..c : t[j].base = t[k].base => j = k
  BY <1>1, <1>3, <1>4, <1>5, <1>7
<1>10. \A j \in 1..c : Stacked(SlotsOf(t[j].base), t[j].free_list, SlabLive(t[j].base))
  BY <1>1, <1>3, <1>4, <1>7
<1>11. ASSUME NEW h \in DOMAIN live
       PROVE  \E j \in 1..c : live[h] \in SlotsOf(t[j].base)
  <2>1. PICK i \in 1..Len(ss) : live[h] \in SlotsOf(ss[i].base)
    BY <1>1
  <2>2. ss[i].base \in PageBases
    BY <1>2 DEF SlabRecord
  <2>3. h \in DOMAIN SlabLive(ss[i].base)
    <3>1. PageOf(live[h]) = ss[i].base
      BY <2>1, <2>2, SlabSlot
    <3>2. QED
      BY <3>1 DEF SlabLive
  <2>4. ~ Idle(ss[i])
    BY <1>1, <2>2, <2>3, StackedFull DEF Idle
  <2>5. i \in K
    BY <1>1, <2>4
  <2>6. PICK n \in 1..c : i = f[n]
    BY <1>6, <2>5
  <2>7. t[n].base = ss[i].base
    BY <1>7, <2>6
  <2>8. QED
    BY <2>1, <2>7
<1>12. SlabShape(t)
  BY <1>8, <1>9, <1>10, <1>11 DEF SlabShape
<1>13. QED
  BY <1>3, <1>8, <1>12 DEF c

LEMMA SlabNumbers ==
  ASSUME SlabInv
  PROVE  /\ next_id \in Nat /\ next_id <= MaxIds /\ DOMAIN live \subseteq 1..next_id
         /\ IsFiniteSet(DOMAIN live) /\ next_id + 1 \notin DOMAIN live
         /\ Cardinality(DOMAIN live) \in Nat /\ Len(slabs) \in Nat
         /\ total_bytes \in Nat
<1>1. next_id \in Nat /\ next_id <= MaxIds /\ DOMAIN live \subseteq 1..next_id
  BY SlabConstants DEF SlabInv
<1>2. IsFiniteSet(DOMAIN live) /\ next_id + 1 \notin DOMAIN live
  BY <1>1, HandlesFinite
<1>3. Len(slabs) \in Nat
  BY DEF SlabInv, SlabShape
<1>4. PageSize * Len(slabs) \in Nat
  BY <1>3, SlabConstants
<1>5. QED
  BY <1>1, <1>2, <1>3, <1>4, FS_CardinalityType DEF SlabInv

(* allocate() takes a slot of slab i of ss.                                *)
LEMMA SlabTake ==
  ASSUME SlabInv, NEW ss, SlabShape(ss), NEW i \in 1..Len(ss), ss[i].free_list # <<>>,
         NEW req \in Request, Admission(req) = "ok", next_id < MaxIds, Take(ss, i, req)
  PROVE  /\ SlabShape(slabs)' /\ Len(slabs') = Len(ss)
         /\ next_id' \in 0..MaxIds /\ DOMAIN live' \subseteq 1..next_id'
         /\ {live_count', live_bytes', requested', granted'} \subseteq Nat
         /\ live_count' = Cardinality(DOMAIN live')
         /\ live_bytes' = ObjectSize * live_count'
         /\ granted' >= requested' /\ granted' >= live_bytes'
         /\ result' = "ok"
<1>1. PICK id : id = next_id + 1
  OBVIOUS
<1>2. PICK t : t = [ss EXCEPT ![i].free_list = Front(@)]
  BY Zenon
<1> DEFINE x == Last(ss[i].free_list)
<1>3. /\ slabs' = t
      /\ live' = [h \in DOMAIN live \cup {id} |-> IF h = id THEN x ELSE live[h]]
      /\ next_id' = id /\ live_count' = live_count + 1
      /\ live_bytes' = live_bytes + ObjectSize
      /\ requested' = requested + req.size /\ granted' = granted + ObjectSize
      /\ result' = "ok"
  BY <1>1, <1>2 DEF Take
<1>4. /\ next_id \in Nat /\ DOMAIN live \subseteq 1..next_id
      /\ IsFiniteSet(DOMAIN live) /\ id \notin DOMAIN live
  BY <1>1, SlabNumbers
<1>5. DOMAIN live' = DOMAIN live \cup {id} /\ live'[id] = x /\ \A h \in DOMAIN live : live'[h] = live[h]
  BY <1>3, <1>4
<1>6. SlabShape(t)' /\ Len(t) = Len(ss)
  BY Zenon, <1>2, <1>4, <1>5, SlabShapeTake
<1>7. SlabShape(slabs)'
  BY Zenon, <1>3, <1>6 DEF SlabShape
<1>8. next_id' \in 0..MaxIds /\ DOMAIN live' \subseteq 1..next_id'
  BY <1>1, <1>3, <1>4, <1>5, SlabConstants
<1>9. live_count' = Cardinality(DOMAIN live') /\ live_count \in Nat /\ live_count' = live_count + 1
  <2>1. Cardinality(DOMAIN live') = Cardinality(DOMAIN live) + 1
    BY <1>4, <1>5, FS_AddElement
  <2>2. QED
    BY <1>3, <2>1, SlabNumbers DEF SlabInv
<1>10. req.size \in Nat /\ req.size <= ObjectSize
  <2>1. req.size \in Nat
    BY SlabConstants
  <2>2. ~ (req.size > ObjectSize)
    BY DEF Admission
  <2>3. QED
    BY <2>1, <2>2, SlabConstants
<1>11. ObjectSize * (live_count + 1) = ObjectSize * live_count + ObjectSize
  BY <1>9, SlabConstants
<1>12. /\ live_bytes \in Nat /\ requested \in Nat /\ granted \in Nat
       /\ live_bytes = ObjectSize * live_count
       /\ granted >= requested /\ granted >= live_bytes
  BY DEF SlabInv
<1>13. live_bytes' = ObjectSize * live_count'
  BY <1>3, <1>11, <1>12
<1>14. /\ {live_count', live_bytes', requested', granted'} \subseteq Nat
       /\ granted' >= requested' /\ granted' >= live_bytes'
  <2>1. ObjectSize \in Nat
    BY SlabConstants
  <2>2. QED
    BY <1>3, <1>9, <1>10, <1>12, <2>1
<1>15. QED
  BY <1>3, <1>6, <1>7, <1>8, <1>9, <1>13, <1>14

(* The first slab with a free slot is a slab with a free slot.             *)
LEMMA SlabSearch ==
  ASSUME NEW ss, ss = slabs, Len(ss) \in Nat, SlabWithFree > 0
  PROVE  SlabWithFree \in 1..Len(ss) /\ ss[SlabWithFree].free_list # <<>>
<1> DEFINE I == {i \in 1..Len(ss) : ss[i].free_list # <<>>}
           c == SlabWithFree
<1>1. c = IF I # {} THEN Min(I) ELSE 0
  BY DEF SlabWithFree, SelectInSeq
<1>2. I \in SUBSET Nat /\ I # {}
  BY <1>1
<1>3. c \in I
  <2> HIDE DEF I
  <2>1. \E m \in I : \A y \in I : m <= y
    BY <1>2, NatMin
  <2>2. QED
    BY Zenon, <1>1, <1>2, <2>1 DEF Min
<1>4. QED
  BY <1>3

LEMMA SlabPlace ==
  ASSUME NEW ss, ss = slabs, Len(ss) \in Nat, NEW x, SlabOf(x) > 0
  PROVE  SlabOf(x) \in 1..Len(ss) /\ ss[SlabOf(x)].base = PageOf(x)
<1> DEFINE I == {i \in 1..Len(ss) : ss[i].base = PageOf(x)}
           c == SlabOf(x)
<1>1. c = IF I # {} THEN Min(I) ELSE 0
  BY DEF SlabOf, SelectInSeq
<1>2. I \in SUBSET Nat /\ I # {}
  BY <1>1
<1>3. c \in I
  <2> HIDE DEF I
  <2>1. \E m \in I : \A y \in I : m <= y
    BY <1>2, NatMin
  <2>2. QED
    BY Zenon, <1>1, <1>2, <2>1 DEF Min
<1>4. QED
  BY <1>3

LEMMA SlabAllocate ==
  ASSUME SlabInv, NEW req \in Request, Allocate(req)
  PROVE  SlabInv'
<1>1. PICK ss : ss = slabs
  OBVIOUS
<1>2. PICK i : i = SlabWithFree
  OBVIOUS
<1>3. /\ Admission(req) = "ok" /\ next_id < MaxIds /\ SlabWithFree > 0
      /\ Take(ss, i, req)
      /\ UNCHANGED <<total_bytes, growth, recovered>>
  BY <1>1, <1>2 DEF Allocate
<1>4. SlabShape(ss) /\ Len(ss) \in Nat
  BY <1>1, SlabNumbers DEF SlabInv
<1>5. i \in 1..Len(ss) /\ ss[i].free_list # <<>>
  BY <1>1, <1>2, <1>3, <1>4, SlabSearch
<1>6. /\ SlabShape(slabs)' /\ Len(slabs') = Len(ss)
      /\ next_id' \in 0..MaxIds /\ DOMAIN live' \subseteq 1..next_id'
      /\ {live_count', live_bytes', requested', granted'} \subseteq Nat
      /\ live_count' = Cardinality(DOMAIN live')
      /\ live_bytes' = ObjectSize * live_count'
      /\ granted' >= requested' /\ granted' >= live_bytes'
      /\ result' = "ok"
  BY <1>3, <1>4, <1>5, SlabTake
<1>7. QED
  BY <1>1, <1>3, <1>6 DEF SlabInv

LEMMA SlabGrow ==
  ASSUME SlabInv, NEW req \in Request, AllocateGrow(req)
  PROVE  SlabInv'
<1>1. /\ Admission(req) = "ok" /\ next_id < MaxIds /\ MayGrow
      /\ total_bytes' = total_bytes + PageSize /\ growth' = growth + 1
      /\ recovered' = recovered
  BY DEF AllocateGrow
<1>2. PICK b \in PageBases \ {s.base : s \in ToSet(slabs)} :
        Take(Append(slabs, [base |-> b,
                            free_list |-> [i \in 1..SlotsPerSlab |-> Slot(b, i - 1)]]),
             Len(slabs) + 1, req)
  BY Zenon DEF AllocateGrow
<1>3. PICK page : page = [base |-> b, free_list |-> [i \in 1..SlotsPerSlab |-> Slot(b, i - 1)]]
  BY Zenon
<1>4. PICK tt : tt = slabs
  OBVIOUS
<1>5. SlabShape(tt) /\ Len(tt) \in Nat /\ IsFiniteSet(DOMAIN live)
  BY <1>4, SlabNumbers DEF SlabInv
<1>6. \A i \in 1..Len(tt) : tt[i].base # b
  <2>1. ToSet(tt) = {tt[i] : i \in 1..Len(tt)}
    BY <1>5 DEF SlabShape, ToSet
  <2>2. QED
    BY <1>2, <1>4, <2>1
<1>7. PICK ss : ss = Append(tt, page)
  BY Zenon
<1>8. SlabShape(ss) /\ Len(ss) = Len(tt) + 1 /\ ss[Len(ss)].free_list # <<>>
  BY Zenon, <1>3, <1>5, <1>6, <1>7, SlabShapeGrow
<1>9. PICK i : i = Len(ss)
  BY Zenon
<1>10. i \in 1..Len(ss) /\ ss[i].free_list # <<>> /\ Take(ss, i, req)
  <2>1. Take(ss, i, req)
    BY <1>2, <1>3, <1>4, <1>7, <1>8, <1>9
  <2>2. QED
    BY <1>5, <1>8, <1>9, <2>1
<1>11. /\ SlabShape(slabs)' /\ Len(slabs') = Len(ss)
       /\ next_id' \in 0..MaxIds /\ DOMAIN live' \subseteq 1..next_id'
       /\ {live_count', live_bytes', requested', granted'} \subseteq Nat
       /\ live_count' = Cardinality(DOMAIN live')
       /\ live_bytes' = ObjectSize * live_count'
       /\ granted' >= requested' /\ granted' >= live_bytes'
       /\ result' = "ok"
  BY <1>1, <1>8, <1>10, SlabTake
<1>12. /\ total_bytes' = PageSize * Len(slabs') /\ total_bytes' <= MaxBytes
       /\ total_bytes' + recovered' <= PageSize * growth'
       /\ {growth', recovered'} \subseteq Nat
  <2> DEFINE n == Len(tt)
             a == PageSize * n
             g == PageSize * growth
  <2>1. n \in Nat /\ PageSize \in Nat /\ MaxBytes \in Nat /\ growth \in Nat /\ recovered \in Nat
    BY <1>5, SlabConstants DEF SlabInv
  <2>2. total_bytes = a /\ a + recovered <= g
    BY <1>4 DEF SlabInv
  <2>3. a + PageSize <= MaxBytes
    BY <1>1, <2>2 DEF MayGrow
  <2>4. Len(slabs') = n + 1 /\ PageSize * (n + 1) = a + PageSize
        /\ PageSize * (growth + 1) = g + PageSize /\ a \in Nat /\ g \in Nat
    BY <1>8, <1>11, <2>1
  <2> HIDE DEF n, a, g
  <2>5. PageSize * Len(slabs') = a + PageSize /\ PageSize * growth' = g + PageSize
    BY <1>1, <2>4
  <2>6. QED
    BY <1>1, <2>1, <2>2, <2>3, <2>4, <2>5
<1>13. QED
  BY <1>11, <1>12 DEF SlabInv

LEMMA SlabFree ==
  ASSUME SlabInv, NEW h, Free(h)
  PROVE  SlabInv'
<1>1. PICK ss : ss = slabs
  OBVIOUS
<1>2. PICK i : i = SlabOf(live[h])
  OBVIOUS
<1>3. PICK t : t = [ss EXCEPT ![i].free_list = Append(@, live[h])]
  BY Zenon
<1>4. /\ h \in DOMAIN live /\ i > 0 /\ slabs' = t
      /\ live' = [g \in DOMAIN live \ {h} |-> live[g]]
      /\ live_count' = IF live_count > 0 THEN live_count - 1 ELSE live_count
      /\ live_bytes' = IF live_bytes >= ObjectSize THEN live_bytes - ObjectSize ELSE live_bytes
      /\ result' = "ok"
      /\ UNCHANGED <<total_bytes, growth, recovered, next_id, requested, granted>>
  BY <1>1, <1>2, <1>3 DEF Free
<1>5. /\ SlabShape(ss) /\ Len(ss) \in Nat /\ next_id \in Nat /\ DOMAIN live \subseteq 1..next_id
      /\ IsFiniteSet(DOMAIN live)
  BY <1>1, SlabNumbers DEF SlabInv
<1>6. i \in 1..Len(ss) /\ ss[i].base = PageOf(live[h])
  BY <1>1, <1>2, <1>4, <1>5, SlabPlace
<1>7. DOMAIN live' = DOMAIN live \ {h} /\ \A g \in DOMAIN live' : live'[g] = live[g]
  BY <1>4
<1>8. SlabShape(t)' /\ Len(t) = Len(ss)
  BY Zenon, <1>3, <1>4, <1>5, <1>6, <1>7, SlabShapeFree
<1>9. SlabShape(slabs)' /\ Len(slabs') = Len(slabs)
  BY <1>1, <1>4, <1>8 DEF SlabShape
<1>10. /\ Cardinality(DOMAIN live') = Cardinality(DOMAIN live) - 1
       /\ Cardinality(DOMAIN live) \in Nat /\ Cardinality(DOMAIN live) > 0
  <2>1. /\ Cardinality(DOMAIN live \ {h}) = Cardinality(DOMAIN live) - 1
        /\ IsFiniteSet(DOMAIN live \ {h}) /\ Cardinality(DOMAIN live \ {h}) \in Nat
    BY <1>4, <1>5, FS_RemoveElement, FS_CardinalityType
  <2>2. QED
    BY <1>5, <1>7, <2>1, FS_CardinalityType
<1>11. live_count' = Cardinality(DOMAIN live') /\ live_count \in Nat /\ live_count > 0
       /\ live_count' = live_count - 1
  BY <1>4, <1>10 DEF SlabInv
<1>12. live_bytes' = ObjectSize * live_count' /\ live_bytes' \in Nat /\ live_bytes' <= live_bytes
  <2> DEFINE m == live_count - 1
             p == ObjectSize * m
  <2>1. ObjectSize \in Nat /\ m \in Nat /\ live_count' = m
    BY <1>11, SlabConstants
  <2>2. ObjectSize * live_count = p + ObjectSize /\ p \in Nat
    BY <1>11, <2>1
  <2>3. live_bytes = p + ObjectSize
    BY <2>2 DEF SlabInv
  <2> HIDE DEF m, p
  <2>4. live_bytes' = p
    BY <1>4, <2>1, <2>2, <2>3
  <2>5. QED
    BY <2>1, <2>2, <2>3, <2>4 DEF p
<1>13. DOMAIN live' \subseteq 1..next_id'
  BY <1>4, <1>5, <1>7
<1>14. /\ {live_count', live_bytes', requested', granted'} \subseteq Nat
       /\ granted' >= requested' /\ granted' >= live_bytes'
  BY SMTT(60), <1>4, <1>11, <1>12 DEF SlabInv
<1>15. QED
  BY Zenon, <1>4, <1>9, <1>11, <1>12, <1>13, <1>14 DEF SlabInv

LEMMA SlabTrim ==
  ASSUME SlabInv, Trim
  PROVE  SlabInv'
<1>1. PICK ss : ss = slabs
  OBVIOUS
<1>2. PICK K : K = {i \in DOMAIN ss : ~ Idle(ss[i])}
  BY Zenon
<1> DEFINE freed == PageSize * (Len(ss) - Cardinality(K))
<1>3. /\ \E f \in InOrder(K) : slabs' = [n \in DOMAIN f |-> ss[f[n]]]
      /\ total_bytes' = total_bytes - freed
      /\ recovered' = recovered + freed
      /\ result' = "ok"
      /\ UNCHANGED <<growth, live, next_id, live_count, live_bytes, requested, granted>>
  BY Zenon, <1>1, <1>2 DEF Trim, handles
<1>4. PICK f \in InOrder(K) : slabs' = [n \in DOMAIN f |-> ss[f[n]]]
  BY <1>3
<1>5. PICK t : t = [n \in DOMAIN f |-> ss[f[n]]]
  BY Zenon
<1>6. SlabShape(ss) /\ Len(ss) \in Nat
  BY <1>1, SlabNumbers DEF SlabInv
<1>7. /\ SlabShape(t) /\ Len(t) = Cardinality(K)
      /\ Cardinality(K) \in Nat /\ Cardinality(K) <= Len(ss)
  BY <1>2, <1>5, <1>6, SlabShapeKeep
<1>8. SlabShape(slabs)'
  <2>1. slabs' = t /\ live' = live
    BY <1>3, <1>4, <1>5
  <2>2. \A b : SlabLive(b)' = SlabLive(b)
    BY <2>1 DEF SlabLive
  <2>3. QED
    BY <1>7, <2>1, <2>2 DEF SlabShape
<1>9. Len(slabs') = Cardinality(K)
  BY <1>4, <1>5, <1>7
<1>10. /\ total_bytes' = PageSize * Len(slabs') /\ total_bytes' <= MaxBytes
       /\ total_bytes' + recovered' <= PageSize * growth'
       /\ {growth', recovered'} \subseteq Nat
  <2> DEFINE n == Len(ss)
             c == Cardinality(K)
             a == PageSize * n
             d == PageSize * c
             g == PageSize * growth
             x == freed
  <2>1. /\ n \in Nat /\ c \in Nat /\ c <= n /\ PageSize \in Nat /\ MaxBytes \in Nat
        /\ growth \in Nat /\ recovered \in Nat
    BY <1>6, <1>7, SlabConstants DEF SlabInv
  <2>2. total_bytes = a /\ a + recovered <= g /\ a <= MaxBytes
    BY <1>1 DEF SlabInv
  <2>3. x = a - d /\ x \in Nat /\ a \in Nat /\ d \in Nat /\ g \in Nat
    <3>1. n - c \in Nat /\ x = PageSize * (n - c)
      BY <2>1
    <3> HIDE DEF n, c
    <3>2. PageSize * (n - c) = PageSize * n - PageSize * c /\ PageSize * (n - c) \in Nat
      BY <2>1, <3>1
    <3>3. QED
      BY <2>1, <3>1, <3>2
  <2>4. PageSize * Len(slabs') = d
    BY <1>9
  <2> HIDE DEF n, c, a, d, freed
  <2>5. total_bytes' = a - x /\ recovered' = recovered + x /\ growth' = growth
    BY <1>3, <2>2
  <2> HIDE DEF g
  <2>6. PageSize * growth' = g
    BY <2>5 DEF g
  <2> HIDE DEF x
  <2>7. QED
    BY <2>1, <2>2, <2>3, <2>4, <2>5, <2>6
<1>11. QED
  BY <1>3, <1>8, <1>10 DEF SlabInv

LEMMA SlabNothing ==
  ASSUME slabs = <<>>, live = [x \in {} |-> 0]
  PROVE  SlabShape(slabs) /\ Len(slabs) = 0 /\ DOMAIN live = {} /\ Cardinality(DOMAIN live) = 0
<1>1. DOMAIN live = {} /\ Cardinality(DOMAIN live) = 0
  BY NoHandles
<1>2. slabs \in Seq(SlabRecord) /\ Len(slabs) = 0 /\ 1..Len(slabs) = {}
  OBVIOUS
<1>3. QED
  BY <1>1, <1>2 DEF SlabShape

LEMMA SlabInit ==
  ASSUME Init
  PROVE  SlabInv
<1>1. /\ slabs = <<>> /\ live = [x \in {} |-> 0] /\ next_id = 0
      /\ live_count = 0 /\ live_bytes = 0 /\ total_bytes = 0
      /\ requested = 0 /\ granted = 0 /\ growth = 0 /\ recovered = 0 /\ result = "ok"
  BY DEF Init, Empty
<1>2. SlabShape(slabs) /\ Len(slabs) = 0 /\ DOMAIN live = {} /\ Cardinality(DOMAIN live) = 0
  BY <1>1, SlabNothing
<1>3. PageSize * 0 = 0 /\ ObjectSize * 0 = 0 /\ MaxBytes \in Nat /\ MaxIds \in Nat
  BY SlabConstants
<1>4. QED
  BY <1>1, <1>2, <1>3 DEF SlabInv

LEMMA SlabReleaseAll ==
  ASSUME SlabInv, ReleaseAll
  PROVE  SlabInv'
<1>1. /\ slabs' = <<>> /\ live' = [x \in {} |-> 0]
      /\ live_count' = 0 /\ live_bytes' = 0 /\ total_bytes' = 0 /\ result' = "ok"
      /\ UNCHANGED <<next_id, requested, granted, growth, recovered>>
  BY DEF ReleaseAll, Empty
<1>2. /\ SlabShape(slabs)' /\ Len(slabs') = 0 /\ DOMAIN live' = {}
      /\ Cardinality(DOMAIN live') = 0
  <2>1. DOMAIN live' = {} /\ Cardinality(DOMAIN live') = 0
    BY <1>1, NoHandles
  <2>2. slabs' \in Seq(SlabRecord) /\ Len(slabs') = 0 /\ 1..Len(slabs') = {}
    BY <1>1
  <2>3. QED
    BY <2>1, <2>2 DEF SlabShape
<1>3. PageSize * 0 = 0 /\ ObjectSize * 0 = 0 /\ MaxBytes \in Nat /\ MaxIds \in Nat
  BY SlabConstants
<1>4. /\ total_bytes' = PageSize * Len(slabs') /\ total_bytes' <= MaxBytes
      /\ live_bytes' = ObjectSize * live_count'
  BY <1>1, <1>2, <1>3
<1>5. total_bytes' + recovered' <= PageSize * growth'
  <2> DEFINE g == PageSize * growth
  <2>1. total_bytes \in Nat /\ total_bytes + recovered <= g /\ recovered \in Nat /\ g \in Nat
    BY SMTT(60), SlabConstants, SlabNumbers DEF SlabInv
  <2>2. PageSize * growth' = g
    BY <1>1
  <2> HIDE DEF g
  <2>3. QED
    BY <1>1, <2>1, <2>2
<1>6. QED
  BY <1>1, <1>2, <1>4, <1>5 DEF SlabInv

LEMMA SlabUnchanged ==
  ASSUME SlabInv,
         result' \in {"ok", "size_too_large", "alignment_unsupported", "capacity_exceeded",
                      "invalid_handle"},
         UNCHANGED <<slabs, total_bytes, growth, recovered, live, next_id, live_count,
                     live_bytes, requested, granted>>
  PROVE  SlabInv'
<1>1. \A b : SlabLive(b)' = SlabLive(b)
  BY DEF SlabLive
<1>2. SlabShape(slabs)'
  BY <1>1 DEF SlabInv, SlabShape
<1>3. QED
  BY <1>2 DEF SlabInv

LEMMA SlabStutter ==
  ASSUME SlabInv, UNCHANGED vars
  PROVE  SlabInv'
<1>1. /\ result' = result
      /\ UNCHANGED <<slabs, total_bytes, growth, recovered, live, next_id, live_count,
                     live_bytes, requested, granted>>
  BY DEF vars, handles
<1>2. result \in {"ok", "size_too_large", "alignment_unsupported", "capacity_exceeded",
                  "invalid_handle"}
  BY DEF SlabInv
<1>3. QED
  BY <1>1, <1>2, SlabUnchanged

LEMMA SlabNext ==
  ASSUME SlabInv, Next
  PROVE  SlabInv'
<1>1. ASSUME NEW code \in {"ok", "size_too_large", "alignment_unsupported",
                           "capacity_exceeded", "invalid_handle"},
             result' = code, UNCHANGED <<slabs, total_bytes, growth, recovered, handles>>
      PROVE  SlabInv'
  BY <1>1, SlabUnchanged DEF handles
<1>2. ASSUME NEW req, AllocateRejected(req)
      PROVE  SlabInv'
  BY <1>1, <1>2 DEF AllocateRejected, Admission
<1>3. ASSUME NEW req, AllocateExhausted(req)
      PROVE  SlabInv'
  BY <1>1, <1>3 DEF AllocateExhausted
<1>4. ASSUME NEW h, FreeUnknown(h)
      PROVE  SlabInv'
  BY <1>1, <1>4 DEF FreeUnknown
<1>5. ASSUME NEW req \in Request, \/ AllocateRejected(req) \/ Allocate(req)
                                  \/ AllocateGrow(req) \/ AllocateExhausted(req)
      PROVE  SlabInv'
  BY <1>2, <1>3, <1>5, SlabAllocate, SlabGrow
<1>6. ASSUME NEW h, FreeUnknown(h) \/ Free(h)
      PROVE  SlabInv'
  BY <1>4, <1>6, SlabFree
<1>7. CASE Trim \/ ReleaseAll
  BY <1>7, SlabTrim, SlabReleaseAll
<1>8. QED
  BY <1>5, <1>6, <1>7 DEF Next

(* The slot of a handle is in one slab, and no other handle's.             *)
LEMMA SlabHome ==
  ASSUME SlabInv, NEW h \in DOMAIN live
  PROVE  \E i \in 1..Len(slabs) :
           /\ slabs[i].base \in PageBases /\ live[h] \in SlotsOf(slabs[i].base)
           /\ live[h] \in Nat
           /\ Stacked(SlotsOf(slabs[i].base), slabs[i].free_list, SlabLive(slabs[i].base))
           /\ h \in DOMAIN SlabLive(slabs[i].base)
           /\ SlabLive(slabs[i].base)[h] = live[h]
<1>1. PICK i \in 1..Len(slabs) : live[h] \in SlotsOf(slabs[i].base)
  BY DEF SlabInv, SlabShape
<1>2. slabs[i].base \in PageBases
  <2>1. slabs[i] \in SlabRecord
    BY DEF SlabInv, SlabShape
  <2>2. QED
    BY <2>1 DEF SlabRecord
<1>3. PageOf(live[h]) = slabs[i].base /\ live[h] \in Nat
  BY <1>1, <1>2, SlabSlot
<1>4. h \in DOMAIN SlabLive(slabs[i].base) /\ SlabLive(slabs[i].base)[h] = live[h]
  BY <1>3 DEF SlabLive
<1>5. Stacked(SlotsOf(slabs[i].base), slabs[i].free_list, SlabLive(slabs[i].base))
  BY DEF SlabInv, SlabShape
<1>6. QED
  BY <1>1, <1>2, <1>3, <1>4, <1>5

LEMMA SlabDistinct ==
  ASSUME SlabInv, NEW g \in DOMAIN live, NEW h \in DOMAIN live, live[g] = live[h]
  PROVE  g = h
<1>1. PICK i \in 1..Len(slabs) :
        /\ slabs[i].base \in PageBases /\ live[g] \in SlotsOf(slabs[i].base)
        /\ Stacked(SlotsOf(slabs[i].base), slabs[i].free_list, SlabLive(slabs[i].base))
        /\ g \in DOMAIN SlabLive(slabs[i].base)
        /\ SlabLive(slabs[i].base)[g] = live[g]
  BY SlabHome
<1>2. PageOf(live[h]) = slabs[i].base
  BY <1>1, SlabSlot
<1>3. h \in DOMAIN SlabLive(slabs[i].base) /\ SlabLive(slabs[i].base)[h] = live[h]
  BY <1>2 DEF SlabLive
<1>4. QED
  BY <1>1, <1>3 DEF Stacked

LEMMA SlabHeld ==
  ASSUME SlabInv
  PROVE  Held(extents, next_id)
<1>1. next_id \in Nat /\ DOMAIN live \subseteq 1..next_id
  BY SlabNumbers
<1>2. /\ DOMAIN extents = DOMAIN live
      /\ \A h \in DOMAIN live : extents[h] = [addr |-> live[h], size |-> ObjectSize]
  BY DEF extents
<1>3. ASSUME NEW g \in DOMAIN live, NEW h \in DOMAIN live, g # h
      PROVE  Contract!Apart(extents[g], extents[h])
  <2>1. PICK i \in 1..Len(slabs) :
          slabs[i].base \in PageBases /\ live[g] \in SlotsOf(slabs[i].base)
    BY SlabHome
  <2>2. PICK j \in 1..Len(slabs) :
          slabs[j].base \in PageBases /\ live[h] \in SlotsOf(slabs[j].base)
    BY SlabHome
  <2>3. live[g] # live[h]
    BY <1>3, SlabDistinct
  <2>4. live[g] + ObjectSize <= live[h] \/ live[h] + ObjectSize <= live[g]
    BY <2>1, <2>2, <2>3, SlabApart
  <2>5. QED
    BY <1>2, <2>4, ApartAt
<1>4. \A h \in DOMAIN live : extents[h] \in Contract!Extent
  <2>1. \A h \in DOMAIN live : live[h] \in Nat
    BY SlabHome
  <2>2. ObjectSize \in Nat \ {0}
    BY SlabConstants
  <2>3. QED
    BY <1>2, <2>1, <2>2, ExtentAt
<1>5. QED
  BY <1>1, <1>2, <1>3, <1>4 DEF Held

LEMMA SlabSteps ==
  ASSUME SlabInv, Next
  PROVE  /\ Steps(extents, extents', next_id, next_id')
         /\ next_id' = next_id \/ next_id' \in 1..MaxIds
<1> DEFINE e == extents
           f == extents'
           x(s) == [addr |-> s, size |-> ObjectSize]
<1>1. /\ DOMAIN e = DOMAIN live /\ \A h \in DOMAIN live : e[h] = x(live[h])
      /\ DOMAIN f = DOMAIN live' /\ \A h \in DOMAIN live' : f[h] = x(live'[h])
      /\ f = [h \in DOMAIN f |-> f[h]]
  BY DEF extents
<1>2. next_id \in Nat /\ MaxIds \in Nat /\ DOMAIN live \subseteq 1..next_id
  BY SlabNumbers, SlabConstants
<1>3. ASSUME UNCHANGED handles
      PROVE  f = e /\ next_id' = next_id
  BY <1>3 DEF handles, extents
<1>4. ASSUME NEW ss, NEW i, NEW req, Take(ss, i, req), next_id < MaxIds
      PROVE  Adds(e, f, next_id, next_id') /\ next_id' \in 1..MaxIds
  <2>1. /\ next_id' = next_id + 1 /\ DOMAIN live' = DOMAIN live \cup {next_id'}
        /\ \A h \in DOMAIN live : h # next_id' => live'[h] = live[h]
    BY <1>4 DEF Take
  <2>2. next_id' \notin DOMAIN live /\ next_id' \in 1..MaxIds
    BY <1>2, <1>4, <2>1
  <2>3. \A h \in DOMAIN live : live'[h] = live[h]
    BY <2>1, <2>2
  <2> HIDE DEF e, f, x
  <2>4. QED
    BY <1>1, <2>1, <2>2, <2>3 DEF Adds
<1>5. ASSUME NEW h, Free(h)
      PROVE  Drops(e, f, h) /\ h \in DOMAIN e /\ next_id' = next_id
  <2>1. /\ next_id' = next_id /\ h \in DOMAIN live /\ DOMAIN live' = DOMAIN live \ {h}
        /\ \A g \in DOMAIN live' : live'[g] = live[g]
    BY <1>5 DEF Free
  <2> HIDE DEF e, f, x
  <2>2. QED
    BY <1>1, <2>1 DEF Drops
<1>6. ASSUME ReleaseAll
      PROVE  Clears(f) /\ next_id' = next_id
  BY <1>1, <1>6 DEF ReleaseAll, Empty, Clears
<1> HIDE DEF e, f, x
<1>7. ASSUME NEW req, \/ AllocateRejected(req) \/ Allocate(req)
                      \/ AllocateGrow(req) \/ AllocateExhausted(req)
      PROVE  Steps(e, f, next_id, next_id') /\ (next_id' = next_id \/ next_id' \in 1..MaxIds)
  BY Zenon, <1>3, <1>4, <1>7 DEF AllocateRejected, Allocate, AllocateGrow, AllocateExhausted, Steps
<1>8. ASSUME NEW h, FreeUnknown(h) \/ Free(h)
      PROVE  Steps(e, f, next_id, next_id') /\ next_id' = next_id
  BY <1>3, <1>5, <1>8 DEF FreeUnknown, Steps
<1>9. CASE Trim \/ ReleaseAll
  BY <1>3, <1>6, <1>9 DEF Trim, Steps, e, f
<1>10. QED
  BY <1>7, <1>8, <1>9 DEF Next, e, f

(* What the runs check of the slab.                                        *)
LEMMA SlabSound ==
  ASSUME SlabInv
  PROVE  TypeOK /\ SlotsConserved /\ Accounting
<1> DEFINE n == Len(slabs)
<1>1. /\ slabs \in Seq(SlabRecord) /\ n \in Nat /\ ToSet(slabs) = {slabs[i] : i \in 1..n}
      /\ \A i, j \in 1..n : slabs[i].base = slabs[j].base => i = j
      /\ \A i \in 1..n :
           Stacked(SlotsOf(slabs[i].base), slabs[i].free_list, SlabLive(slabs[i].base))
  BY DEF SlabInv, SlabShape, ToSet
<1>2. \A i \in 1..n : slabs[i].base \in PageBases
  <2>1. \A i \in 1..n : slabs[i] \in SlabRecord
    BY <1>1
  <2>2. QED
    BY <2>1 DEF SlabRecord
<1>3. /\ next_id \in Nat /\ IsFiniteSet(DOMAIN live) /\ total_bytes \in Nat /\ MaxBytes \in Nat
  BY SlabNumbers, SlabConstants
<1>4. \A h \in DOMAIN live : \E i \in 1..n : live[h] \in SlotsOf(slabs[i].base)
  BY DEF SlabInv, SlabShape
<1> HIDE DEF n
<1>5. ASSUME NEW i \in 1..n
      PROVE  /\ slabs[i].free_list \in Seq(SlotsOf(slabs[i].base))
             /\ IsInjective(slabs[i].free_list)
             /\ ToSet(slabs[i].free_list) = SlotsOf(slabs[i].base) \ LiveSlots
  <2> DEFINE b == slabs[i].base
             S == SlotsOf(b)
             q == slabs[i].free_list
             f == SlabLive(b)
  <2>1. /\ q \in Seq(S) /\ IsInjective(q) /\ ToSet(q) \cup Range(f) = S
        /\ ToSet(q) \cap Range(f) = {}
    BY Zenon, <1>1 DEF Stacked
  <2>2. Range(f) \subseteq LiveSlots
    BY DEF Range, SlabLive, LiveSlots
  <2>3. ASSUME NEW h \in DOMAIN live, live[h] \in S
        PROVE  live[h] \in Range(f)
    <3>1. PageOf(live[h]) = b
      BY <1>2, <2>3, SlabSlot
    <3>2. h \in DOMAIN f /\ f[h] = live[h]
      BY <3>1 DEF SlabLive
    <3>3. QED
      BY <3>2 DEF Range
  <2> HIDE DEF b, S, q, f
  <2>4. ToSet(q) = S \ LiveSlots
    BY <2>1, <2>2, <2>3 DEF LiveSlots
  <2>5. QED
    BY <2>1, <2>4 DEF b, S, q
<1>6. TypeOK
  <2>1. \A s \in ToSet(slabs) : s.base \in PageBases /\ s.free_list \in Seq(SlotsOf(s.base))
    BY <1>1, <1>2, <1>5
  <2>2. \A h \in DOMAIN live : live[h] \in UNION {SlotsOf(b) : b \in PageBases}
    BY <1>2, <1>4
  <2>3. QED
    BY <1>3, <2>1, <2>2 DEF TypeOK, SlabInv
<1>7. SlotsConserved
  <2>1. \A s \in ToSet(slabs) : /\ IsInjective(s.free_list)
                                /\ ToSet(s.free_list) = SlotsOf(s.base) \ LiveSlots
    BY Zenon, <1>1, <1>5
  <2>2. LiveSlots \subseteq UNION {SlotsOf(s.base) : s \in ToSet(slabs)}
    BY <1>1, <1>4 DEF LiveSlots
  <2>3. Cardinality(LiveSlots) = Cardinality(DOMAIN live)
    <3>1. \A g, h \in DOMAIN live : live[g] = live[h] => g = h
      BY SlabDistinct
    <3>2. Cardinality(Range(live)) = Cardinality(DOMAIN live)
      BY <1>3, <3>1, RangeSize
    <3>3. QED
      BY <3>2 DEF Range, LiveSlots
  <2>4. Cardinality({s.base : s \in ToSet(slabs)}) = n
    <3> DEFINE p == [i \in 1..n |-> slabs[i].base]
    <3>1. DOMAIN p = 1..n /\ IsFiniteSet(1..n) /\ Cardinality(1..n) = n
      BY <1>1, FS_Interval
    <3>2. \A i, j \in DOMAIN p : p[i] = p[j] => i = j
      BY <1>1
    <3>3. Range(p) = {s.base : s \in ToSet(slabs)}
      BY <1>1 DEF Range
    <3> HIDE DEF p
    <3>4. Cardinality(Range(p)) = n
      BY Zenon, <3>1, <3>2, RangeSize
    <3>5. QED
      BY <3>3, <3>4
  <2>5. QED
    BY <2>1, <2>2, <2>3, <2>4 DEF SlotsConserved, n
<1>8. Accounting
  BY DEF Accounting, SlabInv
<1>9. QED
  BY <1>6, <1>7, <1>8
=============================================================================
