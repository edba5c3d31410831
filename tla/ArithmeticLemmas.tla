-------------------------- MODULE ArithmeticLemmas --------------------------
(***************************************************************************)
(* Division with remainder, minima of sets of naturals, sums over finite   *)
(* sets, and lists without repetition: the facts about block offsets,      *)
(* orders, byte counts and free lists that the proofs share.               *)
(***************************************************************************)
EXTENDS Integers, FiniteSets, FiniteSetsExt, SequencesExt, FiniteSetTheorems, WellFoundedInduction, TLAPS

(* A non-empty set of naturals has a least element: the form in which the  *)
(* proofs do induction over the orders a loop passes.                      *)
LEMMA NatMin ==
  ASSUME NEW T \in SUBSET Nat, T # {}
  PROVE  \E m \in T : \A y \in T : m <= y
<1> DEFINE R == OpToRel(<, Nat)
<1>1. IsWellFoundedOn(R, Nat)
  BY NatLessThanWellFounded
<1>2. \A x, y \in Nat : x < y => <<x, y>> \in R
  BY DEF OpToRel
<1> HIDE DEF R
<1>3. PICK m \in T : \A y \in T : ~ (<<y, m>> \in R)
  BY <1>1, WFMin
<1>4. ASSUME NEW y \in T
      PROVE  m <= y
  <2>1. m \in Nat /\ y \in Nat
    OBVIOUS
  <2>2. ~ (y < m)
    BY <1>2, <1>3, <2>1
  <2>3. QED
    BY <2>1, <2>2
<1>5. QED
  BY <1>4

(* Quotient and remainder of a natural by a positive natural.              *)
LEMMA DivMod ==
  ASSUME NEW a \in Nat, NEW s \in Nat, s > 0
  PROVE  /\ a % s \in Nat
         /\ a % s < s
         /\ a \div s \in Nat
         /\ a = s * (a \div s) + (a % s)
  OBVIOUS

(* Quotient and remainder are unique.                                      *)
LEMMA DivModUnique ==
  ASSUME NEW s \in Nat, s > 0,
         NEW q \in Nat, NEW r \in Nat, r < s
  PROVE  (s * q + r) % s = r
<1> DEFINE a == s * q + r
<1>1. a \in Nat
  OBVIOUS
<1>2. /\ a % s \in Nat /\ a % s < s
      /\ a \div s \in Nat
      /\ a = s * (a \div s) + (a % s)
  BY <1>1, DivMod
<1>3. \A p, t \in Nat : t < s /\ s * q + r = s * p + t => t = r
  OBVIOUS
<1>4. s * q + r = s * (a \div s) + (a % s)
  BY <1>2
<1> HIDE DEF a
<1>5. a % s = r
  BY <1>2, <1>3, <1>4
<1>6. QED
  BY <1>5 DEF a

(* The remainder by 2s is the remainder by s, or that plus s.              *)
LEMMA HalfMod ==
  ASSUME NEW a \in Nat, NEW s \in Nat, s > 0
  PROVE  a % (2 * s) = a % s \/ a % (2 * s) = (a % s) + s
<1> DEFINE Q == a \div (2 * s)
           R == a % (2 * s)
<1>1. 2 * s \in Nat /\ 2 * s > 0
  OBVIOUS
<1>2. Q \in Nat /\ R \in Nat /\ R < 2 * s /\ a = (2 * s) * Q + R
  BY <1>1, DivMod
<1> HIDE DEF Q, R
<1>3. CASE R < s
  <2>1. a = s * (2 * Q) + R /\ 2 * Q \in Nat
    BY <1>2
  <2>2. a % s = R
    BY <2>1, <1>2, <1>3, DivModUnique
  <2>3. QED
    BY <2>2 DEF R
<1>4. CASE R >= s
  <2>1. a = s * (2 * Q + 1) + (R - s) /\ 2 * Q + 1 \in Nat
    BY <1>2
  <2>2. R - s \in Nat /\ R - s < s
    BY <1>2, <1>4
  <2>3. (s * (2 * Q + 1) + (R - s)) % s = R - s
    BY <2>1, <2>2, DivModUnique
  <2>4. a % s = R - s
    BY <2>1, <2>3
  <2>5. QED
    BY <2>4, <1>2 DEF R
<1>5. QED
  BY <1>2, <1>3, <1>4

(* Moving by one whole s keeps a multiple of s one.                        *)
LEMMA MultipleStep ==
  ASSUME NEW a \in Nat, NEW s \in Nat, s > 0, a % s = 0
  PROVE  /\ (a + s) % s = 0
         /\ a >= s => (a - s) % s = 0
         /\ a > 0 => a >= s
<1> DEFINE q == a \div s
<1>1. q \in Nat /\ a = s * q
  BY DivMod
<1> HIDE DEF q
<1>2. a + s = s * (q + 1) + 0 /\ q + 1 \in Nat
  BY <1>1
<1>3. (a + s) % s = 0
  <2>1. (s * (q + 1) + 0) % s = 0
    BY SMTT(60), <1>2, DivModUnique
  <2>2. QED
    BY <1>2, <2>1
<1>4. CASE q = 0
  <2>1. a = 0
    BY <1>1, <1>4
  <2>2. QED
    BY <2>1, <1>3
<1>5. CASE q > 0
  <2>1. q - 1 \in Nat /\ a - s = s * (q - 1) + 0
    BY <1>1, <1>5
  <2>2. (s * (q - 1) + 0) % s = 0
    BY <2>1, DivModUnique
  <2>3. (a - s) % s = 0
    BY <2>1, <2>2
  <2>4. s * (q - 1) >= 0
    BY <2>1
  <2>5. QED
    BY <2>1, <2>3, <2>4, <1>3
<1>6. QED
  BY <1>1, <1>4, <1>5

(* Removing the remainder leaves a multiple at most s - 1 below.           *)
LEMMA FloorMultiple ==
  ASSUME NEW a \in Nat, NEW s \in Nat, s > 0
  PROVE  /\ a - (a % s) \in Nat
         /\ (a - (a % s)) % s = 0
         /\ a - (a % s) <= a
         /\ a < a - (a % s) + s
<1> DEFINE q == a \div s
<1>1. q \in Nat /\ a % s \in Nat /\ a % s < s /\ a = s * q + (a % s)
  BY DivMod
<1> HIDE DEF q
<1>2. a - (a % s) = s * q + 0 /\ s * q \in Nat
  BY <1>1
<1>3. (s * q + 0) % s = 0
  BY <1>1, DivModUnique
<1>4. QED
  BY <1>1, <1>2, <1>3

LEMMA Multiple ==
  ASSUME NEW a \in Nat, NEW s \in Nat, s > 0, a % s = 0
  PROVE  \E q \in Nat : a = s * q
<1>1. a \div s \in Nat /\ a = s * (a \div s) + (a % s)
  BY DivMod
<1>2. s * (a \div s) \in Nat
  BY <1>1
<1>3. a = s * (a \div s)
  BY <1>1, <1>2
<1>4. QED
  BY <1>1, <1>3

(* Two multiples of s are equal or at least s apart.                       *)
LEMMA MultiplesApart ==
  ASSUME NEW a \in Nat, NEW b \in Nat, NEW s \in Nat, s > 0,
         a % s = 0, b % s = 0, a < b
  PROVE  a + s <= b
<1>1. PICK i \in Nat : a = s * i
  BY Multiple
<1>2. PICK j \in Nat : b = s * j
  BY Multiple
<1>3. i < j
  <2>1. j <= i => s * j <= s * i
    OBVIOUS
  <2>2. QED
    BY <1>1, <1>2, <2>1
<1>4. s * (i + 1) <= s * j
  BY <1>3
<1>5. QED
  BY <1>1, <1>2, <1>4

(* The two halves of a multiple of 2s: where one starts, and the other.    *)
LEMMA Halves ==
  ASSUME NEW a \in Nat, NEW s \in Nat, s > 0, a % s = 0
  PROVE  \/ /\ a % (2 * s) = 0
            /\ a + s \in Nat /\ (a + s) % s = 0 /\ (a + s) % (2 * s) = s
         \/ /\ a % (2 * s) = s /\ a >= s
            /\ a - s \in Nat /\ (a - s) % s = 0 /\ (a - s) % (2 * s) = 0
<1> DEFINE t == 2 * s
<1>1. t \in Nat /\ t > 0 /\ s < t
  OBVIOUS
<1>2. a % t = 0 \/ a % t = s
  <2>1. a % (2 * s) = a % s \/ a % (2 * s) = (a % s) + s
    BY HalfMod
  <2> HIDE DEF t
  <2>2. a % t = a % s \/ a % t = (a % s) + s
    BY <2>1 DEF t
  <2>3. QED
    BY <2>2
<1>3. a \div t \in Nat /\ a = t * (a \div t) + (a % t)
  BY <1>1, DivMod
<1>4. /\ a + s \in Nat /\ (a + s) % s = 0
      /\ a >= s => (a - s) % s = 0
  <2>1. /\ (a + s) % s = 0
        /\ a >= s => (a - s) % s = 0
    BY MultipleStep
  <2>2. a + s \in Nat
    OBVIOUS
  <2> HIDE DEF t
  <2>3. QED
    BY <2>1, <2>2
<1> HIDE DEF t
<1>5. CASE a % t = 0
  <2>1. a + s = t * (a \div t) + s
    <3>1. t * (a \div t) \in Nat
      BY <1>1, <1>3
    <3>2. a = t * (a \div t)
      BY <1>3, <1>5, <3>1
    <3>3. QED
      BY <3>2
  <2>2. (t * (a \div t) + s) % t = s
    BY <1>1, <1>3, DivModUnique
  <2>3. QED
    BY <1>4, <1>5, <2>1, <2>2 DEF t
<1>6. CASE a % t = s
  <2>1. t * (a \div t) \in Nat
    BY <1>1, <1>3
  <2>2. a >= s /\ a - s = t * (a \div t) + 0 /\ a - s \in Nat
    BY <1>3, <1>6, <2>1
  <2>3. (t * (a \div t) + 0) % t = 0
    BY <1>1, <1>3, DivModUnique
  <2>4. QED
    BY <1>4, <1>6, <2>2, <2>3 DEF t
<1>7. QED
  BY <1>2, <1>5, <1>6

-----------------------------------------------------------------------------
(* Sums.  MapThenSumSet folds with a recursive function over the subsets   *)
(* of the set, which the prover sees as the CHOOSE of a function that      *)
(* satisfies the recursion: SumsExist says there is one, SumsAgree that    *)
(* there is one only.                                                      *)

(* Some element of a non-empty set, as the folds pick it.                  *)
Pick(s) == CHOOSE x \in s : TRUE

(* g gives the sum of f over every subset of S, in the order of Pick.      *)
SumsOver(g, f, S) ==
  g = [s \in SUBSET S |-> IF s = {} THEN 0 ELSE f[Pick(s)] + g[s \ {Pick(s)}]]

SumOf(f, S) == MapThenSumSet(LAMBDA x : f[x], S)

(* A non-empty collection of subsets of a finite set has a minimal one:    *)
(* the form in which the proofs do induction over finite sets.             *)
LEMMA MinimalSubset ==
  ASSUME NEW S, IsFiniteSet(S), NEW B \in SUBSET SUBSET S, B # {}
  PROVE  \E M \in B : \A T \in B : T \subseteq M => T = M
<1> DEFINE R == StrictSubsetOrdering(S)
<1>1. IsWellFoundedOn(R, SUBSET S)
  BY FS_StrictSubsetOrderingWellFounded, FS_FiniteSubsetsOfFinite
<1>2. \A T, M \in SUBSET S : T \subseteq M /\ T # M => <<T, M>> \in R
  BY DEF StrictSubsetOrdering
<1> HIDE DEF R
<1>3. PICK M \in B : \A T \in B : ~ (<<T, M>> \in R)
  BY <1>1, WFMin
<1>4. QED
  BY <1>2, <1>3

LEMMA PickIn ==
  ASSUME NEW s, s # {}
  PROVE  Pick(s) \in s
BY DEF Pick

LEMMA SumsAgree ==
  ASSUME NEW f, NEW S, IsFiniteSet(S), NEW T \in SUBSET S,
         NEW g, SumsOver(g, f, S), NEW h, SumsOver(h, f, T)
  PROVE  \A s \in SUBSET T : g[s] = h[s]
<1> DEFINE B == {s \in SUBSET T : g[s] # h[s]}
<1>1. SUFFICES ASSUME B # {} PROVE FALSE
  OBVIOUS
<1>2. IsFiniteSet(T)
  BY FS_Subset
<1>3. PICK M \in B : \A s \in B : s \subseteq M => s = M
  <2>1. B \in SUBSET SUBSET T
    OBVIOUS
  <2> HIDE DEF B
  <2>2. QED
    BY <2>1, <1>1, <1>2, MinimalSubset
<1>4. \A s \in SUBSET T : h[s] = IF s = {} THEN 0 ELSE f[Pick(s)] + h[s \ {Pick(s)}]
  BY DEF SumsOver
<1>5. \A s \in SUBSET T : g[s] = IF s = {} THEN 0 ELSE f[Pick(s)] + g[s \ {Pick(s)}]
  <2>1. \A s \in SUBSET S : g[s] = IF s = {} THEN 0 ELSE f[Pick(s)] + g[s \ {Pick(s)}]
    BY DEF SumsOver
  <2>2. QED
    BY <2>1
<1>6. M # {}
  BY <1>3, <1>4, <1>5
<1>7. M \ {Pick(M)} \in SUBSET T /\ M \ {Pick(M)} # M
  BY <1>6, PickIn
<1>8. g[M \ {Pick(M)}] = h[M \ {Pick(M)}]
  BY <1>3, <1>7
<1>9. g[M] = h[M]
  BY <1>4, <1>5, <1>6, <1>8
<1>10. QED
  BY <1>9

LEMMA SumsExist ==
  ASSUME NEW f, NEW S, IsFiniteSet(S)
  PROVE  \E g : SumsOver(g, f, S)
<1> DEFINE B == {T \in SUBSET S : ~ \E g : SumsOver(g, f, T)}
<1>1. SUFFICES ASSUME B # {} PROVE FALSE
  OBVIOUS
<1>2. PICK M \in B : \A T \in B : T \subseteq M => T = M
  <2>1. B \in SUBSET SUBSET S
    OBVIOUS
  <2> HIDE DEF B
  <2>2. QED
    BY <2>1, <1>1, MinimalSubset
<1> DEFINE G(T) == CHOOSE g : SumsOver(g, f, T)
           rest(s) == s \ {Pick(s)}
           h == [s \in SUBSET M |-> IF s = {} THEN 0 ELSE f[Pick(s)] + G(rest(s))[rest(s)]]
<1>3. \A T \in SUBSET M : T # M => SumsOver(G(T), f, T)
  <2> TAKE T \in SUBSET M
  <2> HAVE T # M
  <2>1. \E g : SumsOver(g, f, T)
    BY <1>2
  <2>2. QED
    BY <2>1
<1>4. \A s \in SUBSET M : s # {} => rest(s) \in SUBSET M /\ rest(s) # M
  BY PickIn
<1>5. \A t \in SUBSET M : t # M => h[t] = G(t)[t]
  <2> TAKE t \in SUBSET M
  <2> HAVE t # M
  <2>1. SumsOver(G(t), f, t)
    BY <1>3
  <2>2. G(t)[t] = IF t = {} THEN 0 ELSE f[Pick(t)] + G(t)[rest(t)]
    <3> HIDE DEF G
    <3>1. QED
      BY <2>1 DEF SumsOver
  <2>3. CASE t = {}
    BY <2>2, <2>3
  <2>4. CASE t # {}
    <3>1. SumsOver(G(rest(t)), f, rest(t))
      BY <1>3, <1>4, <2>4
    <3>2. rest(t) \in SUBSET t /\ IsFiniteSet(t)
      BY <1>2, FS_Subset
    <3>3. G(t)[rest(t)] = G(rest(t))[rest(t)]
      <4> HIDE DEF G, rest
      <4>1. \A s \in SUBSET rest(t) : G(t)[s] = G(rest(t))[s]
        BY <2>1, <3>1, <3>2, SumsAgree
      <4>2. QED
        BY <4>1
    <3>4. QED
      BY <2>2, <2>4, <3>3
  <2>5. QED
    BY <2>3, <2>4
<1>6. \A s \in SUBSET M : s # {} => h[rest(s)] = G(rest(s))[rest(s)]
  <2> HIDE DEF h, G, rest
  <2>1. QED
    BY <1>4, <1>5
<1>7. h = [s \in SUBSET M |-> IF s = {} THEN 0 ELSE f[Pick(s)] + h[rest(s)]]
  <2>1. \A s \in SUBSET M : (IF s = {} THEN 0 ELSE f[Pick(s)] + G(rest(s))[rest(s)])
                            = (IF s = {} THEN 0 ELSE f[Pick(s)] + h[rest(s)])
    <3> HIDE DEF h, G, rest
    <3>1. QED
      BY <1>6
  <2>2. [s \in SUBSET M |-> IF s = {} THEN 0 ELSE f[Pick(s)] + G(rest(s))[rest(s)]]
        = [s \in SUBSET M |-> IF s = {} THEN 0 ELSE f[Pick(s)] + h[rest(s)]]
    <3> HIDE DEF h, G, rest
    <3>1. QED
      BY <2>1
  <2>3. QED
    BY <2>2
<1>8. SumsOver(h, f, M)
  <2> HIDE DEF h
  <2>1. QED
    BY <1>7 DEF SumsOver
<1>9. QED
  BY <1>2, <1>8

(* Every finite sum is its picked term and the sum of the rest.            *)
LEMMA SumUnfold ==
  ASSUME NEW f, NEW S, IsFiniteSet(S)
  PROVE  SumOf(f, S) = IF S = {} THEN 0 ELSE f[Pick(S)] + SumOf(f, S \ {Pick(S)})
<1> DEFINE G(T) == CHOOSE g : SumsOver(g, f, T)
           T == S \ {Pick(S)}
<1>1. SumsOver(G(S), f, S)
  BY SumsExist
<1>2. IsFiniteSet(T) /\ T \in SUBSET S
  BY FS_Subset
<1>3. SumsOver(G(T), f, T)
  <2> HIDE DEF T
  <2>1. QED
    BY <1>2, SumsExist
<1>4. SumOf(f, S) = G(S)[S] /\ SumOf(f, T) = G(T)[T]
  BY DEF SumOf, MapThenSumSet, MapThenFoldSet, SumsOver, Pick
<1> HIDE DEF G
<1>5. G(S)[S] = IF S = {} THEN 0 ELSE f[Pick(S)] + G(S)[T]
  BY <1>1 DEF SumsOver
<1> HIDE DEF T
<1>6. G(S)[T] = G(T)[T]
  <2> DEFINE g == G(S)
             h == G(T)
  <2>1. SumsOver(g, f, S) /\ SumsOver(h, f, T) /\ T \in SUBSET S
    BY <1>1, <1>2, <1>3
  <2> HIDE DEF g, h
  <2>2. \A s \in SUBSET T : g[s] = h[s]
    BY <2>1, SumsAgree
  <2>3. QED
    BY <2>2 DEF g, h
<1>7. QED
  BY <1>4, <1>5, <1>6 DEF T

LEMMA SumEmpty ==
  ASSUME NEW f
  PROVE  SumOf(f, {}) = 0
BY SumUnfold, FS_EmptySet

(* Sums depend only on the terms.                                          *)
LEMMA SumSame ==
  ASSUME NEW S, IsFiniteSet(S), NEW f, NEW g, \A x \in S : f[x] = g[x]
  PROVE  SumOf(f, S) = SumOf(g, S)
<1> DEFINE B == {T \in SUBSET S : SumOf(f, T) # SumOf(g, T)}
<1>1. SUFFICES ASSUME B # {} PROVE FALSE
  OBVIOUS
<1>2. PICK M \in B : \A T \in B : T \subseteq M => T = M
  <2>1. B \in SUBSET SUBSET S
    OBVIOUS
  <2> HIDE DEF B
  <2>2. QED
    BY <2>1, <1>1, MinimalSubset
<1> DEFINE R == M \ {Pick(M)}
<1>3. IsFiniteSet(M) /\ M \in SUBSET S
  BY <1>2, FS_Subset
<1>4. M # {}
  BY <1>2, SumEmpty, Zenon
<1>5. Pick(M) \in M /\ R \in SUBSET S /\ R # M /\ R \subseteq M
  BY <1>3, <1>4, PickIn
<1>6. SumOf(f, R) = SumOf(g, R)
  BY <1>2, <1>5
<1>7. SumOf(f, M) = f[Pick(M)] + SumOf(f, R) /\ SumOf(g, M) = g[Pick(M)] + SumOf(g, R)
  BY <1>3, <1>4, SumUnfold
<1>8. f[Pick(M)] = g[Pick(M)]
  BY <1>3, <1>5
<1>9. QED
  BY <1>2, <1>6, <1>7, <1>8

LEMMA SumNat ==
  ASSUME NEW S, IsFiniteSet(S), NEW f, \A x \in S : f[x] \in Nat
  PROVE  SumOf(f, S) \in Nat
<1> DEFINE B == {T \in SUBSET S : SumOf(f, T) \notin Nat}
<1>1. SUFFICES ASSUME B # {} PROVE FALSE
  OBVIOUS
<1>2. PICK M \in B : \A T \in B : T \subseteq M => T = M
  <2>1. B \in SUBSET SUBSET S
    OBVIOUS
  <2> HIDE DEF B
  <2>2. QED
    BY <2>1, <1>1, MinimalSubset
<1> DEFINE R == M \ {Pick(M)}
<1>3. IsFiniteSet(M) /\ M \in SUBSET S
  BY <1>2, FS_Subset
<1>4. M # {}
  <2>1. SumOf(f, {}) \in Nat
    BY SumEmpty
  <2>2. QED
    BY <1>2, <2>1
<1>5. Pick(M) \in M /\ R \in SUBSET S /\ R # M /\ R \subseteq M
  BY <1>3, <1>4, PickIn
<1>6. SumOf(f, R) \in Nat
  BY <1>2, <1>5
<1>7. SumOf(f, M) = f[Pick(M)] + SumOf(f, R)
  BY <1>3, <1>4, SumUnfold
<1>8. f[Pick(M)] \in Nat
  BY <1>3, <1>5
<1>9. QED
  BY <1>2, <1>6, <1>7, <1>8

(* One more term, whichever it is.                                         *)
LEMMA SumAddTo ==
  ASSUME NEW S, IsFiniteSet(S), NEW f, \A y \in S : f[y] \in Nat
  PROVE  \A T \in SUBSET S : \A x \in S \ T : SumOf(f, T \cup {x}) = SumOf(f, T) + f[x]
<1> DEFINE Adds(T) == \A x \in S \ T : SumOf(f, T \cup {x}) = SumOf(f, T) + f[x]
           B == {T \in SUBSET S : ~ Adds(T)}
<1>1. SUFFICES ASSUME B # {} PROVE FALSE
  OBVIOUS
<1>2. PICK M \in B : \A T \in B : T \subseteq M => T = M
  <2>1. B \in SUBSET SUBSET S
    OBVIOUS
  <2> HIDE DEF B
  <2>2. QED
    BY <2>1, <1>1, MinimalSubset
<1>3. IsFiniteSet(M) /\ M \in SUBSET S /\ \A y \in M : f[y] \in Nat
  BY <1>2, FS_Subset
<1>4. SumOf(f, M) \in Nat
  BY <1>3, SumNat
<1>5. ASSUME NEW x \in S \ M
      PROVE  SumOf(f, M \cup {x}) = SumOf(f, M) + f[x]
  <2> DEFINE U == M \cup {x}
             y == Pick(U)
             R == M \ {y}
  <2>1. IsFiniteSet(U) /\ f[x] \in Nat
    BY <1>3, FS_AddElement
  <2>2. y \in U
    BY PickIn
  <2>3. SumOf(f, U) = f[y] + SumOf(f, U \ {y})
    BY <2>1, SumUnfold
  <2>4. CASE y = x
    <3>1. U \ {y} = M
      BY <2>4
    <3> HIDE DEF U, y
    <3>2. QED
      BY <1>4, <2>1, <2>3, <2>4, <3>1 DEF U
  <2>5. CASE y # x
    <3>1. y \in M /\ R \in SUBSET S /\ R # M /\ R \subseteq M /\ x \notin R /\ y \notin R
      BY <1>3, <2>2, <2>5
    <3>2. U \ {y} = R \cup {x} /\ R \cup {y} = M
      BY <2>5, <3>1
    <3>3. Adds(R)
      BY <1>2, <3>1
    <3>4. SumOf(f, R \cup {x}) = SumOf(f, R) + f[x] /\ SumOf(f, R \cup {y}) = SumOf(f, R) + f[y]
      BY <1>3, <3>1, <3>3
    <3>5. SumOf(f, R) \in Nat /\ f[y] \in Nat
      <4>1. IsFiniteSet(R) /\ \A z \in R : f[z] \in Nat
        BY <1>3, FS_Subset
      <4>2. QED
        BY <1>3, <3>1, <4>1, SumNat
    <3> HIDE DEF U, y, R
    <3>6. SumOf(f, U) = f[y] + (SumOf(f, R) + f[x]) /\ SumOf(f, M) = SumOf(f, R) + f[y]
      BY <2>3, <3>2, <3>4
    <3>7. SumOf(f, U) = SumOf(f, M) + f[x]
      BY <2>1, <3>5, <3>6
    <3>8. QED
      BY <3>7 DEF U
  <2>6. QED
    BY <2>4, <2>5
<1>6. QED
  BY <1>2, <1>5

LEMMA SumAdd ==
  ASSUME NEW S, IsFiniteSet(S), NEW x, x \notin S,
         NEW f, \A y \in S \cup {x} : f[y] \in Nat
  PROVE  SumOf(f, S \cup {x}) = SumOf(f, S) + f[x]
<1> DEFINE U == S \cup {x}
<1>1. IsFiniteSet(U) /\ S \in SUBSET U /\ x \in U \ S
  BY FS_AddElement
<1>2. \A y \in U : f[y] \in Nat
  OBVIOUS
<1>3. \A T \in SUBSET U : \A z \in U \ T : SumOf(f, T \cup {z}) = SumOf(f, T) + f[z]
  <2> HIDE DEF U
  <2>1. QED
    BY <1>1, <1>2, SumAddTo
<1>4. QED
  BY <1>1, <1>3

(* One term less.                                                          *)
LEMMA SumRemove ==
  ASSUME NEW S, IsFiniteSet(S), NEW x \in S, NEW f, \A y \in S : f[y] \in Nat
  PROVE  /\ SumOf(f, S \ {x}) \in Nat
         /\ f[x] \in Nat
         /\ SumOf(f, S) = SumOf(f, S \ {x}) + f[x]
<1> DEFINE R == S \ {x}
<1>1. IsFiniteSet(R) /\ R \in SUBSET S /\ x \notin R /\ R \cup {x} = S
  BY FS_Subset
<1>2. \A y \in R : f[y] \in Nat
  OBVIOUS
<1> HIDE DEF R
<1>3. SumOf(f, R) \in Nat
  BY <1>1, <1>2, SumNat
<1>4. SumOf(f, R \cup {x}) = SumOf(f, R) + f[x]
  BY <1>1, SumAdd
<1>5. QED
  BY <1>1, <1>3, <1>4 DEF R
(* The sum of a function whose domain gains or loses a point, or one of    *)
(* whose values changes.                                                   *)
LEMMA SumExtended ==
  ASSUME NEW f, IsFiniteSet(DOMAIN f), \A x \in DOMAIN f : f[x] \in Nat,
         NEW id, id \notin DOMAIN f, NEW size \in Nat,
         NEW g, g = [x \in DOMAIN f \cup {id} |-> IF x = id THEN size ELSE f[x]]
  PROVE  SumOf(g, DOMAIN g) = SumOf(f, DOMAIN f) + size
<1>1. /\ DOMAIN g = DOMAIN f \cup {id} /\ g[id] = size
      /\ \A x \in DOMAIN f : g[x] = f[x]
  OBVIOUS
<1>2. SumOf(g, DOMAIN f \cup {id}) = SumOf(g, DOMAIN f) + size
  BY <1>1, SumAdd
<1>3. SumOf(g, DOMAIN f) = SumOf(f, DOMAIN f)
  BY <1>1, SumSame
<1>4. QED
  BY <1>1, <1>2, <1>3

LEMMA SumReduced ==
  ASSUME NEW f, IsFiniteSet(DOMAIN f), \A x \in DOMAIN f : f[x] \in Nat,
         NEW id \in DOMAIN f,
         NEW g, g = [x \in DOMAIN f \ {id} |-> f[x]]
  PROVE  /\ SumOf(g, DOMAIN g) = SumOf(f, DOMAIN f) - f[id]
         /\ SumOf(g, DOMAIN g) \in Nat
<1>1. DOMAIN g = DOMAIN f \ {id} /\ \A x \in DOMAIN f \ {id} : g[x] = f[x]
  OBVIOUS
<1>2. /\ SumOf(f, DOMAIN f \ {id}) \in Nat /\ f[id] \in Nat
      /\ SumOf(f, DOMAIN f) = SumOf(f, DOMAIN f \ {id}) + f[id]
  BY SumRemove
<1>3. SumOf(g, DOMAIN f \ {id}) = SumOf(f, DOMAIN f \ {id})
  BY <1>1, SumSame, FS_RemoveElement
<1>4. QED
  BY <1>1, <1>2, <1>3

LEMMA SumUpdated ==
  ASSUME NEW f, IsFiniteSet(DOMAIN f), \A x \in DOMAIN f : f[x] \in Nat,
         NEW id \in DOMAIN f, NEW size \in Nat,
         NEW g, g = [f EXCEPT ![id] = size]
  PROVE  /\ SumOf(g, DOMAIN g) = SumOf(f, DOMAIN f) - f[id] + size
         /\ SumOf(g, DOMAIN g) \in Nat
<1>1. /\ DOMAIN g = DOMAIN f /\ g[id] = size
      /\ \A x \in DOMAIN f \ {id} : g[x] = f[x]
  OBVIOUS
<1>2. /\ SumOf(f, DOMAIN f \ {id}) \in Nat /\ f[id] \in Nat
      /\ SumOf(f, DOMAIN f) = SumOf(f, DOMAIN f \ {id}) + f[id]
  BY SumRemove
<1>3. SumOf(g, DOMAIN g) = SumOf(g, DOMAIN f \ {id}) + size
  <2>1. \A x \in DOMAIN f : g[x] \in Nat
    BY <1>1
  <2>2. SumOf(g, DOMAIN f) = SumOf(g, DOMAIN f \ {id}) + g[id]
    BY <2>1, SumRemove
  <2>3. QED
    BY <2>2, <1>1
<1>4. SumOf(g, DOMAIN f \ {id}) = SumOf(f, DOMAIN f \ {id})
  BY <1>1, SumSame, FS_RemoveElement
<1>5. QED
  BY <1>2, <1>3, <1>4

(* An injective function has as many values as arguments.                  *)
LEMMA ImageCard ==
  ASSUME NEW S, IsFiniteSet(S), NEW f, DOMAIN f = S,
         \A x, y \in S : f[x] = f[y] => x = y
  PROVE  /\ IsFiniteSet({f[x] : x \in S})
         /\ Cardinality({f[x] : x \in S}) = Cardinality(S)
<1> DEFINE T == {f[x] : x \in S}
           g == [x \in S |-> f[x]]
<1>1. g \in Bijection(S, T)
  BY DEF Bijection, Injection, Surjection, IsInjective
<1>2. ExistsBijection(S, T)
  BY <1>1 DEF ExistsBijection
<1>3. QED
  BY <1>2, FS_Bijection

-----------------------------------------------------------------------------
(* Lists without repetition.                                               *)

LEMMA ListFacts ==
  ASSUME NEW s \in Seq(Nat)
  PROVE  /\ Len(s) \in Nat /\ DOMAIN s = 1..Len(s)
         /\ \A k \in 1..Len(s) : s[k] \in Nat
         /\ \A x : x \in ToSet(s) <=> \E k \in 1..Len(s) : s[k] = x
BY DEF ToSet

(* A list whose entry at i is left out, and those above it moved down.     *)
LEMMA Thinned ==
  ASSUME NEW s \in Seq(Nat), IsInjective(s), NEW i \in 1..Len(s),
         NEW r \in Seq(Nat), Len(r) = Len(s) - 1,
         \A k \in 1..(Len(s) - 1) : (k < i => r[k] = s[k]) /\ (i <= k => r[k] = s[k + 1])
  PROVE  IsInjective(r) /\ ToSet(r) = ToSet(s) \ {s[i]}
<1> DEFINE n == Len(s)
<1>1. /\ n \in Nat /\ i \in 1..n /\ DOMAIN s = 1..n /\ DOMAIN r = 1..(n - 1)
      /\ \A j, k \in 1..n : s[j] = s[k] => j = k
  BY ListFacts DEF IsInjective
<1>2. \A k \in 1..(n - 1) : (k < i => r[k] = s[k]) /\ (i <= k => r[k] = s[k + 1])
  OBVIOUS
<1>3. Len(r) = n - 1
  OBVIOUS
<1> HIDE DEF n
<1>4. \A k \in 1..(n - 1) : k \in Int /\ k \in 1..n /\ k + 1 \in 1..n
  BY <1>1
<1>5. IsInjective(r)
  <2>1. ASSUME NEW j \in 1..(n - 1), NEW k \in 1..(n - 1), r[j] = r[k]
        PROVE  j = k
    <3>1. /\ j \in 1..n /\ k \in 1..n /\ j + 1 \in 1..n /\ k + 1 \in 1..n
          /\ j \in Int /\ k \in Int /\ i \in Int
      BY <1>1, <1>4
    <3>2. CASE j < i /\ k < i
      BY <1>1, <1>2, <2>1, <3>1, <3>2
    <3>3. CASE j < i /\ i <= k
      <4>1. s[j] = s[k + 1]
        BY <1>2, <2>1, <3>3
      <4>2. j = k + 1
        BY <1>1, <3>1, <4>1
      <4>3. QED
        BY <3>1, <3>3, <4>2
    <3>4. CASE i <= j /\ k < i
      <4>1. s[j + 1] = s[k]
        BY <1>2, <2>1, <3>4
      <4>2. j + 1 = k
        BY <1>1, <3>1, <4>1
      <4>3. QED
        BY <3>1, <3>4, <4>2
    <3>5. CASE i <= j /\ i <= k
      <4>1. s[j + 1] = s[k + 1]
        BY <1>2, <2>1, <3>5
      <4>2. j + 1 = k + 1
        BY <1>1, <3>1, <4>1
      <4>3. QED
        BY <3>1, <4>2
    <3>6. QED
      BY SMTT(60), <3>1, <3>2, <3>3, <3>4, <3>5
  <2>2. QED
    BY <1>1, <2>1 DEF IsInjective
<1>6. ASSUME NEW x, x \in ToSet(r)
      PROVE  x \in ToSet(s) /\ x # s[i]
  <2>1. PICK k \in 1..(n - 1) : r[k] = x
    BY <1>3, <1>6, ListFacts
  <2>2. k \in 1..n /\ k + 1 \in 1..n
    BY <1>4
  <2>3. PICK K \in 1..n : s[K] = r[k] /\ K # i
    <3>1. CASE k < i
      BY <1>1, <1>2, <2>2, <3>1
    <3>2. CASE i <= k
      <4>1. k + 1 # i
        BY <1>1, <3>2
      <4>2. QED
        BY <1>2, <2>2, <3>2, <4>1
    <3>3. QED
      BY <1>1, <3>1, <3>2
  <2>4. s[K] # s[i]
    BY <1>1, <2>3
  <2>5. QED
    BY <2>1, <2>3, <2>4, ListFacts DEF n
<1>7. ASSUME NEW x \in ToSet(s), x # s[i]
      PROVE  x \in ToSet(r)
  <2>1. PICK k \in 1..n : s[k] = x
    BY ListFacts DEF n
  <2>2. CASE k < i
    <3>1. k \in 1..(n - 1) /\ r[k] = x
      BY <1>1, <1>2, <2>1, <2>2
    <3>2. QED
      BY <1>3, <3>1, ListFacts
  <2>3. CASE k > i
    <3>1. k - 1 \in 1..(n - 1) /\ r[k - 1] = s[(k - 1) + 1] /\ (k - 1) + 1 = k
      BY <1>1, <1>2, <2>3
    <3>2. r[k - 1] = x
      BY <2>1, <3>1
    <3>3. QED
      BY <1>3, <3>1, <3>2, ListFacts
  <2>4. QED
    BY <1>1, <1>7, <2>1, <2>2, <2>3
<1>8. QED
  BY <1>5, <1>6, <1>7

LEMMA RemovedAt ==
  ASSUME NEW s \in Seq(Nat), IsInjective(s), NEW i \in 1..Len(s)
  PROVE  /\ RemoveAt(s, i) \in Seq(Nat) /\ IsInjective(RemoveAt(s, i))
         /\ ToSet(RemoveAt(s, i)) = ToSet(s) \ {s[i]}
<1> DEFINE u == SubSeq(s, 1, i - 1)
           v == SubSeq(s, i + 1, Len(s))
           r == RemoveAt(s, i)
<1>1. Len(s) \in Nat /\ i \in Nat /\ 1 <= i /\ i <= Len(s)
  OBVIOUS
<1>2. u \in Seq(Nat) /\ Len(u) = i - 1 /\ \A k \in 1..(i - 1) : u[k] = s[k]
  BY <1>1
<1>3. v \in Seq(Nat) /\ Len(v) = Len(s) - i /\ \A k \in 1..(Len(s) - i) : v[k] = s[i + k]
  BY <1>1
<1>4. r = u \o v
  BY DEF RemoveAt
<1> HIDE DEF u, v, r
<1>5. /\ r \in Seq(Nat) /\ Len(r) = Len(s) - 1
  <2>1. u \in Seq(Nat) /\ v \in Seq(Nat)
    BY <1>2, <1>3
  <2>2. r \in Seq(Nat) /\ Len(r) = Len(u) + Len(v)
    BY <2>1, <1>4
  <2>3. QED
    BY <1>1, <1>2, <1>3, <2>2
<1>6. \A k \in 1..Len(v) : r[Len(u) + k] = v[k]
  <2>1. u \in Seq(Nat) /\ v \in Seq(Nat)
    BY <1>2, <1>3
  <2>2. QED
    BY <2>1, <1>4
<1>7. \A k \in 1..(Len(s) - 1) : (k < i => r[k] = s[k]) /\ (i <= k => r[k] = s[k + 1])
  <2> TAKE k \in 1..(Len(s) - 1)
  <2>1. CASE k < i
    <3>1. k \in 1..(i - 1) /\ r[k] = u[k]
      BY <1>1, <1>2, <1>3, <1>4, <2>1
    <3>2. QED
      BY <1>2, <2>1, <3>1
  <2>2. CASE i <= k
    <3> DEFINE m == k - (i - 1)
    <3>1. m \in 1..(Len(s) - i) /\ k = (i - 1) + m /\ i + m = k + 1 /\ m \in 1..Len(v)
      BY <1>1, <1>3, <2>2
    <3> HIDE DEF m
    <3>2. r[k] = v[m]
      BY <1>2, <1>6, <3>1
    <3>3. v[m] = s[k + 1]
      BY <1>3, <3>1
    <3>4. QED
      BY <1>1, <2>2, <3>2, <3>3
  <2>3. QED
    BY <1>1, <2>1, <2>2
<1>8. IsInjective(r) /\ ToSet(r) = ToSet(s) \ {s[i]}
  BY ZenonT(60), <1>5, <1>7, Thinned
<1>9. QED
  BY <1>5, <1>8 DEF r
=============================================================================
