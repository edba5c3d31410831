----------------------------- MODULE BuddyProofs -----------------------------
(***************************************************************************)
(* Theorems of BuddyAllocator for every arena size, every header size and  *)
(* every set of requests that satisfy the assumptions of that module.      *)
(***************************************************************************)
EXTENDS BuddyAllocator, ArithmeticLemmas

(* Block c lies within block b.                                            *)
Inside(c, b) ==
  b.off <= c.off /\ c.off + Size[c.order] <= b.off + Size[b.order]

BlockAligned(b) == b.off % Size[b.order] = 0

-----------------------------------------------------------------------------
(* The constants.                                                          *)

(* Two orders are at least a factor of two apart: the least order above j  *)
(* that were not would have one below it that is not either.               *)
LEMMA SizesApart ==
  ASSUME NEW j \in Order, NEW k \in Order, j < k
  PROVE  2 * Size[j] <= Size[k]
<1> DEFINE T == {o \in Order : j < o /\ Size[o] < 2 * Size[j]}
<1>1. /\ MaxOrder \in Nat /\ Order = 0..MaxOrder
      /\ \A o \in Order : o \in Nat /\ Size[o] \in Nat /\ Size[o] > 0
      /\ \A o \in Order : o < MaxOrder => Size[o + 1] = 2 * Size[o]
  BY OrderAssumption DEF Order
<1>2. SUFFICES ASSUME T # {} PROVE FALSE
  BY SMTT(60), <1>1
<1>3. T \in SUBSET Nat
  BY <1>1
<1>4. PICK m \in T : \A y \in T : m <= y
  <2> HIDE DEF T
  <2>1. QED
    BY <1>2, <1>3, NatMin
<1>5. /\ m \in Nat /\ m - 1 \in Order /\ m - 1 < MaxOrder /\ j <= m - 1
      /\ m - 1 \notin T
  BY <1>1, <1>4
<1>6. Size[m] = 2 * Size[m - 1]
  <2>1. (m - 1) + 1 = m
    BY <1>5
  <2>2. QED
    BY <1>1, <1>5, <2>1
<1>7. CASE m - 1 = j
  BY <1>1, <1>4, <1>6, <1>7
<1>8. CASE m - 1 # j
  <2>1. j < m - 1 /\ Size[m - 1] >= 2 * Size[j]
    BY <1>1, <1>5, <1>8
  <2>2. QED
    BY <1>1, <1>4, <1>5, <1>6, <2>1
<1>9. QED
  BY <1>7, <1>8

LEMMA SizeFacts ==
  /\ MaxOrder \in Order
  /\ \A k \in Order : k \in Nat /\ Size[k] \in Nat /\ Size[k] > 0
  /\ \A k \in Order : k < MaxOrder => k + 1 \in Order /\ Size[k + 1] = 2 * Size[k]
  /\ \A j, k \in Order : j < k => 2 * Size[j] <= Size[k]
  /\ \A j, k \in Order : j <= k => Size[j] <= Size[k]
  /\ ArenaSize \in Nat /\ ArenaSize > 0
BY OrderAssumption, SizesApart DEF Order, ArenaSize

LEMMA BlockFacts ==
  ASSUME NEW b \in Block
  PROVE  /\ b = [order |-> b.order, off |-> b.off]
         /\ b.order \in Order /\ b.off \in Nat
         /\ b.off + Size[b.order] <= ArenaSize
BY SizeFacts DEF Block, Offset

LEMMA BlockIntro ==
  ASSUME NEW o \in Order, NEW off \in Nat, off + Size[o] <= ArenaSize
  PROVE  [order |-> o, off |-> off] \in Block
BY SizeFacts DEF Block, Offset

(* An admitted request fits an empty arena, and its block holds more than  *)
(* the header.                                                             *)
LEMMA NeedFits ==
  ASSUME NEW req \in Request, Admission(req) = "ok"
  PROVE  /\ Need(req) \in Nat
         /\ Need(req) > HeaderSize
         /\ Need(req) >= HeaderSize + req.size
         /\ Need(req) <= ArenaSize
<1> DEFINE v == IF req.size = 0 THEN 1 ELSE req.size
           q == (v + Quantum - 1) \div Quantum
           A == ArenaSize - HeaderSize
<1>1. /\ HeaderSize \in Nat /\ Quantum \in Nat /\ Quantum > 0
      /\ req.size \in Nat
      /\ HeaderSize + Quantum <= ArenaSize
      /\ HeaderSize % Quantum = 0 /\ ArenaSize % Quantum = 0
      /\ ArenaSize \in Nat
  BY RequestAssumption, SizeFacts DEF ArenaSize
<1>2. req.size <= ArenaSize - HeaderSize
  <2>1. ~ (req.size > ArenaSize - HeaderSize)
    BY DEF Admission
  <2>2. QED
    BY <2>1, <1>1
<1>3. v \in Nat /\ v >= 1 /\ v >= req.size /\ v <= A /\ A \in Nat
  BY <1>1, <1>2
<1>4. PICK h \in Nat, a \in Nat : HeaderSize = Quantum * h /\ ArenaSize = Quantum * a
  <2>1. HeaderSize = Quantum * (HeaderSize \div Quantum) /\ HeaderSize \div Quantum \in Nat
    BY <1>1, DivMod
  <2>2. ArenaSize = Quantum * (ArenaSize \div Quantum) /\ ArenaSize \div Quantum \in Nat
    BY <1>1, DivMod
  <2>3. QED
    BY <2>1, <2>2
<1>5. PICK r \in Nat : r < Quantum /\ v + Quantum - 1 = Quantum * q + r /\ q \in Nat
  <2>1. v + Quantum - 1 \in Nat
    BY <1>1, <1>3
  <2>2. QED
    BY <2>1, <1>1, DivMod
<1>6. Need(req) = HeaderSize + q * Quantum
  BY DEF Need, AlignUp
<1> HIDE DEF q, v
<1>7. q * Quantum = Quantum * q /\ Quantum * q \in Nat /\ Quantum * q >= v
  BY <1>1, <1>3, <1>5
<1>8. Quantum * q <= A
  <2>1. A = Quantum * (a - h)
    BY <1>1, <1>4
  <2>2. Quantum * q <= v + Quantum - 1
    BY <1>1, <1>3, <1>5
  <2>3. Quantum * q < Quantum * (a - h) + Quantum
    BY <2>1, <2>2, <1>1, <1>3, <1>7
  <2>4. CASE q <= a - h
    BY <2>1, <2>4, <1>1, <1>4, <1>5
  <2>5. CASE q >= a - h + 1
    <3>1. Quantum * q >= Quantum * (a - h + 1)
      BY <2>5, <1>1, <1>4, <1>5
    <3>2. Quantum * (a - h + 1) = Quantum * (a - h) + Quantum
      BY <1>1, <1>4
    <3>3. QED
      BY <2>3, <3>1, <3>2, <1>1, <1>4, <1>5
  <2>6. QED
    BY <2>4, <2>5, <1>4, <1>5
<1>9. QED
  BY <1>1, <1>3, <1>6, <1>7, <1>8

(* order_for() finds an order, and its block is large enough.              *)
LEMMA OrderForFits ==
  ASSUME NEW need \in Nat, need <= ArenaSize
  PROVE  OrderFor(need) \in Order /\ Size[OrderFor(need)] >= need
<1> DEFINE T == {o \in Order : Size[o] >= need}
<1>1. T \in SUBSET Nat /\ T # {}
  BY SizeFacts DEF ArenaSize
<1>2. PICK m \in T : \A y \in T : m <= y
  BY <1>1, NatMin
<1>3. \E o \in Order : Size[o] >= need /\ \A j \in Order : Size[j] >= need => o <= j
  BY <1>2
<1>4. QED
  BY <1>3 DEF OrderFor

-----------------------------------------------------------------------------
(* Splitting.                                                              *)

(* A multiple of a block size is a multiple of every smaller block size.   *)
LEMMA AlignedBelow ==
  ASSUME NEW f \in Order, NEW off \in Nat, off % Size[f] = 0,
         NEW k \in 0..f
  PROVE  off % Size[k] = 0
<1> DEFINE T == {d \in 0..f : off % Size[f - d] # 0}
<1>1. SUFFICES ASSUME T # {}
               PROVE  FALSE
  <2>1. f - k \in 0..f /\ f - (f - k) = k
    BY SizeFacts
  <2>2. QED
    BY <2>1
<1>2. T \in SUBSET Nat
  BY SizeFacts
<1>3. PICK d \in T : \A y \in T : d <= y
  BY <1>1, <1>2, NatMin
<1>4. f \in Nat /\ d \in 0..f /\ off % Size[f - d] # 0
  BY SizeFacts
<1>5. d # 0
  BY <1>4
<1>6. d - 1 \in 0..f /\ off % Size[f - (d - 1)] = 0
  <2>1. d - 1 \in 0..f /\ ~ (d <= d - 1)
    BY <1>4, <1>5
  <2>2. QED
    BY <2>1, <1>3
<1>7. /\ f - d \in Order /\ f - d < MaxOrder
      /\ f - (d - 1) = (f - d) + 1
  BY <1>4, <1>5, SizeFacts DEF Order
<1>8. Size[f - (d - 1)] = 2 * Size[f - d] /\ Size[f - d] \in Nat /\ Size[f - d] > 0
  BY <1>7, SizeFacts
<1>9. off % Size[f - d] \in Nat
  BY <1>8, DivMod
<1>10. QED
  BY <1>4, <1>6, <1>8, <1>9, HalfMod

(* What halving a block down to order o leaves: the block kept and the     *)
(* upper halves are aligned blocks inside the old one that do not meet.    *)
LEMMA SplitPieces ==
  ASSUME NEW b \in Block, BlockAligned(b), NEW o \in 0..b.order
  PROVE  LET kept == [order |-> o, off |-> b.off]
             cut == UpperHalves(b.off, o, b.order)
         IN /\ kept \in Block /\ BlockAligned(kept) /\ Inside(kept, b)
            /\ \A c \in cut : /\ c \in Block /\ BlockAligned(c) /\ Inside(c, b)
                              /\ Separate(kept, c) /\ Separate(c, kept)
                              /\ c.off # b.off
            /\ \A c, d \in cut : c # d => Separate(c, d)
<1> DEFINE kept == [order |-> o, off |-> b.off]
           cut == UpperHalves(b.off, o, b.order)
<1>1. /\ b.order \in Order /\ b.off \in Nat /\ b.off + Size[b.order] <= ArenaSize
      /\ b.off % Size[b.order] = 0
  BY BlockFacts DEF BlockAligned
<1>2. /\ o \in Order /\ o <= b.order
      /\ o \in Nat /\ b.order \in Nat /\ MaxOrder \in Nat /\ b.order <= MaxOrder
  BY <1>1, OrderAssumption DEF Order
<1>3. kept \in Block /\ BlockAligned(kept) /\ Inside(kept, b)
  <2>1. Size[o] <= Size[b.order] /\ Size[o] \in Nat /\ Size[b.order] \in Nat
    BY <1>1, <1>2, SizeFacts
  <2>2. b.off + Size[o] <= ArenaSize
    BY <2>1, <1>1, SizeFacts
  <2>3. b.off % Size[o] = 0
    BY <1>1, AlignedBelow
  <2>4. QED
    BY <1>1, <1>2, <2>1, <2>2, <2>3, BlockIntro DEF BlockAligned, Inside
<1>4. ASSUME NEW k \in o..(b.order - 1)
      PROVE  LET c == [order |-> k, off |-> b.off + Size[k]]
             IN /\ c \in Block /\ BlockAligned(c) /\ Inside(c, b)
                /\ Separate(kept, c) /\ Separate(c, kept)
                /\ c.off # b.off
  <2>1. k \in Order /\ k < b.order /\ o <= k /\ k \in 0..b.order
    BY <1>1, <1>2 DEF Order
  <2>2. /\ Size[k] \in Nat /\ Size[k] > 0 /\ Size[b.order] \in Nat /\ Size[o] \in Nat
        /\ 2 * Size[k] <= Size[b.order]
        /\ Size[o] <= Size[k]
    BY <1>1, <1>2, <2>1, SizeFacts
  <2>3. b.off % Size[k] = 0
    BY <1>1, <2>1, AlignedBelow
  <2>4. (b.off + Size[k]) % Size[k] = 0
    BY <1>1, <2>2, <2>3, MultipleStep
  <2>5. b.off + Size[k] \in Nat /\ b.off + Size[k] + Size[k] <= ArenaSize
    BY <1>1, <2>2, SizeFacts
  <2>6. [order |-> k, off |-> b.off + Size[k]] \in Block
    BY <2>1, <2>5, BlockIntro
  <2>7. QED
    BY <1>1, <2>1, <2>2, <2>4, <2>6 DEF BlockAligned, Inside, Separate
<1>5. ASSUME NEW j \in o..(b.order - 1), NEW k \in o..(b.order - 1), j # k
      PROVE  Separate([order |-> j, off |-> b.off + Size[j]],
                      [order |-> k, off |-> b.off + Size[k]])
  <2>1. j \in Nat /\ k \in Nat /\ j <= MaxOrder /\ k <= MaxOrder
    BY <1>2
  <2>2. j \in Order /\ k \in Order /\ (j < k \/ k < j)
    BY <2>1, <1>2, <1>5 DEF Order
  <2>3. /\ Size[j] \in Nat /\ Size[k] \in Nat
        /\ 2 * Size[j] <= Size[k] \/ 2 * Size[k] <= Size[j]
    BY <2>2, SizeFacts
  <2>4. QED
    BY <1>1, <2>3 DEF Separate
<1>6. QED
  BY <1>3, <1>4, <1>5 DEF UpperHalves

LEMMA SeparateInside ==
  ASSUME NEW b \in Block, NEW c \in Block, NEW d \in Block, Inside(c, b)
  PROVE  /\ Separate(b, d) => Separate(c, d)
         /\ Separate(d, b) => Separate(d, c)
<1>1. /\ Size[b.order] \in Nat /\ Size[c.order] \in Nat /\ Size[d.order] \in Nat
      /\ b.off \in Nat /\ c.off \in Nat /\ d.off \in Nat
      /\ Size[c.order] > 0
  BY BlockFacts, SizeFacts
<1>2. QED
  BY <1>1 DEF Separate, Inside

-----------------------------------------------------------------------------
(* Coalescing.                                                             *)

(* Going up one order, the block either stays the lower half and its buddy *)
(* is the upper one, or its buddy below becomes the start.                 *)
LEMMA ClimbStep ==
  ASSUME NEW k \in Order, k < MaxOrder, NEW off \in Nat
  PROVE  /\ Base(k, off) \in Nat /\ Base(k + 1, off) \in Nat
         /\ BuddyOf(k, off).order = k
         /\ \/ /\ Base(k + 1, off) = Base(k, off)
               /\ BuddyOf(k, off).off = Base(k, off) + Size[k]
            \/ /\ Base(k + 1, off) = Base(k, off) - Size[k]
               /\ BuddyOf(k, off).off = Base(k + 1, off)
<1> DEFINE s == Size[k]
           B == Base(k, off)
           C == Base(k + 1, off)
<1>1. s \in Nat /\ s > 0 /\ k + 1 \in Order /\ Size[k + 1] = 2 * s
      /\ 2 * s \in Nat /\ 2 * s > 0
  BY SizeFacts
<1>2. B = off - (off % s) /\ C = off - (off % (2 * s))
  BY <1>1 DEF Base
<1>3. /\ B \in Nat /\ C \in Nat
      /\ C % (2 * s) = 0
      /\ off % s \in Nat
  <2>1. B \in Nat /\ off % s \in Nat
    BY <1>1, <1>2, FloorMultiple, DivMod
  <2>2. C \in Nat /\ C % (2 * s) = 0
    BY <1>1, <1>2, FloorMultiple
  <2>3. QED
    BY <2>1, <2>2
<1>4. BuddyOf(k, off) = [order |-> k, off |-> IF B % (2 * s) = 0 THEN B + s ELSE B - s]
  BY <1>1 DEF BuddyOf
<1> HIDE DEF B, C, s
<1>5. CASE off % (2 * s) = off % s
  <2>1. C = B
    BY <1>2, <1>5
  <2>2. QED
    BY <2>1, <1>3, <1>4 DEF B, C, s
<1>6. CASE off % (2 * s) = (off % s) + s
  <2>1. C = B - s
    BY <1>1, <1>2, <1>3, <1>6
  <2>2. PICK q \in Nat : C = (2 * s) * q
    BY <1>1, <1>3, DivMod
  <2>3. B = (2 * s) * q + s /\ s < 2 * s
    BY <1>1, <1>3, <2>1, <2>2
  <2>4. B % (2 * s) = s
    BY <1>1, <2>3, DivModUnique
  <2>5. QED
    BY <2>1, <2>4, <1>1, <1>3, <1>4 DEF B, C, s
<1>7. QED
  BY <1>1, <1>5, <1>6, HalfMod

(* Where coalesce() arrives after absorbing the buddies of orders below n: *)
(* an aligned block that contains the freed one and overlaps nothing but   *)
(* the freed block and the absorbed buddies.                               *)
LEMMA Climb ==
  ASSUME NEW b \in Block, BlockAligned(b),
         NEW n \in b.order..MaxOrder,
         Absorbed(b.off, b.order, n) \subseteq Block
  PROVE  LET merged == [order |-> n, off |-> Base(n, b.off)]
         IN /\ merged \in Block /\ BlockAligned(merged) /\ Inside(b, merged)
            /\ \A d \in Block :
                 Separate(b, d) /\ (\A a \in Absorbed(b.off, b.order, n) : Separate(a, d))
                   => Separate(merged, d)
<1> DEFINE Others == {d \in Block : Separate(b, d)
                        /\ \A a \in Absorbed(b.off, b.order, n) : Separate(a, d)}
           At(k) == [order |-> k, off |-> Base(k, b.off)]
           P(k) == /\ Base(k, b.off) + Size[k] <= ArenaSize
                   /\ b.off + Size[b.order] <= Base(k, b.off) + Size[k]
                   /\ \A d \in Others : Separate(At(k), d)
           T == {k \in b.order..n : ~ P(k)}
<1>1. /\ b.order \in Order /\ b.off \in Nat /\ b.off + Size[b.order] <= ArenaSize
      /\ b.off % Size[b.order] = 0
      /\ b = [order |-> b.order, off |-> b.off]
      /\ b.order \in Nat /\ n \in Nat /\ b.order <= n /\ n <= MaxOrder /\ MaxOrder \in Nat
  BY BlockFacts, SizeFacts DEF BlockAligned
<1>2. \A k \in b.order..n : k \in Order /\ k \in Nat
  BY <1>1 DEF Order
<1>3. P(b.order)
  <2>1. Base(b.order, b.off) = b.off
    BY <1>1 DEF Base
  <2>2. At(b.order) = b
    BY <1>1, <2>1
  <2>3. \A d \in Others : Separate(At(b.order), d)
    BY <2>2
  <2>4. b.off + Size[b.order] <= b.off + Size[b.order]
    BY <1>1, SizeFacts
  <2>5. QED
    BY <1>1, <2>1, <2>3, <2>4
<1>4. ASSUME NEW k \in b.order..(n - 1), P(k)
      PROVE  P(k + 1)
  <2>1. k \in Order /\ k < MaxOrder /\ k \in b.order..n
    BY <1>1, <1>2
  <2>2. /\ Size[k] \in Nat /\ Size[k] > 0 /\ Size[k + 1] = 2 * Size[k] /\ ArenaSize \in Nat
    BY <2>1, SizeFacts
  <2>3. BuddyOf(k, b.off) \in Absorbed(b.off, b.order, n)
    BY <2>1 DEF Absorbed
  <2>4. BuddyOf(k, b.off) \in Block
    BY <2>3
  <2>5. BuddyOf(k, b.off).off + Size[k] <= ArenaSize
    BY <2>1, <2>4, BlockFacts, ClimbStep, <1>1
  <2>6. /\ Base(k + 1, b.off) + Size[k + 1] <= ArenaSize
        /\ b.off + Size[b.order] <= Base(k + 1, b.off) + Size[k + 1]
    BY SizeFacts, <2>1, <2>2, <2>5, <1>1, <1>4, ClimbStep
  <2>7. ASSUME NEW d \in Others
        PROVE  Separate(At(k + 1), d)
    <3>1. Separate(At(k), d) /\ Separate(BuddyOf(k, b.off), d)
      BY <1>4, <2>3
    <3>2. d.off \in Nat /\ d.order \in Order
      BY BlockFacts
    <3>3. Size[d.order] \in Nat /\ Size[d.order] > 0
      BY <3>2, SizeFacts
    <3> HIDE DEF Others
    <3>4. QED
      BY <3>1, <3>2, <3>3, <2>1, <2>2, <1>1, ClimbStep DEF Separate
  <2>8. QED
    BY <2>6, <2>7
<1> HIDE DEF P
<1>5. T = {}
  <2>1. SUFFICES ASSUME T # {}
                 PROVE  FALSE
    OBVIOUS
  <2>2. T \in SUBSET Nat
    BY <1>2
  <2>3. PICK m \in T : \A y \in T : m <= y
    BY <2>1, <2>2, NatMin
  <2>4. m \in b.order..n /\ ~ P(m) /\ m \in Nat
    BY <1>2
  <2>5. m # b.order
    BY <2>4, <1>3
  <2>6. m - 1 \in b.order..(n - 1) /\ m - 1 \in b.order..n /\ ~ (m <= m - 1)
    BY <2>4, <2>5, <1>1
  <2>7. P(m - 1)
    BY <2>3, <2>6
  <2>8. P((m - 1) + 1)
    BY <2>6, <2>7, <1>4
  <2>9. (m - 1) + 1 = m
    BY <2>4
  <2>10. QED
    BY <2>4, <2>8, <2>9
<1>6. P(n)
  BY <1>1, <1>5
<1>7. /\ n \in Order /\ Size[n] \in Nat /\ Size[n] > 0 /\ Size[b.order] \in Nat
      /\ Size[b.order] <= Size[n]
  BY <1>1, SizeFacts DEF Order
<1>8. /\ Base(n, b.off) \in Nat
      /\ Base(n, b.off) % Size[n] = 0
      /\ Base(n, b.off) <= b.off
      /\ b.off < Base(n, b.off) + Size[n]
  BY <1>1, <1>7, FloorMultiple DEF Base
<1>9. At(n) \in Block /\ BlockAligned(At(n))
  BY <1>6, <1>7, <1>8, BlockIntro DEF P, BlockAligned
<1>10. b.off + Size[b.order] <= Base(n, b.off) + Size[n]
  BY <1>6 DEF P
<1>11. QED
  BY <1>6, <1>8, <1>9, <1>10 DEF P, Inside

-----------------------------------------------------------------------------
(* The inductive invariant.                                                *)

(* NoOverlap alone is not inductive: coalescing needs the alignment of     *)
(* every block, and free() needs the header to tell the true order.        *)
IInv == TypeOK /\ NoOverlap /\ Aligned /\ HeaderAgrees

LEMMA SeparateSym ==
  ASSUME NEW b, NEW c
  PROVE  Separate(b, c) <=> Separate(c, b)
BY DEF Separate

LEMMA InitIInv == Init => IInv
<1> SUFFICES ASSUME Init
             PROVE  IInv
  OBVIOUS
<1>1. Root \in Block /\ Root.order = MaxOrder /\ Root.off = 0
  BY SizeFacts, BlockIntro DEF Root, ArenaSize
<1>2. 0 % Size[MaxOrder] = 0
  <2>1. Size[MaxOrder] \in Nat /\ Size[MaxOrder] > 0
    BY SizeFacts
  <2>2. (Size[MaxOrder] * 0 + 0) % Size[MaxOrder] = 0
    BY <2>1, DivModUnique
  <2>3. QED
    BY <2>1, <2>2
<1>3. MaxIds \in Nat /\ MaxOrder \in Order /\ 0 \in Offset
  BY RequestAssumption, SizeFacts DEF Offset
<1>4. TypeOK
  BY <1>1, <1>3 DEF Init, TypeOK, Empty, Header, ErrorCode
<1>5. NoOverlap
  BY DEF Init, NoOverlap, Empty
<1>6. Aligned
  BY <1>1, <1>2 DEF Init, Aligned, Empty
<1>7. HeaderAgrees
  BY DEF Init, HeaderAgrees, Empty
<1>8. QED
  BY <1>4, <1>5, <1>6, <1>7 DEF IInv

(* What a successful allocation leaves, in the words of SplitPieces.       *)
LEMMA AllocateShape ==
  ASSUME IInv, NEW req \in Request, Admission(req) = "ok",
         NEW b \in free, FirstFit(b, Candidates(req))
  PROVE  LET o == OrderFor(Need(req))
         IN /\ b \in Block /\ BlockAligned(b)
            /\ o \in Order /\ o \in 0..b.order
            /\ Size[o] > HeaderSize /\ Size[o] >= HeaderSize + req.size
<1>1. b \in Block /\ BlockAligned(b)
  BY DEF IInv, TypeOK, Aligned, BlockAligned
<1>2. Need(req) \in Nat /\ Need(req) <= ArenaSize /\ Need(req) > HeaderSize
      /\ Need(req) >= HeaderSize + req.size
  BY NeedFits
<1>3. OrderFor(Need(req)) \in Order /\ Size[OrderFor(Need(req))] >= Need(req)
  BY <1>2, OrderForFits
<1>4. b.order >= OrderFor(Need(req))
  BY DEF FirstFit, Candidates
<1>5. OrderFor(Need(req)) \in 0..b.order
  BY <1>1, <1>3, <1>4, BlockFacts, SizeFacts DEF Order
<1>6. Size[OrderFor(Need(req))] \in Nat /\ HeaderSize \in Nat /\ req.size \in Nat
  BY <1>3, SizeFacts, RequestAssumption
<1>7. QED
  BY <1>1, <1>2, <1>3, <1>5, <1>6

LEMMA AllocateIInv ==
  ASSUME IInv, NEW req \in Request, Allocate(req)
  PROVE  IInv'
<1>1. PICK b \in free : FirstFit(b, Candidates(req)) /\ AllocateFrom(req, b)
  BY DEF Allocate
<1> DEFINE o == OrderFor(Need(req))
           kept == [order |-> o, off |-> b.off]
           cut == UpperHalves(b.off, o, b.order)
           id == next_id + 1
<1>2. /\ b \in Block /\ BlockAligned(b) /\ o \in Order /\ o \in 0..b.order
      /\ Size[o] > HeaderSize /\ Admission(req) = "ok" /\ next_id < MaxIds
  BY <1>1, AllocateShape DEF Allocate
<1>3. /\ kept \in Block /\ BlockAligned(kept) /\ Inside(kept, b)
      /\ \A c \in cut : /\ c \in Block /\ BlockAligned(c) /\ Inside(c, b)
                        /\ Separate(kept, c) /\ Separate(c, kept)
                        /\ c.off # b.off
      /\ \A c, d \in cut : c # d => Separate(c, d)
  BY <1>2, SplitPieces
<1>4. /\ free' = (free \ {b}) \cup cut
      /\ DOMAIN hdr' = DOMAIN hdr \cup {c.off : c \in cut} \cup {b.off}
      /\ hdr'[b.off] = Header("busy", o)
      /\ \A x \in DOMAIN hdr : x # b.off /\ (\A c \in cut : c.off # x) => hdr'[x] = hdr[x]
      /\ \A x \in DOMAIN hdr' :
           \/ hdr'[x] = Header("busy", o)
           \/ \E c \in cut : hdr'[x] = Header("free", c.order)
           \/ x \in DOMAIN hdr /\ hdr'[x] = hdr[x]
      /\ DOMAIN live' = DOMAIN live \cup {id}
      /\ live'[id] = kept
      /\ \A h \in DOMAIN live : h # id => live'[h] = live[h]
  BY <1>1 DEF AllocateFrom
<1>5. /\ arena' = arena /\ next_id' = id /\ result' = "ok"
      /\ live_count' = live_count + 1 /\ live_bytes' = live_bytes + Granted(o)
      /\ requested' = requested + req.size /\ granted' = granted + Granted(o)
      /\ splits' = splits + (b.order - o) /\ freed' = freed /\ merges' = merges
  BY <1>1 DEF AllocateFrom
<1>6. TypeOK /\ NoOverlap /\ Aligned /\ HeaderAgrees
  BY DEF IInv
<1> HIDE DEF kept, cut, id, o
<1>7. id \notin DOMAIN live /\ id \in 1..MaxIds /\ id \in Nat
  BY <1>2, <1>6, RequestAssumption DEF TypeOK, id
<1>8. /\ \A h \in DOMAIN live : live'[h] = live[h] /\ live[h] \in Block
      /\ free \subseteq Block
      /\ \A c \in free : c # b => Separate(c, b) /\ Separate(b, c)
      /\ \A h \in DOMAIN live : Separate(b, live[h]) /\ Separate(live[h], b)
  BY <1>4, <1>6, <1>7, SeparateSym DEF TypeOK, NoOverlap
<1>9. \A c \in Block : Inside(c, b) =>
        /\ \A d \in free : d # b => Separate(c, d) /\ Separate(d, c)
        /\ \A h \in DOMAIN live : Separate(c, live[h]) /\ Separate(live[h], c)
  BY <1>2, <1>8, SeparateInside
<1>10. TypeOK'
  <2>1. /\ b.off \in Offset /\ \A c \in cut : c.off \in Offset /\ c.order \in Order
    BY <1>2, <1>3 DEF Block
  <2>2. free' \subseteq Block
    BY <1>3, <1>4, <1>6 DEF TypeOK
  <2>3. DOMAIN hdr' \subseteq Offset
    BY <2>1, <1>4, <1>6 DEF TypeOK
  <2>4. \A x \in DOMAIN hdr' : hdr'[x] \in [magic : {"free", "busy"}, order : Order]
    <3>1. /\ Header("busy", o) \in [magic : {"free", "busy"}, order : Order]
          /\ \A c \in cut : Header("free", c.order) \in [magic : {"free", "busy"}, order : Order]
      BY <2>1, <1>2 DEF Header
    <3>2. QED
      BY <3>1, <1>4, <1>6 DEF TypeOK
  <2>5. next_id' \in 0..MaxIds /\ DOMAIN live' \subseteq 1..next_id'
    BY <1>4, <1>5, <1>6, <1>7 DEF TypeOK, id
  <2>6. \A h \in DOMAIN live' : live'[h] \in Block /\ Size[live'[h].order] > HeaderSize
    <3>1. kept \in Block /\ Size[kept.order] > HeaderSize
      BY <1>2, <1>3 DEF kept
    <3>2. QED
      BY <3>1, <1>4, <1>6, <1>8 DEF TypeOK
  <2>7. Granted(o) \in Nat /\ b.order - o \in Nat /\ req.size \in Nat
    <3>1. Size[o] \in Nat /\ HeaderSize \in Nat /\ req \in [size : Nat, alignment : Nat]
      BY <1>2, SizeFacts, RequestAssumption
    <3>2. b.order \in Nat /\ o \in Nat /\ o <= b.order
      BY <1>2, BlockFacts, SizeFacts
    <3>3. QED
      BY <3>1, <3>2, <1>2 DEF Granted
  <2>8. QED
    BY <2>2, <2>3, <2>4, <2>5, <2>6, <2>7, <1>5, <1>6 DEF TypeOK, ErrorCode
<1>11. NoOverlap'
  <2>1. ASSUME NEW c \in free', NEW d \in free', c # d
        PROVE  Separate(c, d)
    BY <2>1, <1>3, <1>4, <1>6, <1>9 DEF NoOverlap
  <2>2. ASSUME NEW c \in free', NEW h \in DOMAIN live'
        PROVE  Separate(c, live'[h])
    BY <1>3, <1>4, <1>6, <1>8, <1>9 DEF NoOverlap
  <2>3. ASSUME NEW g \in DOMAIN live', NEW h \in DOMAIN live', g # h
        PROVE  Separate(live'[g], live'[h])
    BY <2>3, <1>3, <1>4, <1>6, <1>8, <1>9 DEF NoOverlap
  <2>4. QED
    BY <2>1, <2>2, <2>3 DEF NoOverlap, Separate
<1>12. Aligned'
  BY <1>3, <1>4, <1>6, <1>8 DEF Aligned, BlockAligned
<1>13. HeaderAgrees'
  <2>1. ASSUME NEW h \in DOMAIN live
        PROVE  live[h].off # b.off /\ \A c \in cut : c.off # live[h].off
    <3>1. \A c \in Block : Separate(c, live[h]) => c.off # live[h].off
      BY <1>8, BlockFacts, SizeFacts DEF Separate
    <3>2. QED
      BY <3>1, <1>2, <1>3, <1>8, <1>9
  <2>2. ASSUME NEW h \in DOMAIN live
        PROVE  /\ live'[h].off \in DOMAIN hdr'
               /\ hdr'[live'[h].off] = Header("busy", live'[h].order)
    BY <2>1, <1>4, <1>6, <1>8 DEF HeaderAgrees
  <2>3. /\ live'[id].off \in DOMAIN hdr'
        /\ hdr'[live'[id].off] = Header("busy", live'[id].order)
    BY <1>4 DEF kept
  <2>4. QED
    BY <2>2, <2>3, <1>4 DEF HeaderAgrees, Header
<1>14. QED
  BY <1>10, <1>11, <1>12, <1>13 DEF IInv

LEMMA FreeIInv ==
  ASSUME IInv, NEW h \in Handle, Free(h)
  PROVE  IInv'
<1>1. TypeOK /\ NoOverlap /\ Aligned /\ HeaderAgrees /\ h \in DOMAIN live
  BY DEF IInv, Free
<1> DEFINE b == live[h]
<1>2. b \in Block /\ BlockAligned(b)
  BY <1>1 DEF TypeOK, Aligned, BlockAligned
<1>3. hdr[b.off].order = b.order /\ b.off \in DOMAIN hdr
  <2>1. hdr[b.off] = Header("busy", b.order) /\ b.off \in DOMAIN hdr
    BY <1>1 DEF HeaderAgrees
  <2>2. QED
    BY <2>1 DEF Header
<1>4. PICK n \in b.order..MaxOrder : FreeUpTo(h, b.order, n)
  BY <1>3 DEF Free
<1> DEFINE gone == Absorbed(b.off, b.order, n)
           merged == [order |-> n, off |-> Base(n, b.off)]
<1>5. /\ gone \subseteq free
      /\ free' = (free \ gone) \cup {merged}
      /\ DOMAIN hdr' = DOMAIN hdr \cup {merged.off}
      /\ \A x \in DOMAIN hdr' :
           \/ \E o \in {n, b.order} : hdr'[x] = Header("free", o)
           \/ x \in DOMAIN hdr /\ hdr'[x] = hdr[x]
      /\ \A x \in DOMAIN hdr : x # merged.off /\ x # b.off => hdr'[x] = hdr[x]
      /\ DOMAIN live' = DOMAIN live \ {h}
      /\ \A g \in DOMAIN live' : live'[g] = live[g]
  BY <1>4 DEF FreeUpTo
<1>6. /\ arena' = arena /\ next_id' = next_id /\ result' = "ok"
      /\ freed' = freed + 1 /\ merges' = merges + (n - b.order)
      /\ live_count' = IF live_count > 0 THEN live_count - 1 ELSE live_count
      /\ live_bytes' = IF live_bytes >= Granted(b.order)
                       THEN live_bytes - Granted(b.order) ELSE live_bytes
      /\ requested' = requested /\ granted' = granted /\ splits' = splits
  BY <1>4 DEF FreeUpTo
<1>7. free \subseteq Block /\ gone \subseteq Block
  BY <1>1, <1>5 DEF TypeOK
<1>8. /\ merged \in Block /\ BlockAligned(merged) /\ Inside(b, merged)
      /\ \A d \in Block :
           Separate(b, d) /\ (\A a \in gone : Separate(a, d)) => Separate(merged, d)
  BY <1>2, <1>7, Climb
<1> HIDE DEF b, gone, merged
<1>9. \A d \in free \ gone : Separate(merged, d) /\ Separate(d, merged)
  <2>1. ASSUME NEW d \in free \ gone
        PROVE  Separate(b, d) /\ \A a \in gone : Separate(a, d)
    BY <1>1, <1>5, SeparateSym DEF NoOverlap, b
  <2>2. QED
    BY <2>1, <1>7, <1>8, SeparateSym
<1>10. \A g \in DOMAIN live' : /\ live[g] \in Block
                              /\ Separate(merged, live[g]) /\ Separate(live[g], merged)
  <2>1. ASSUME NEW g \in DOMAIN live'
        PROVE  live[g] \in Block /\ Separate(b, live[g]) /\ \A a \in gone : Separate(a, live[g])
    BY <1>1, <1>5 DEF NoOverlap, TypeOK, b
  <2>2. QED
    BY <2>1, <1>8, SeparateSym
<1>11. TypeOK'
  <2>1. free' \subseteq Block
    BY <1>5, <1>7, <1>8
  <2>2. DOMAIN hdr' \subseteq Offset
    BY <1>1, <1>5, <1>8 DEF TypeOK, Block
  <2>3. n \in Order /\ b.order \in Order /\ n \in Nat /\ b.order \in Nat /\ b.order <= n
    BY <1>2, BlockFacts, SizeFacts DEF Order, b
  <2>4. \A x \in DOMAIN hdr' : hdr'[x] \in [magic : {"free", "busy"}, order : Order]
    <3>1. \A o \in Order : Header("free", o) \in [magic : {"free", "busy"}, order : Order]
      BY DEF Header
    <3>2. QED
      BY <3>1, <2>3, <1>1, <1>5 DEF TypeOK
  <2>5. \A g \in DOMAIN live' : live'[g] \in Block /\ Size[live'[g].order] > HeaderSize
    BY <1>1, <1>5, <1>10 DEF TypeOK
  <2>6. DOMAIN live' \subseteq 1..next_id'
    BY <1>1, <1>5, <1>6 DEF TypeOK
  <2>7. /\ freed' \in Nat /\ merges' \in Nat /\ live_count' \in Nat /\ live_bytes' \in Nat
    <3>1. Granted(b.order) \in Int
      BY <2>3, SizeFacts, RequestAssumption DEF Granted
    <3>2. QED
      BY <3>1, <2>3, <1>1, <1>6 DEF TypeOK
  <2>8. QED
    BY <2>1, <2>2, <2>4, <2>5, <2>6, <2>7, <1>1, <1>6 DEF TypeOK, ErrorCode
<1>12. NoOverlap'
  <2>1. ASSUME NEW c \in free', NEW d \in free', c # d
        PROVE  Separate(c, d)
    BY <2>1, <1>1, <1>5, <1>9 DEF NoOverlap
  <2>2. ASSUME NEW c \in free', NEW g \in DOMAIN live'
        PROVE  Separate(c, live'[g])
    BY <1>1, <1>5, <1>10 DEF NoOverlap
  <2>3. ASSUME NEW f \in DOMAIN live', NEW g \in DOMAIN live', f # g
        PROVE  Separate(live'[f], live'[g])
    BY <2>3, <1>1, <1>5 DEF NoOverlap
  <2>4. QED
    BY <2>1, <2>2, <2>3 DEF NoOverlap, Separate
<1>13. Aligned'
  BY <1>1, <1>5, <1>8 DEF Aligned, BlockAligned
<1>14. HeaderAgrees'
  <2>1. ASSUME NEW g \in DOMAIN live'
        PROVE  live[g].off # merged.off /\ live[g].off # b.off
    <3>1. /\ live[g] \in Block /\ Separate(merged, live[g]) /\ Separate(b, live[g])
      BY <1>1, <1>5, <1>10 DEF NoOverlap, b
    <3>2. \A c, d \in Block : Separate(c, d) => d.off # c.off
      BY BlockFacts, SizeFacts DEF Separate
    <3>3. QED
      BY <3>1, <3>2, <1>2, <1>8
  <2>2. QED
    BY <2>1, <1>1, <1>5 DEF HeaderAgrees, Header
<1>15. QED
  BY <1>11, <1>12, <1>13, <1>14 DEF IInv

LEMMA ResetIInv ==
  ASSUME IInv, Reset
  PROVE  IInv'
<1>1. TypeOK
  BY DEF IInv
<1>2. Root \in Block /\ Root.order = MaxOrder /\ Root.off = 0
  BY SizeFacts, BlockIntro DEF Root, ArenaSize
<1>3. 0 % Size[MaxOrder] = 0
  <2>1. Size[MaxOrder] \in Nat /\ Size[MaxOrder] > 0
    BY SizeFacts
  <2>2. (Size[MaxOrder] * 0 + 0) % Size[MaxOrder] = 0
    BY <2>1, DivModUnique
  <2>3. QED
    BY <2>1, <2>2
<1>4. MaxOrder \in Order /\ 0 \in Offset
  BY SizeFacts DEF Offset
<1>5. /\ DOMAIN hdr' \subseteq Offset
      /\ \A x \in DOMAIN hdr' : hdr'[x] \in [magic : {"free", "busy"}, order : Order]
  <2>1. Header("free", MaxOrder) \in [magic : {"free", "busy"}, order : Order]
    BY <1>4 DEF Header
  <2>2. CASE arena
    BY <2>1, <2>2, <1>1, <1>4 DEF Reset, TypeOK
  <2>3. CASE ~ arena
    BY <2>3, <1>1 DEF Reset, TypeOK
  <2>4. QED
    BY <2>2, <2>3
<1>6. TypeOK'
  BY <1>1, <1>2, <1>5 DEF Reset, TypeOK, Empty, ErrorCode, counters
<1>7. NoOverlap'
  BY DEF Reset, NoOverlap, Empty
<1>8. Aligned'
  BY <1>2, <1>3 DEF Reset, Aligned, Empty
<1>9. HeaderAgrees'
  BY DEF Reset, HeaderAgrees, Empty
<1>10. QED
  BY <1>6, <1>7, <1>8, <1>9 DEF IInv

LEMMA ShutdownIInv ==
  ASSUME IInv, Shutdown
  PROVE  IInv'
<1>1. TypeOK'
  BY DEF IInv, Shutdown, TypeOK, Empty, ErrorCode, counters
<1>2. NoOverlap' /\ Aligned' /\ HeaderAgrees'
  BY DEF Shutdown, NoOverlap, Aligned, HeaderAgrees, Empty
<1>3. QED
  BY <1>1, <1>2 DEF IInv

(* Calls that fail change nothing but the reported error.                  *)
LEMMA FailureIInv ==
  ASSUME IInv,
         UNCHANGED <<arena, free, hdr, live, next_id, live_count, live_bytes, counters>>,
         result' \in ErrorCode
  PROVE  IInv'
<1>1. TypeOK'
  BY DEF IInv, TypeOK, counters
<1>2. NoOverlap' /\ Aligned' /\ HeaderAgrees'
  BY DEF IInv, NoOverlap, Aligned, HeaderAgrees
<1>3. QED
  BY <1>1, <1>2 DEF IInv

LEMMA NextIInv == IInv /\ [Next]_vars => IInv'
<1> SUFFICES ASSUME IInv, [Next]_vars
             PROVE  IInv'
  OBVIOUS
<1>1. ASSUME NEW req \in Request, AllocateRejected(req)
      PROVE  IInv'
  BY <1>1, FailureIInv DEF AllocateRejected, Admission, ErrorCode
<1>2. ASSUME NEW req \in Request, AllocateExhausted(req)
      PROVE  IInv'
  BY <1>2, FailureIInv DEF AllocateExhausted, ErrorCode
<1>3. ASSUME NEW req \in Request, Allocate(req)
      PROVE  IInv'
  BY <1>3, AllocateIInv
<1>4. ASSUME NEW h \in Handle, FreeUnknown(h)
      PROVE  IInv'
  BY <1>4, FailureIInv DEF FreeUnknown, ErrorCode
<1>5. ASSUME NEW h \in Handle, Free(h)
      PROVE  IInv'
  BY <1>5, FreeIInv
<1>6. CASE Reset
  BY <1>6, ResetIInv
<1>7. CASE Shutdown
  BY <1>7, ShutdownIInv
<1>8. CASE UNCHANGED vars
  BY <1>8 DEF vars, counters, IInv, TypeOK, NoOverlap, Aligned, HeaderAgrees
<1>9. QED
  BY <1>1, <1>2, <1>3, <1>4, <1>5, <1>6, <1>7, <1>8 DEF Next

(* The strengthened invariant holds in every reachable state.              *)
THEOREM BuddyInvariant == Spec => []IInv
<1>1. QED
  BY InitIInv, NextIInv, PTL DEF Spec

(* Blocks stay inside the arena, whatever is split, coalesced and reset.   *)
THEOREM BuddyTypeOK == Spec => []TypeOK
<1>1. IInv => TypeOK
  BY DEF IInv
<1>2. QED
  BY <1>1, BuddyInvariant, PTL

(* No byte is handed out twice, and none is both free and handed out.      *)
THEOREM BuddyNoOverlap == Spec => []NoOverlap
<1>1. IInv => NoOverlap
  BY DEF IInv
<1>2. QED
  BY <1>1, BuddyInvariant, PTL

(* Every block starts at a multiple of its size.                           *)
THEOREM BuddyAligned == Spec => []Aligned
<1>1. IInv => Aligned
  BY DEF IInv
<1>2. QED
  BY <1>1, BuddyInvariant, PTL

(* The header free() trusts is the one allocate() wrote: the double_free   *)
(* branch is unreachable.                                                  *)
THEOREM BuddyHeaderAgrees == Spec => []HeaderAgrees
<1>1. IInv => HeaderAgrees
  BY DEF IInv
<1>2. QED
  BY <1>1, BuddyInvariant, PTL

-----------------------------------------------------------------------------
(* The strategy implements the allocator contract.                         *)

Payloads == [h \in DOMAIN live |-> PayloadExtent(live[h])]

LEMMA AllocateContract ==
  ASSUME IInv, IInv', NEW req \in Request, Allocate(req)
  PROVE  Contract!Next
<1>1. PICK b \in free : FirstFit(b, Candidates(req)) /\ AllocateFrom(req, b)
  BY DEF Allocate
<1> DEFINE o == OrderFor(Need(req))
           kept == [order |-> o, off |-> b.off]
           id == next_id + 1
           e == PayloadExtent(kept)
<1>2. /\ next_id' = id
      /\ live' = [h \in DOMAIN live \cup {id} |-> IF h = id THEN kept ELSE live[h]]
  BY <1>1 DEF AllocateFrom
<1> HIDE DEF kept, o
<1>3. next_id \in Nat /\ id \in Handle /\ DOMAIN live \subseteq 1..next_id
  BY RequestAssumption DEF Allocate, IInv, TypeOK, Handle
<1>4. id \notin 1..next_id /\ 1..next_id' = (1..next_id) \cup {id}
  BY <1>2, <1>3
<1>5. kept \in Block /\ Size[kept.order] > HeaderSize /\ kept.off % Size[kept.order] = 0
  <2>1. live'[id] = kept /\ id \in DOMAIN live'
    BY <1>2
  <2>2. QED
    BY <2>1 DEF IInv, TypeOK, Aligned
<1>6. e \in Contract!Extent
  <2>1. Size[kept.order] \in Nat /\ HeaderSize \in Nat /\ kept.off \in Nat
    BY <1>5, BlockFacts, SizeFacts, RequestAssumption
  <2>2. QED
    BY <2>1, <1>5 DEF Contract!Extent, PayloadExtent, Granted
<1>7. \A h \in DOMAIN live : Contract!Apart(e, PayloadExtent(live[h]))
  <2>1. SUFFICES ASSUME NEW h \in DOMAIN live
                 PROVE  Contract!Apart(e, PayloadExtent(live[h]))
    OBVIOUS
  <2>2. h # id
    BY <1>3
  <2>3. live'[h] = live[h] /\ live'[id] = kept /\ h \in DOMAIN live' /\ id \in DOMAIN live'
    BY <1>2, <2>2
  <2>4. Separate(kept, live[h])
    <3>1. Separate(live'[id], live'[h])
      BY <2>2, <2>3 DEF IInv, NoOverlap, Separate
    <3>2. QED
      BY <3>1, <2>3
  <2>5. live[h] \in Block
    BY DEF IInv, TypeOK
  <2>6. /\ Size[kept.order] \in Nat /\ Size[live[h].order] \in Nat /\ HeaderSize \in Nat
        /\ kept.off \in Nat /\ live[h].off \in Nat
    BY <1>5, <2>5, BlockFacts, SizeFacts, RequestAssumption
  <2>7. QED
    BY <2>4, <2>6 DEF Contract!Apart, PayloadExtent, Granted, Separate
<1>8. /\ DOMAIN Payloads' = DOMAIN Payloads \cup {id}
      /\ Payloads'[id] = e
      /\ \A h \in DOMAIN Payloads : Payloads'[h] = Payloads[h]
  <2>1. \A h \in DOMAIN live : h # id
    BY <1>3
  <2>2. QED
    BY <2>1, <1>2 DEF Payloads
<1>9. Contract!Allocate(id)
  BY <1>4, <1>6, <1>7, <1>8, <1>2 DEF Contract!Allocate, Payloads
<1>10. QED
  BY <1>3, <1>9 DEF Contract!Next

LEMMA FreeContract ==
  ASSUME IInv, NEW h \in Handle, Free(h)
  PROVE  Contract!Next
<1>1. h \in DOMAIN live
  BY DEF Free
<1>2. next_id' = next_id /\ live' = [g \in DOMAIN live \ {h} |-> live[g]]
  BY DEF Free, FreeUpTo
<1>3. Payloads' = [g \in DOMAIN Payloads \ {h} |-> Payloads[g]]
  BY <1>2 DEF Payloads
<1>4. Contract!Free(h)
  BY <1>1, <1>2, <1>3 DEF Contract!Free, Payloads
<1>5. QED
  BY <1>1, <1>4 DEF Contract!Next, Payloads

LEMMA DiscardContract ==
  ASSUME live' = Empty, next_id' = next_id
  PROVE  Contract!Next
<1>1. Payloads' = [h \in {} |-> {}]
  BY DEF Payloads, Empty
<1>2. Contract!Discard
  BY <1>1 DEF Contract!Discard, Payloads
<1>3. QED
  BY <1>2 DEF Contract!Next

(* Every step of the strategy is a step of the contract or changes nothing *)
(* the contract speaks of.                                                 *)
LEMMA StepContract == IInv /\ IInv' /\ [Next]_vars => [Contract!Next]_(Contract!cvars)
<1> SUFFICES ASSUME IInv, IInv', [Next]_vars
             PROVE  [Contract!Next]_(Contract!cvars)
  OBVIOUS
<1>1. ASSUME UNCHANGED <<live, next_id>>
      PROVE  UNCHANGED Contract!cvars
  BY <1>1 DEF Contract!cvars
<1>2. ASSUME NEW req \in Request, AllocateRejected(req) \/ AllocateExhausted(req)
      PROVE  UNCHANGED <<live, next_id>>
  BY <1>2 DEF AllocateRejected, AllocateExhausted
<1>3. ASSUME NEW req \in Request, Allocate(req)
      PROVE  Contract!Next
  BY <1>3, AllocateContract
<1>4. ASSUME NEW h \in Handle, FreeUnknown(h)
      PROVE  UNCHANGED <<live, next_id>>
  BY <1>4 DEF FreeUnknown
<1>5. ASSUME NEW h \in Handle, Free(h)
      PROVE  Contract!Next
  BY <1>5, FreeContract
<1>6. CASE Reset \/ Shutdown
  BY <1>6, DiscardContract DEF Reset, Shutdown
<1>7. CASE UNCHANGED vars
  BY <1>1, <1>7 DEF vars
<1>8. QED
  BY <1>1, <1>2, <1>3, <1>4, <1>5, <1>6, <1>7 DEF Next

(* Handles are fresh, payloads disjoint and immovable: BuddyAllocator      *)
(* implements AllocatorContract.                                           *)
THEOREM BuddyImplementsContract == Spec => ImplementsContract
<1>1. Init => Contract!Init
  <2> SUFFICES ASSUME Init
               PROVE  Contract!Init
    OBVIOUS
  <2>2. next_id = 0 /\ live = Empty
    BY DEF Init
  <2>3. 1..next_id = {}
    BY <2>2
  <2>4. DOMAIN live = {}
    BY <2>2 DEF Empty
  <2>5. Payloads = [h \in {} |-> {}]
    BY <2>4 DEF Payloads
  <2>6. QED
    BY <2>3, <2>5 DEF Contract!Init, Payloads
<1>2. QED
  BY <1>1, StepContract, BuddyInvariant, PTL DEF Spec, ImplementsContract, Contract!Spec

-----------------------------------------------------------------------------
(* What eager coalescing buys (AdmitsWhatFits), and what the counters of   *)
(* statistics() say (Accounting).                                          *)
(*                                                                         *)
(* The first rests on Coalesced: the blocks cover the arena, and no block  *)
(* and its buddy are both free.  If no live block touches an aligned       *)
(* region, free blocks cover it; the smallest of them would have a buddy   *)
(* inside the region, covered by a free block no smaller, which is the     *)
(* buddy itself or overlaps.  The second rests on Gauges and Counters,     *)
(* where each pass of the split and coalesce loops is one block more or    *)
(* one less.                                                               *)

(* Aligned blocks.                                                         *)

(* Two aligned blocks are apart or one holds the other.                    *)
LEMMA Nested ==
  ASSUME NEW b \in Block, BlockAligned(b), NEW c \in Block, BlockAligned(c),
         b.order <= c.order
  PROVE  Inside(b, c) \/ Separate(b, c)
<1> DEFINE s == Size[b.order]
           t == Size[c.order]
           e == c.off + t
<1>1. /\ b.order \in Order /\ c.order \in Order /\ b.off \in Nat /\ c.off \in Nat
      /\ b.off % s = 0 /\ c.off % t = 0
  BY BlockFacts DEF BlockAligned
<1>2. s \in Nat /\ s > 0 /\ t \in Nat /\ t > 0 /\ b.order \in 0..c.order
  BY <1>1, SizeFacts DEF Order
<1>3. e % t = 0 /\ e \in Nat
  <2> HIDE DEF t
  <2>1. c.off + t \in Nat
    BY <1>1, <1>2
  <2>2. (c.off + t) % t = 0
    BY <1>1, <1>2, MultipleStep
  <2>3. QED
    BY <2>1, <2>2
<1>4. c.off % s = 0 /\ e % s = 0
  BY <1>1, <1>2, <1>3, AlignedBelow
<1>5. CASE b.off < c.off
  <2>1. b.off + s <= c.off
    BY <1>1, <1>2, <1>4, <1>5, MultiplesApart
  <2>2. QED
    BY <2>1 DEF Separate
<1>6. CASE e <= b.off
  BY <1>6 DEF Separate
<1>7. CASE c.off <= b.off /\ b.off < e
  <2>1. b.off + s <= e
    <3> HIDE DEF e
    <3>1. QED
      BY <1>1, <1>2, <1>3, <1>4, <1>7, MultiplesApart
  <2>2. QED
    BY <1>7, <2>1 DEF Inside
<1>8. QED
  BY <1>1, <1>3, <1>5, <1>6, <1>7

(* The buddy of an aligned block: they are the two halves of one aligned   *)
(* block of the next order, and each is the other's buddy.                 *)
LEMMA BuddyPair ==
  ASSUME NEW k \in Order, k < MaxOrder, NEW off \in Nat, off % Size[k] = 0
  PROVE  /\ Base(k, off) = off
         /\ \/ off % Size[k + 1] = 0 /\ BuddyOf(k, off) = [order |-> k, off |-> off + Size[k]]
            \/ /\ off % Size[k + 1] = Size[k] /\ off >= Size[k]
               /\ BuddyOf(k, off) = [order |-> k, off |-> off - Size[k]]
         /\ BuddyOf(k, off).off \in Nat
         /\ BuddyOf(k, off).off % Size[k] = 0
         /\ BuddyOf(k, off).off # off
         /\ BuddyOf(k, BuddyOf(k, off).off) = [order |-> k, off |-> off]
<1> DEFINE s == Size[k]
<1>1. s \in Nat /\ s > 0 /\ Size[k + 1] = 2 * s /\ k + 1 \in Order
  BY SizeFacts
<1>2. \A x \in Nat : x % s = 0 => Base(k, x) = x
  BY DEF Base
<1>3. \A x \in Nat : x % s = 0 =>
        BuddyOf(k, x) = [order |-> k, off |-> IF x % (2 * s) = 0 THEN x + s ELSE x - s]
  BY <1>1, <1>2 DEF BuddyOf
<1>4. off % s = 0
  OBVIOUS
<1> HIDE DEF s
<1>5. \/ /\ off % (2 * s) = 0
         /\ off + s \in Nat /\ (off + s) % s = 0 /\ (off + s) % (2 * s) = s
      \/ /\ off % (2 * s) = s /\ off >= s
         /\ off - s \in Nat /\ (off - s) % s = 0 /\ (off - s) % (2 * s) = 0
  BY <1>1, <1>4, Halves
<1>6. CASE off % (2 * s) = 0
  <2>1. BuddyOf(k, off) = [order |-> k, off |-> off + s]
    BY <1>3, <1>4, <1>6
  <2>2. off + s \in Nat /\ (off + s) % s = 0 /\ (off + s) % (2 * s) = s
    BY <1>1, <1>5, <1>6
  <2>3. BuddyOf(k, off + s) = [order |-> k, off |-> off + s - s]
    BY <1>1, <1>3, <2>2
  <2>4. off + s - s = off /\ off + s # off
    BY <1>1
  <2>5. QED
    BY <1>1, <1>2, <1>4, <1>6, <2>1, <2>2, <2>3, <2>4 DEF s
<1>7. CASE off % (2 * s) = s
  <2>1. BuddyOf(k, off) = [order |-> k, off |-> off - s]
    BY <1>1, <1>3, <1>4, <1>7
  <2>2. off >= s /\ off - s \in Nat /\ (off - s) % s = 0 /\ (off - s) % (2 * s) = 0
    BY <1>1, <1>5, <1>7
  <2>3. BuddyOf(k, off - s) = [order |-> k, off |-> off - s + s]
    BY <1>1, <1>3, <2>2
  <2>4. off - s + s = off /\ off - s # off
    BY <1>1
  <2>5. QED
    BY <1>1, <1>2, <1>4, <1>7, <2>1, <2>2, <2>3, <2>4 DEF s
<1>8. QED
  BY <1>5, <1>6, <1>7

(* The block of which an aligned block and its buddy are the halves.       *)
Parent(k, off) == [order |-> k + 1, off |-> Base(k + 1, off)]

LEMMA ParentHolds ==
  ASSUME NEW b \in Block, BlockAligned(b), b.order < MaxOrder
  PROVE  LET p == Parent(b.order, b.off)
             c == BuddyOf(b.order, b.off)
         IN /\ p.order = b.order + 1 /\ p.order \in Order
            /\ p.off \in Nat /\ p.off % Size[p.order] = 0
            /\ Size[p.order] = 2 * Size[b.order]
            /\ p.off <= b.off /\ b.off + Size[b.order] <= p.off + Size[p.order]
            /\ p.off <= c.off /\ c.off + Size[b.order] <= p.off + Size[p.order]
            /\ c.order = b.order /\ c.off \in Nat /\ c.off % Size[b.order] = 0
            /\ c.off # b.off
            /\ BuddyOf(b.order, c.off) = b
<1> DEFINE k == b.order
           off == b.off
           c == BuddyOf(k, off)
           s == Size[k]
<1>1. /\ k \in Order /\ off \in Nat /\ off % Size[k] = 0 /\ k < MaxOrder
      /\ b = [order |-> k, off |-> off]
  BY BlockFacts DEF BlockAligned
<1>2. s \in Nat /\ s > 0 /\ Size[k + 1] = 2 * s /\ k + 1 \in Order
  BY <1>1, SizeFacts
<1> HIDE DEF k, off
<1>3. /\ Base(k, off) = off
      /\ c.off \in Nat /\ c.off % Size[k] = 0 /\ c.off # off
      /\ BuddyOf(k, c.off) = [order |-> k, off |-> off]
  BY <1>1, BuddyPair
<1>4. /\ Base(k + 1, off) \in Nat /\ c.order = k
      /\ \/ Base(k + 1, off) = off /\ c.off = off + s
         \/ Base(k + 1, off) = off - s /\ c.off = Base(k + 1, off)
  <2>1. /\ Base(k, off) \in Nat /\ Base(k + 1, off) \in Nat
        /\ c.order = k
        /\ \/ /\ Base(k + 1, off) = Base(k, off)
              /\ c.off = Base(k, off) + Size[k]
           \/ /\ Base(k + 1, off) = Base(k, off) - Size[k]
              /\ c.off = Base(k + 1, off)
    BY <1>1, ClimbStep
  <2> HIDE DEF c
  <2>2. QED
    BY <1>3, <2>1
<1>5. Base(k + 1, off) % Size[k + 1] = 0
  <2>1. Size[k + 1] \in Nat /\ Size[k + 1] > 0
    BY <1>2
  <2>2. QED
    BY <1>1, <2>1, FloorMultiple DEF Base
<1> HIDE DEF c, s
<1>6. /\ Base(k + 1, off) <= off /\ off + s <= Base(k + 1, off) + 2 * s
      /\ Base(k + 1, off) <= c.off /\ c.off + s <= Base(k + 1, off) + 2 * s
  BY <1>1, <1>2, <1>3, <1>4
<1>7. QED
  BY <1>1, <1>2, <1>3, <1>4, <1>5, <1>6 DEF Parent, c, k, off, s

-----------------------------------------------------------------------------
(* Eager coalescing.                                                       *)

Covers(b, x) == b.off <= x /\ x < b.off + Size[b.order]

(* The blocks cover the arena, and no block and its buddy are both free.   *)
Covered == Blocks # {} => \A x \in Offset : \E b \in Blocks : Covers(b, x)

NoFreePair == \A b \in free : b.order < MaxOrder => BuddyOf(b.order, b.off) \notin free

LEMMA CoversInside ==
  ASSUME NEW b \in Block, NEW c \in Block, NEW x \in Nat, Inside(b, c), Covers(b, x)
  PROVE  Covers(c, x)
<1>1. /\ Size[b.order] \in Nat /\ Size[c.order] \in Nat
      /\ b.off \in Nat /\ c.off \in Nat
  BY BlockFacts, SizeFacts
<1>2. QED
  BY <1>1 DEF Covers, Inside

LEMMA CoversApart ==
  ASSUME NEW b \in Block, NEW c \in Block, NEW x \in Nat, Covers(b, x), Covers(c, x)
  PROVE  ~ Separate(b, c)
<1>1. /\ Size[b.order] \in Nat /\ Size[c.order] \in Nat
      /\ b.off \in Nat /\ c.off \in Nat
  BY BlockFacts, SizeFacts
<1>2. QED
  BY <1>1 DEF Covers, Separate

(* Halving keeps every byte in a piece.                                    *)
LEMMA SplitCovers ==
  ASSUME NEW b \in Block, NEW o \in 0..b.order, NEW x \in Nat, Covers(b, x)
  PROVE  \/ Covers([order |-> o, off |-> b.off], x)
         \/ \E c \in UpperHalves(b.off, o, b.order) : Covers(c, x)
<1>1. /\ b.order \in Order /\ b.order \in Nat /\ o \in Nat /\ o <= b.order
      /\ b.off \in Nat /\ b.off <= x /\ x < b.off + Size[b.order]
  BY BlockFacts, SizeFacts DEF Covers
<1>2. \A k \in o..b.order : k \in Order /\ Size[k] \in Nat
  BY <1>1, SizeFacts DEF Order
<1> DEFINE T == {k \in o..b.order : x < b.off + Size[k]}
<1>3. T \in SUBSET Nat /\ b.order \in T
  BY <1>1
<1>4. PICK m \in T : \A y \in T : m <= y
  BY <1>3, NatMin
<1>5. m \in Nat /\ o <= m /\ m <= b.order /\ x < b.off + Size[m]
  BY <1>1
<1>6. CASE m = o
  BY <1>1, <1>5, <1>6 DEF Covers
<1>7. CASE m # o
  <2> DEFINE k == m - 1
  <2>1. k \in o..(b.order - 1) /\ k \in o..b.order /\ ~ (m <= k) /\ k + 1 = m
    BY <1>1, <1>5, <1>7
  <2>2. k \notin T
    BY <1>4, <2>1
  <2>3. ~ (x < b.off + Size[k])
    BY <2>1, <2>2
  <2>4. Size[m] = 2 * Size[k] /\ Size[k] \in Nat /\ Size[m] \in Nat
    <3>1. k \in Order /\ k < MaxOrder /\ m \in Order
      BY <1>1, <1>2, <2>1, SizeFacts DEF Order
    <3>2. QED
      BY <3>1, <2>1, SizeFacts
  <2> HIDE DEF k
  <2>5. b.off + Size[k] <= x /\ x < b.off + Size[k] + Size[k]
    BY <1>1, <1>5, <2>3, <2>4
  <2>6. [order |-> k, off |-> b.off + Size[k]] \in UpperHalves(b.off, o, b.order)
    BY <2>1 DEF UpperHalves
  <2>7. Covers([order |-> k, off |-> b.off + Size[k]], x)
    BY <2>5 DEF Covers
  <2>8. QED
    BY <2>6, <2>7
<1>8. QED
  BY <1>6, <1>7

(* The blocks climbed through, and the buddies absorbed on the way, lie in *)
(* the block coalesce() ends with.                                         *)
LEMMA ClimbHolds ==
  ASSUME NEW o \in Order, NEW off \in Nat, NEW n \in o..MaxOrder
  PROVE  \A k \in o..(n - 1) :
           Inside(BuddyOf(k, off), [order |-> n, off |-> Base(n, off)])
<1> DEFINE At(k) == [order |-> k, off |-> Base(k, off)]
           T == {d \in 0..(n - o) : ~ Inside(At(n - d), At(n))}
<1>1. o \in Nat /\ n \in Nat /\ o <= n /\ n <= MaxOrder /\ MaxOrder \in Nat
  BY SizeFacts DEF Order
<1>2. ASSUME NEW k \in o..(n - 1)
      PROVE  /\ k \in Nat /\ k + 1 \in o..n
             /\ Inside(At(k), At(k + 1)) /\ Inside(BuddyOf(k, off), At(k + 1))
  <2>1. k \in Order /\ k < MaxOrder /\ k \in Nat /\ k + 1 \in o..n
    BY <1>1, SizeFacts DEF Order
  <2>2. Size[k] \in Nat /\ Size[k + 1] = 2 * Size[k]
    BY <2>1, SizeFacts
  <2>3. /\ Base(k, off) \in Nat /\ Base(k + 1, off) \in Nat
        /\ BuddyOf(k, off).order = k
        /\ \/ /\ Base(k + 1, off) = Base(k, off)
              /\ BuddyOf(k, off).off = Base(k, off) + Size[k]
           \/ /\ Base(k + 1, off) = Base(k, off) - Size[k]
              /\ BuddyOf(k, off).off = Base(k + 1, off)
    BY <2>1, ClimbStep
  <2>4. QED
    BY <2>1, <2>2, <2>3 DEF Inside
<1>3. T = {}
  <2>1. SUFFICES ASSUME T # {} PROVE FALSE
    OBVIOUS
  <2>2. T \in SUBSET Nat
    BY <1>1
  <2>3. PICK d \in T : \A y \in T : d <= y
    BY <2>1, <2>2, NatMin
  <2>4. Inside(At(n), At(n))
    <3>1. Base(n, off) \in Nat /\ Size[n] \in Nat
      <4>1. n \in Order
        BY <1>1 DEF Order
      <4>2. Size[n] \in Nat /\ Size[n] > 0
        BY <4>1, SizeFacts
      <4>3. QED
        BY <4>2, FloorMultiple DEF Base
    <3>2. QED
      BY <3>1 DEF Inside
  <2>5. d \in Nat /\ d \in 0..(n - o) /\ d # 0 /\ n - 0 = n
    BY <1>1, <2>4
  <2>6. d - 1 \in 0..(n - o) /\ ~ (d <= d - 1)
    BY <1>1, <2>5
  <2>7. Inside(At(n - (d - 1)), At(n))
    BY <2>3, <2>6
  <2> DEFINE k == n - d
  <2>8. k \in o..(n - 1) /\ n - (d - 1) = k + 1
    BY <1>1, <2>5
  <2>9. Inside(At(k), At(k + 1)) /\ Inside(At(k + 1), At(n))
    BY <1>2, <2>7, <2>8
  <2>10. \A j \in o..n : Base(j, off) \in Nat /\ Size[j] \in Nat
    <3> TAKE j \in o..n
    <3>1. j \in Order
      BY <1>1 DEF Order
    <3>2. Size[j] \in Nat /\ Size[j] > 0
      BY <3>1, SizeFacts
    <3>3. QED
      BY <3>2, FloorMultiple DEF Base
  <2>11. k \in o..n /\ k + 1 \in o..n /\ n \in o..n
    BY <1>1, <2>8
  <2> HIDE DEF k
  <2>12. Inside(At(k), At(n))
    BY <2>9, <2>10, <2>11 DEF Inside
  <2>13. QED
    BY <2>3, <2>12 DEF k
<1>4. \A k \in o..n : Inside(At(k), At(n))
  <2> TAKE k \in o..n
  <2>1. n - k \in 0..(n - o) /\ n - (n - k) = k
    BY <1>1
  <2>2. QED
    BY <1>3, <2>1
<1>5. ASSUME NEW k \in o..(n - 1)
      PROVE  Inside(BuddyOf(k, off), At(n))
  <2>1. /\ k \in Nat /\ k + 1 \in o..n
        /\ Inside(BuddyOf(k, off), At(k + 1)) /\ Inside(At(k + 1), At(n))
    BY <1>2, <1>4
  <2>2. \A j \in o..n : Base(j, off) \in Nat /\ Size[j] \in Nat
    <3> TAKE j \in o..n
    <3>1. j \in Order
      BY <1>1 DEF Order
    <3>2. Size[j] \in Nat /\ Size[j] > 0
      BY <3>1, SizeFacts
    <3>3. QED
      BY <3>2, FloorMultiple DEF Base
  <2>3. BuddyOf(k, off).off \in Nat /\ BuddyOf(k, off).order = k
    <3>1. k \in Order /\ k < MaxOrder
      BY <1>1, SizeFacts DEF Order
    <3>2. Size[k] \in Nat
      BY <3>1, SizeFacts
    <3>3. QED
      BY <3>1, <3>2, ClimbStep
  <2>4. k \in o..n /\ n \in o..n
    BY <1>1
  <2>5. QED
    BY <2>1, <2>2, <2>3, <2>4 DEF Inside
<1>6. QED
  BY <1>5

(* What an allocation and a free change, in the words of the lemmas above. *)
LEMMA AllocateParts ==
  ASSUME IInv, NEW req \in Request, Allocate(req)
  PROVE  \E b \in free :
           LET o == OrderFor(Need(req))
               kept == [order |-> o, off |-> b.off]
               cut == UpperHalves(b.off, o, b.order)
               id == next_id + 1
           IN /\ b \in Block /\ BlockAligned(b) /\ o \in Order /\ o \in 0..b.order
              /\ Size[o] > HeaderSize /\ Size[o] >= HeaderSize + req.size
              /\ id \notin DOMAIN live
              /\ free' = (free \ {b}) \cup cut
              /\ DOMAIN live' = DOMAIN live \cup {id}
              /\ live'[id] = kept
              /\ \A h \in DOMAIN live : live'[h] = live[h]
              /\ Blocks' = ((free \ {b}) \cup cut \cup {kept}) \cup {live[h] : h \in DOMAIN live}
              /\ live_count' = live_count + 1 /\ live_bytes' = live_bytes + Granted(o)
              /\ requested' = requested + req.size /\ granted' = granted + Granted(o)
              /\ splits' = splits + (b.order - o) /\ merges' = merges
<1>1. PICK b \in free : FirstFit(b, Candidates(req)) /\ AllocateFrom(req, b)
  BY DEF Allocate
<1> DEFINE o == OrderFor(Need(req))
           kept == [order |-> o, off |-> b.off]
           cut == UpperHalves(b.off, o, b.order)
           id == next_id + 1
<1>2. /\ b \in Block /\ BlockAligned(b) /\ o \in Order /\ o \in 0..b.order
      /\ Size[o] > HeaderSize /\ Size[o] >= HeaderSize + req.size
  BY <1>1, AllocateShape DEF Allocate
<1>3. id \notin DOMAIN live
  BY RequestAssumption DEF IInv, TypeOK
<1>4. /\ free' = (free \ {b}) \cup cut
      /\ live' = [h \in DOMAIN live \cup {id} |-> IF h = id THEN kept ELSE live[h]]
      /\ live_count' = live_count + 1 /\ live_bytes' = live_bytes + Granted(o)
      /\ requested' = requested + req.size /\ granted' = granted + Granted(o)
      /\ splits' = splits + (b.order - o) /\ merges' = merges
  BY <1>1 DEF AllocateFrom
<1> HIDE DEF o, kept, cut, id
<1>5. /\ DOMAIN live' = DOMAIN live \cup {id}
      /\ live'[id] = kept
      /\ \A h \in DOMAIN live : live'[h] = live[h]
  BY <1>3, <1>4
<1>6. {live'[h] : h \in DOMAIN live'} = {kept} \cup {live[h] : h \in DOMAIN live}
  BY <1>3, <1>5
<1>7. Blocks' = ((free \ {b}) \cup cut \cup {kept}) \cup {live[h] : h \in DOMAIN live}
  BY <1>4, <1>6 DEF Blocks
<1>8. QED
  BY <1>2, <1>3, <1>4, <1>5, <1>7 DEF o, kept, cut, id

LEMMA FreeParts ==
  ASSUME IInv, NEW h \in Handle, Free(h)
  PROVE  LET b == live[h]
         IN /\ h \in DOMAIN live /\ b \in Block /\ BlockAligned(b)
            /\ \E n \in b.order..MaxOrder :
                 LET gone == Absorbed(b.off, b.order, n)
                     merged == [order |-> n, off |-> Base(n, b.off)]
                 IN /\ gone \subseteq free
                    /\ n < MaxOrder => BuddyOf(n, b.off) \notin free
                    /\ merged \in Block /\ BlockAligned(merged) /\ Inside(b, merged)
                    /\ \A a \in gone : Inside(a, merged)
                    /\ free' = (free \ gone) \cup {merged}
                    /\ live' = [g \in DOMAIN live \ {h} |-> live[g]]
                    /\ Blocks' = ((free \ gone) \cup {merged})
                                   \cup {live[g] : g \in DOMAIN live \ {h}}
                    /\ live_count' = IF live_count > 0 THEN live_count - 1 ELSE live_count
                    /\ live_bytes' = IF live_bytes >= Granted(b.order)
                                     THEN live_bytes - Granted(b.order) ELSE live_bytes
                    /\ requested' = requested /\ granted' = granted
                    /\ splits' = splits /\ merges' = merges + (n - b.order)
<1>1. TypeOK /\ Aligned /\ HeaderAgrees /\ h \in DOMAIN live
  BY DEF IInv, Free
<1> DEFINE b == live[h]
<1>2. b \in Block /\ BlockAligned(b)
  BY <1>1 DEF TypeOK, Aligned, BlockAligned
<1>3. hdr[b.off].order = b.order
  <2>1. hdr[b.off] = Header("busy", b.order)
    BY <1>1 DEF HeaderAgrees
  <2>2. QED
    BY <2>1 DEF Header
<1>4. PICK n \in b.order..MaxOrder : FreeUpTo(h, b.order, n)
  BY <1>3 DEF Free
<1> DEFINE gone == Absorbed(b.off, b.order, n)
           merged == [order |-> n, off |-> Base(n, b.off)]
<1>5. /\ gone \subseteq free
      /\ n < MaxOrder => BuddyOf(n, b.off) \notin free
      /\ free' = (free \ gone) \cup {merged}
      /\ live' = [g \in DOMAIN live \ {h} |-> live[g]]
      /\ live_count' = IF live_count > 0 THEN live_count - 1 ELSE live_count
      /\ live_bytes' = IF live_bytes >= Granted(b.order)
                       THEN live_bytes - Granted(b.order) ELSE live_bytes
      /\ requested' = requested /\ granted' = granted
      /\ splits' = splits /\ merges' = merges + (n - b.order)
  BY <1>4 DEF FreeUpTo
<1>6. gone \subseteq Block
  BY <1>1, <1>5 DEF TypeOK
<1>7. merged \in Block /\ BlockAligned(merged) /\ Inside(b, merged)
  BY <1>2, <1>6, Climb
<1>8. \A a \in gone : Inside(a, merged)
  <2>1. b.order \in Order /\ b.off \in Nat
    BY <1>2, BlockFacts
  <2>2. \A k \in b.order..(n - 1) : Inside(BuddyOf(k, b.off), merged)
    BY <2>1, ClimbHolds
  <2> HIDE DEF merged, b
  <2>3. QED
    BY <2>2 DEF Absorbed
<1>9. Blocks' = ((free \ gone) \cup {merged}) \cup {live[g] : g \in DOMAIN live \ {h}}
  <2> HIDE DEF gone, merged, b
  <2>1. {live'[g] : g \in DOMAIN live'} = {live[g] : g \in DOMAIN live \ {h}}
    BY <1>5
  <2>2. QED
    BY <1>5, <2>1 DEF Blocks
<1>10. QED
  BY <1>1, <1>2, <1>5, <1>7, <1>8, <1>9

Coalesced == Covered /\ NoFreePair

LEMMA AllocateCoalesced ==
  ASSUME IInv, Coalesced, NEW req \in Request, Allocate(req)
  PROVE  Coalesced'
<1> DEFINE o == OrderFor(Need(req))
           id == next_id + 1
<1>1. PICK b \in free :
        LET kept == [order |-> o, off |-> b.off]
            cut == UpperHalves(b.off, o, b.order)
        IN /\ b \in Block /\ BlockAligned(b) /\ o \in Order /\ o \in 0..b.order
           /\ free' = (free \ {b}) \cup cut
           /\ Blocks' = ((free \ {b}) \cup cut \cup {kept}) \cup {live[h] : h \in DOMAIN live}
  BY AllocateParts
<1> DEFINE kept == [order |-> o, off |-> b.off]
           cut == UpperHalves(b.off, o, b.order)
<1> HIDE DEF o
<1>2. /\ kept \in Block /\ BlockAligned(kept) /\ Inside(kept, b)
      /\ \A c \in cut : /\ c \in Block /\ BlockAligned(c) /\ Inside(c, b)
                        /\ Separate(kept, c) /\ Separate(c, kept)
                        /\ c.off # b.off
      /\ \A c, d \in cut : c # d => Separate(c, d)
  BY <1>1, SplitPieces
<1>3. /\ b.order \in Order /\ b.off \in Nat /\ b.off % Size[b.order] = 0
      /\ o \in Nat /\ b.order \in Nat /\ o <= b.order /\ b.order <= MaxOrder /\ MaxOrder \in Nat
  BY <1>1, BlockFacts, SizeFacts DEF BlockAligned, Order
<1>4. /\ free \subseteq Block /\ \A c \in free : BlockAligned(c)
      /\ \A c \in free : c # b => Separate(c, b)
  BY <1>1 DEF IInv, TypeOK, NoOverlap, Aligned, BlockAligned
<1>5. Covered'
  <2>1. ASSUME NEW x \in Offset, NEW c \in Blocks, Covers(c, x)
        PROVE  \E d \in Blocks' : Covers(d, x)
    <3>1. CASE c = b
      <4>1. x \in Nat
        BY DEF Offset
      <4>2. Covers(kept, x) \/ \E d \in cut : Covers(d, x)
        BY <1>1, <2>1, <3>1, <4>1, SplitCovers
      <4> HIDE DEF kept, cut
      <4>3. QED
        BY <1>1, <4>2 DEF kept, cut
    <3>2. CASE c # b
      <4>1. c \in Blocks'
        BY <1>1, <3>2 DEF Blocks
      <4>2. QED
        BY <2>1, <4>1
    <3>3. QED
      BY <3>1, <3>2
  <2>2. Blocks # {} /\ (Offset = Offset)'
    BY <1>1 DEF Blocks
  <2>3. \A x \in Offset : \E d \in Blocks' : Covers(d, x)
    BY <2>1, <2>2 DEF Coalesced, Covered
  <2>4. QED
    BY <2>3 DEF Covered, Covers
<1>6. ASSUME NEW k \in o..(b.order - 1)
      PROVE  /\ k \in Order /\ k < MaxOrder
             /\ BuddyOf(k, b.off + Size[k]) = [order |-> k, off |-> b.off]
             /\ b.off + Size[k] \in Nat /\ (b.off + Size[k]) % Size[k] = 0
  <2>1. k \in Order /\ k < MaxOrder /\ k + 1 \in 0..b.order /\ k \in 0..b.order
    BY <1>3 DEF Order
  <2>2. Size[k] \in Nat /\ Size[k] > 0
    BY <2>1, SizeFacts
  <2>3. b.off % Size[k + 1] = 0 /\ b.off % Size[k] = 0
    BY <1>3, <2>1, AlignedBelow
  <2>4. /\ BuddyOf(k, b.off) = [order |-> k, off |-> b.off + Size[k]]
        /\ BuddyOf(k, b.off).off % Size[k] = 0
        /\ BuddyOf(k, BuddyOf(k, b.off).off) = [order |-> k, off |-> b.off]
    <3>1. /\ \/ b.off % Size[k + 1] = 0 /\ BuddyOf(k, b.off) = [order |-> k, off |-> b.off + Size[k]]
             \/ /\ b.off % Size[k + 1] = Size[k] /\ b.off >= Size[k]
                /\ BuddyOf(k, b.off) = [order |-> k, off |-> b.off - Size[k]]
          /\ BuddyOf(k, b.off).off % Size[k] = 0
          /\ BuddyOf(k, BuddyOf(k, b.off).off) = [order |-> k, off |-> b.off]
      BY <1>3, <2>1, <2>3, BuddyPair
    <3>2. QED
      BY <2>2, <2>3, <3>1
  <2>5. b.off + Size[k] \in Nat
    BY <1>3, <2>2
  <2>6. QED
    BY <2>1, <2>4, <2>5
<1>7. \A c \in cut : \E k \in o..(b.order - 1) : c = [order |-> k, off |-> b.off + Size[k]]
  BY DEF UpperHalves
<1> HIDE DEF kept, cut
<1>8. free' = (free \ {b}) \cup cut
  BY <1>1 DEF cut
<1>9. \A k \in Order : [order |-> k, off |-> b.off] \notin free'
  <2> SUFFICES ASSUME NEW k \in Order, NEW c \in free', c = [order |-> k, off |-> b.off]
               PROVE  FALSE
    OBVIOUS
  <2>1. c \notin cut
    BY <1>2
  <2>2. c \in free /\ c # b /\ c \in Block
    BY <1>4, <1>8, <2>1
  <2>3. Separate(c, b)
    BY <1>4, <2>2
  <2>4. c.off = b.off /\ c.order = k
    OBVIOUS
  <2>5. Size[k] \in Nat /\ Size[k] > 0 /\ Size[b.order] \in Nat /\ Size[b.order] > 0
    BY <1>3, SizeFacts
  <2>6. QED
    BY <1>3, <2>3, <2>4, <2>5 DEF Separate
<1>10. NoFreePair'
  <2>1. ASSUME NEW c \in free', c.order < MaxOrder, BuddyOf(c.order, c.off) \in free'
        PROVE  FALSE
    <3> DEFINE d == BuddyOf(c.order, c.off)
    <3>1. c \in Block /\ BlockAligned(c) /\ c.order \in Order /\ c.off \in Nat
      BY <1>2, <1>4, <1>8, BlockFacts
    <3>2. CASE c \in cut
      <4>1. PICK k \in o..(b.order - 1) : c = [order |-> k, off |-> b.off + Size[k]]
        BY <1>7, <3>2
      <4>2. d = [order |-> k, off |-> b.off] /\ k \in Order
        BY <1>6, <4>1
      <4>3. QED
        BY <1>9, <2>1, <4>2
    <3>3. CASE d \in cut
      <4>1. PICK k \in o..(b.order - 1) : d = [order |-> k, off |-> b.off + Size[k]]
        BY <1>7, <3>3
      <4>2. d.order = c.order /\ BuddyOf(c.order, d.off) = c
        BY <2>1, <3>1, ParentHolds
      <4> HIDE DEF d
      <4>3. k = c.order /\ d.off = b.off + Size[k]
        BY <4>1, <4>2
      <4>4. c = [order |-> k, off |-> b.off] /\ k \in Order
        BY <1>6, <4>2, <4>3
      <4>5. QED
        BY <1>9, <4>4
    <3>4. CASE c \notin cut /\ d \notin cut
      <4>1. c \in free /\ d \in free
        BY <1>8, <2>1, <3>4
      <4>2. QED
        BY <2>1, <4>1 DEF Coalesced, NoFreePair
    <3>5. QED
      BY <3>2, <3>3, <3>4
  <2>2. QED
    BY <2>1 DEF NoFreePair, BuddyOf, Base
<1>11. QED
  BY <1>5, <1>10 DEF Coalesced

LEMMA FreeCoalesced ==
  ASSUME IInv, Coalesced, NEW h \in Handle, Free(h)
  PROVE  Coalesced'
<1> DEFINE b == live[h]
<1>1. h \in DOMAIN live /\ b \in Block /\ BlockAligned(b)
  BY FreeParts
<1>2. PICK n \in b.order..MaxOrder :
        LET gone == Absorbed(b.off, b.order, n)
            merged == [order |-> n, off |-> Base(n, b.off)]
        IN /\ gone \subseteq free
           /\ n < MaxOrder => BuddyOf(n, b.off) \notin free
           /\ merged \in Block /\ BlockAligned(merged) /\ Inside(b, merged)
           /\ \A a \in gone : Inside(a, merged)
           /\ free' = (free \ gone) \cup {merged}
           /\ Blocks' = ((free \ gone) \cup {merged}) \cup {live[g] : g \in DOMAIN live \ {h}}
  BY FreeParts
<1> DEFINE gone == Absorbed(b.off, b.order, n)
           merged == [order |-> n, off |-> Base(n, b.off)]
<1>3. /\ gone \subseteq free
      /\ n < MaxOrder => BuddyOf(n, b.off) \notin free
      /\ merged \in Block /\ BlockAligned(merged) /\ Inside(b, merged)
      /\ \A a \in gone : Inside(a, merged)
      /\ free' = (free \ gone) \cup {merged}
      /\ Blocks' = ((free \ gone) \cup {merged}) \cup {live[g] : g \in DOMAIN live \ {h}}
  BY <1>2
<1>4. free \subseteq Block /\ \A c \in free : BlockAligned(c)
  BY DEF IInv, TypeOK, Aligned, BlockAligned
<1>5. n < MaxOrder => BuddyOf(n, merged.off) \notin free
  <2> SUFFICES ASSUME n < MaxOrder PROVE BuddyOf(n, merged.off) \notin free
    OBVIOUS
  <2>1. n \in Order /\ b.off \in Nat /\ b.order \in Order
    BY <1>1, BlockFacts, SizeFacts DEF Order
  <2>2. merged.off \in Nat /\ merged.off % Size[n] = 0
    BY <1>3, BlockFacts DEF BlockAligned
  <2>3. Base(n, merged.off) = merged.off
    BY <2>2 DEF Base
  <2>4. BuddyOf(n, merged.off) = BuddyOf(n, b.off)
    BY <2>3 DEF BuddyOf
  <2>5. QED
    BY <1>3, <2>4
<1>6. merged.order = n
  OBVIOUS
<1> HIDE DEF gone, merged, b
<1>7. Covered'
  <2>1. ASSUME NEW x \in Offset, NEW c \in Blocks, Covers(c, x)
        PROVE  \E d \in Blocks' : Covers(d, x)
    <3>1. x \in Nat
      BY DEF Offset
    <3>2. CASE c \in gone \/ c = b
      <4>1. c \in Block /\ Inside(c, merged)
        BY <1>1, <1>3, <1>4, <3>2
      <4>2. Covers(merged, x)
        BY <1>3, <2>1, <3>1, <4>1, CoversInside
      <4>3. QED
        BY <1>3, <4>2
    <3>3. CASE c \notin gone /\ c # b
      <4>1. c \in Blocks'
        BY <1>3, <3>3 DEF Blocks, b
      <4>2. QED
        BY <2>1, <4>1
    <3>4. QED
      BY <3>2, <3>3
  <2>2. Blocks # {}
    BY <1>1 DEF Blocks
  <2>3. \A x \in Offset : \E d \in Blocks' : Covers(d, x)
    BY <2>1, <2>2 DEF Coalesced, Covered
  <2>4. QED
    BY <2>3 DEF Covered, Covers
<1>8. NoFreePair'
  <2>1. ASSUME NEW c \in free', c.order < MaxOrder, BuddyOf(c.order, c.off) \in free'
        PROVE  FALSE
    <3> DEFINE d == BuddyOf(c.order, c.off)
    <3>1. c \in Block /\ BlockAligned(c)
      BY <1>3, <1>4
    <3>2. d.order = c.order /\ BuddyOf(c.order, d.off) = c /\ d.off # c.off
      BY <2>1, <3>1, ParentHolds
    <3>3. CASE c = merged
      <4>1. d \notin free /\ d # merged
        BY <1>5, <1>6, <2>1, <3>2, <3>3
      <4>2. QED
        BY <1>3, <2>1, <4>1
    <3>4. CASE d = merged
      <4>1. n < MaxOrder /\ c = BuddyOf(n, merged.off)
        <5> HIDE DEF d
        <5>1. QED
          BY <1>6, <2>1, <3>2, <3>4
      <4>2. c \notin free /\ c # merged
        <5> HIDE DEF d
        <5>1. QED
          BY <1>5, <3>2, <3>4, <4>1
      <4>3. QED
        BY <1>3, <2>1, <4>2
    <3>5. CASE c # merged /\ d # merged
      <4>1. c \in free /\ d \in free
        BY <1>3, <2>1, <3>5
      <4>2. QED
        BY <2>1, <4>1 DEF Coalesced, NoFreePair
    <3>6. QED
      BY <3>3, <3>4, <3>5
  <2>2. QED
    BY <2>1 DEF NoFreePair, BuddyOf, Base
<1>9. QED
  BY <1>7, <1>8 DEF Coalesced

(* The whole arena as one free block.                                      *)
LEMMA RootCoalesced ==
  /\ Root \in Block /\ Root.order = MaxOrder
  /\ \A x \in Offset : Covers(Root, x)
<1>1. Root \in Block /\ Root.order = MaxOrder /\ Root.off = 0
  BY SizeFacts, BlockIntro DEF Root, ArenaSize
<1>2. QED
  BY <1>1, SizeFacts DEF Covers, Offset, ArenaSize

LEMMA CoalescedInit == Init => Coalesced
<1> SUFFICES ASSUME Init PROVE Coalesced
  OBVIOUS
<1>1. free = (IF arena THEN {Root} ELSE {}) /\ DOMAIN live = {}
  BY DEF Init, Empty
<1>2. Blocks = IF arena THEN {Root} ELSE {}
  BY <1>1 DEF Blocks
<1>3. Covered
  BY <1>2, RootCoalesced DEF Covered
<1>4. NoFreePair
  <2>1. ~ (MaxOrder < MaxOrder)
    BY SizeFacts
  <2>2. QED
    BY <1>1, <2>1, RootCoalesced DEF NoFreePair
<1>5. QED
  BY <1>3, <1>4 DEF Coalesced

LEMMA CoalescedStep ==
  ASSUME IInv, Coalesced, [Next]_vars
  PROVE  Coalesced'
<1>1. ASSUME UNCHANGED <<free, live>>
      PROVE  Coalesced'
  BY <1>1 DEF Coalesced, Covered, NoFreePair, Blocks, Covers, BuddyOf, Base
<1>2. ASSUME NEW req \in Request, AllocateRejected(req) \/ AllocateExhausted(req)
      PROVE  Coalesced'
  BY <1>1, <1>2 DEF AllocateRejected, AllocateExhausted
<1>3. ASSUME NEW h \in Handle, FreeUnknown(h)
      PROVE  Coalesced'
  BY <1>1, <1>3 DEF FreeUnknown
<1>4. CASE Reset
  <2>1. free' = (IF arena THEN {Root} ELSE {}) /\ DOMAIN live' = {}
    BY <1>4 DEF Reset, Empty
  <2>2. Blocks' = IF arena THEN {Root} ELSE {}
    BY <2>1 DEF Blocks
  <2>3. Covered'
    BY <2>2, RootCoalesced DEF Covered, Covers
  <2>4. NoFreePair'
    <3>1. ~ (MaxOrder < MaxOrder)
      BY SizeFacts
    <3>2. QED
      BY <2>1, <3>1, RootCoalesced DEF NoFreePair
  <2>5. QED
    BY <2>3, <2>4 DEF Coalesced
<1>5. CASE Shutdown
  <2>1. free' = {} /\ DOMAIN live' = {}
    BY <1>5 DEF Shutdown, Empty
  <2>2. QED
    BY <2>1 DEF Coalesced, Covered, NoFreePair, Blocks
<1>6. CASE UNCHANGED vars
  BY <1>1, <1>6 DEF vars
<1>7. QED
  BY <1>2, <1>3, <1>4, <1>5, <1>6, AllocateCoalesced, FreeCoalesced DEF Next

-----------------------------------------------------------------------------
(* What no free list serves is occupied.                                   *)

(* The parent of an aligned block is a block of the arena.                 *)
LEMMA ParentBlock ==
  ASSUME NEW b \in Block, BlockAligned(b), b.order < MaxOrder
  PROVE  Parent(b.order, b.off) \in Block
<1> DEFINE p == Parent(b.order, b.off)
           s == Size[p.order]
<1>1. /\ p.order \in Order /\ p.off \in Nat /\ p.off % s = 0
      /\ p.off <= b.off
  BY ParentHolds
<1>2. s \in Nat /\ s > 0 /\ ArenaSize \in Nat
  BY <1>1, SizeFacts
<1>3. ArenaSize % s = 0
  <2>1. ArenaSize % Size[MaxOrder] = 0
    <3> DEFINE S == Size[MaxOrder]
    <3>1. S \in Nat /\ S > 0 /\ ArenaSize = S
      BY SizeFacts DEF ArenaSize
    <3> HIDE DEF S
    <3>2. 0 % S = 0 /\ 0 + S = S
      BY <3>1
    <3>3. S % S = 0
      BY <3>1, <3>2, MultipleStep
    <3>4. QED
      BY <3>1, <3>3 DEF S
  <2>2. p.order \in 0..MaxOrder /\ MaxOrder \in Order
    BY <1>1, SizeFacts DEF Order
  <2>3. QED
    BY <1>2, <2>1, <2>2, AlignedBelow
<1>4. p.off < ArenaSize
  BY <1>1, BlockFacts, SizeFacts
<1>5. p.off + s <= ArenaSize
  <2> HIDE DEF p, s
  <2>1. QED
    BY <1>1, <1>2, <1>3, <1>4, MultiplesApart
<1>6. p = [order |-> p.order, off |-> p.off]
  BY DEF Parent
<1>7. QED
  <2> HIDE DEF p
  <2>1. p \in Block
    BY <1>1, <1>5, <1>6, BlockIntro
  <2>2. QED
    BY <2>1 DEF p

LEMMA CoalescedAdmits ==
  ASSUME IInv, Coalesced
  PROVE  AdmitsWhatFits
<1> SUFFICES ASSUME Blocks # {},
                    NEW region \in AlignedBlock,
                    \A b \in free : b.order < region.order,
                    \A h \in DOMAIN live : Separate(live[h], region)
             PROVE  FALSE
  BY DEF AdmitsWhatFits
<1>1. region \in Block /\ BlockAligned(region)
  BY DEF AlignedBlock, BlockAligned
<1>2. /\ region.order \in Order /\ region.order \in Nat /\ region.off \in Nat
      /\ Size[region.order] \in Nat /\ Size[region.order] > 0
      /\ region.off + Size[region.order] <= ArenaSize
  BY <1>1, BlockFacts, SizeFacts
<1>3. \A b \in free : b \in Block /\ BlockAligned(b) /\ b.order \in Nat
  BY BlockFacts, SizeFacts DEF IInv, TypeOK, Aligned, BlockAligned
<1>4. ASSUME NEW x \in Nat, Covers(region, x)
      PROVE  \E d \in free : Covers(d, x) /\ ~ Separate(d, region)
  <2>1. x \in Offset
    BY <1>2, <1>4, SizeFacts DEF Covers, Offset
  <2>2. PICK d \in Blocks : Covers(d, x)
    BY <2>1 DEF Coalesced, Covered
  <2>3. d \in Block
    BY <1>3 DEF Blocks, IInv, TypeOK
  <2>4. ~ Separate(d, region)
    BY <1>1, <1>4, <2>2, <2>3, CoversApart
  <2>5. d \in free
    BY <2>4 DEF Blocks
  <2>6. QED
    BY <2>2, <2>4, <2>5
<1> DEFINE T == {b.order : b \in {d \in free : ~ Separate(d, region)}}
<1>5. T \in SUBSET Nat /\ T # {}
  <2>1. Covers(region, region.off)
    BY <1>2 DEF Covers
  <2>2. QED
    BY <1>2, <1>3, <1>4, <2>1
<1>6. PICK k \in T : \A y \in T : k <= y
  <2> HIDE DEF T
  <2>1. QED
    BY <1>5, NatMin
<1>7. PICK b \in free : ~ Separate(b, region) /\ b.order = k
  BY <1>6
<1>8. \A d \in free : ~ Separate(d, region) => b.order <= d.order
  BY <1>6, <1>7
<1>9. b \in Block /\ BlockAligned(b) /\ b.order < region.order
  BY <1>3, <1>7
<1>10. /\ b.order \in Order /\ b.order \in Nat /\ b.order < MaxOrder /\ b.off \in Nat
       /\ Size[b.order] \in Nat /\ Size[b.order] > 0
  <2>1. b.order \in Order /\ b.off \in Nat
    BY <1>9, BlockFacts
  <2>2. QED
    BY <1>2, <1>9, <2>1, SizeFacts DEF Order
<1> DEFINE p == Parent(b.order, b.off)
           c == BuddyOf(b.order, b.off)
<1>11. /\ p.order = b.order + 1 /\ p.order \in Order
       /\ p.off \in Nat /\ p.off % Size[p.order] = 0
       /\ Size[p.order] = 2 * Size[b.order]
       /\ p.off <= b.off /\ b.off + Size[b.order] <= p.off + Size[p.order]
       /\ p.off <= c.off /\ c.off + Size[b.order] <= p.off + Size[p.order]
       /\ c.order = b.order /\ c.off \in Nat /\ c.off % Size[b.order] = 0
       /\ c.off # b.off
  BY <1>9, <1>10, ParentHolds
<1>12. p \in Block
  BY <1>9, <1>10, ParentBlock
<1>13. c = [order |-> b.order, off |-> c.off]
  BY DEF BuddyOf
<1>14. c \notin free
  BY <1>7, <1>10 DEF Coalesced, NoFreePair
<1> HIDE DEF T, p, c
<1>15. Inside(b, p) /\ BlockAligned(p) /\ BlockAligned(c)
  BY <1>11 DEF Inside, BlockAligned
<1>16. Inside(p, region)
  <2>1. p.order <= region.order
    BY <1>2, <1>9, <1>10, <1>11
  <2>2. ~ Separate(p, region)
    BY <1>1, <1>7, <1>9, <1>12, <1>15, SeparateInside
  <2>3. QED
    BY <1>1, <1>12, <1>15, <2>1, <2>2, Nested
<1>17. Covers(p, c.off) /\ Covers(region, c.off) /\ Covers(c, c.off) /\ c \in Block
  <2>1. Covers(p, c.off) /\ Covers(c, c.off)
    BY <1>10, <1>11 DEF Covers
  <2>2. Covers(region, c.off)
    BY <1>1, <1>11, <1>12, <1>16, <2>1, CoversInside
  <2>3. c.off + Size[b.order] <= ArenaSize
    BY <1>10, <1>11, <1>12, BlockFacts, SizeFacts
  <2>4. c \in Block
    BY <1>10, <1>11, <1>13, <2>3, BlockIntro
  <2>5. QED
    BY <2>1, <2>2, <2>4
<1>18. PICK d \in free : Covers(d, c.off) /\ ~ Separate(d, region)
  BY <1>4, <1>11, <1>17
<1>19. d \in Block /\ BlockAligned(d) /\ d.order \in Nat /\ b.order <= d.order
  BY <1>3, <1>8, <1>18
<1>20. d.order # b.order
  <2>1. SUFFICES ASSUME d.order = b.order PROVE FALSE
    OBVIOUS
  <2>2. ~ Separate(d, c)
    BY <1>11, <1>17, <1>18, <1>19, CoversApart
  <2>3. Inside(d, c)
    BY <1>10, <1>11, <1>15, <1>17, <1>19, <2>1, <2>2, Nested
  <2>4. d.off = c.off
    BY <1>10, <1>11, <1>19, <2>1, <2>3, BlockFacts DEF Inside
  <2>5. d = c
    BY <1>13, <1>19, <2>1, <2>4, BlockFacts
  <2>6. QED
    BY <1>14, <1>18, <2>5
<1>21. Inside(p, d)
  <2>1. p.order <= d.order
    <3>1. p.order = b.order + 1
      BY <1>11
    <3>2. b.order \in Nat /\ d.order \in Nat /\ b.order <= d.order
      BY <1>10, <1>19
    <3>3. QED
      BY <1>20, <3>1, <3>2
  <2>2. ~ Separate(p, d)
    BY <1>11, <1>12, <1>17, <1>18, <1>19, CoversApart
  <2>3. QED
    BY <1>12, <1>15, <1>19, <2>1, <2>2, Nested
<1>22. Covers(b, b.off)
  BY <1>10 DEF Covers
<1>23. Covers(d, b.off)
  <2>1. Covers(p, b.off)
    BY <1>9, <1>10, <1>12, <1>15, <1>22, CoversInside
  <2>2. QED
    BY <1>10, <1>12, <1>19, <1>21, <2>1, CoversInside
<1>24. ~ Separate(b, d)
  BY <1>9, <1>10, <1>19, <1>22, <1>23, CoversApart
<1>25. QED
  BY <1>7, <1>18, <1>20, <1>24 DEF IInv, NoOverlap

LEMMA CoalescedHolds == Spec => [](IInv /\ Coalesced)
<1>1. Init => IInv /\ Coalesced
  BY InitIInv, CoalescedInit
<1>2. (IInv /\ Coalesced) /\ [Next]_vars => (IInv /\ Coalesced)'
  BY NextIInv, CoalescedStep
<1>3. QED
  BY <1>1, <1>2, PTL DEF Spec

(* A request that no free list serves would not fit an arena compacted     *)
(* around its live blocks either, whatever the arena and the history.      *)
THEOREM BuddyAdmitsWhatFits == Spec => []AdmitsWhatFits
<1>1. IInv /\ Coalesced => AdmitsWhatFits
  BY CoalescedAdmits
<1>2. QED
  BY <1>1, CoalescedHolds, PTL

-----------------------------------------------------------------------------
(* The gauges and the counters.                                            *)

(* Bytes granted behind each live handle.                                  *)
Grants == [h \in DOMAIN live |-> Granted(live[h].order)]

Gauges ==
  /\ live_count = Cardinality(DOMAIN live)
  /\ live_bytes = SumOf(Grants, DOMAIN Grants)
  /\ granted >= requested /\ granted >= live_bytes

Counters ==
  /\ IsFiniteSet(Blocks)
  /\ merges <= splits
  /\ Cardinality(Blocks) <= 1 + splits - merges

(* The sum of the module's Accounting, as a sum over Grants.               *)
LEMMA GrantSum ==
  ASSUME IsFiniteSet(DOMAIN live)
  PROVE  MapThenSumSet(LAMBDA h : Granted(live[h].order), DOMAIN live)
           = SumOf(Grants, DOMAIN Grants)
<1> DEFINE S == DOMAIN live
           Q(g) == g = [s \in SUBSET S |->
                          IF s = {} THEN 0
                          ELSE Granted(live[Pick(s)].order) + g[s \ {Pick(s)}]]
           H == CHOOSE g : Q(g)
           G == CHOOSE g : SumsOver(g, Grants, S)
<1>1. \A g : Q(g) <=> SumsOver(g, Grants, S)
  <2> TAKE g
  <2>1. \A s \in SUBSET S : s # {} => Grants[Pick(s)] = Granted(live[Pick(s)].order)
    BY PickIn DEF Grants
  <2>2. [s \in SUBSET S |-> IF s = {} THEN 0
                            ELSE Granted(live[Pick(s)].order) + g[s \ {Pick(s)}]]
        = [s \in SUBSET S |-> IF s = {} THEN 0 ELSE Grants[Pick(s)] + g[s \ {Pick(s)}]]
    BY <2>1
  <2>3. QED
    BY <2>2 DEF SumsOver
<1>2. SumsOver(G, Grants, S)
  BY SumsExist
<1>3. DOMAIN Grants = S
  BY DEF Grants
<1>4. MapThenSumSet(LAMBDA h : Granted(live[h].order), S) = H[S]
  BY DEF MapThenSumSet, MapThenFoldSet, Pick
<1>5. SumOf(Grants, S) = G[S]
  BY DEF SumOf, MapThenSumSet, MapThenFoldSet, SumsOver, Pick
<1>6. SumsOver(H, Grants, S)
  <2> HIDE DEF Q, G
  <2>1. Q(G)
    BY <1>1, <1>2
  <2>2. Q(H)
    BY <2>1
  <2>3. QED
    BY <1>1, <2>2
<1>7. H[S] = G[S]
  <2> HIDE DEF H, G, S
  <2>1. IsFiniteSet(S)
    BY DEF S
  <2>2. QED
    BY <1>2, <1>6, <2>1, SumsAgree
<1>8. QED
  BY <1>3, <1>4, <1>5, <1>7

LEMMA GrantFacts ==
  ASSUME IInv
  PROVE  /\ IsFiniteSet(DOMAIN live) /\ DOMAIN Grants = DOMAIN live
         /\ \A h \in DOMAIN live : Grants[h] = Granted(live[h].order) /\ Grants[h] \in Nat
<1>1. IsFiniteSet(1..next_id) /\ DOMAIN live \in SUBSET (1..next_id)
  BY FS_Interval DEF IInv, TypeOK
<1>2. IsFiniteSet(DOMAIN live)
  BY <1>1, FS_Subset
<1>3. \A h \in DOMAIN live : Granted(live[h].order) \in Nat
  <2> TAKE h \in DOMAIN live
  <2>1. live[h] \in Block /\ Size[live[h].order] > HeaderSize
    BY DEF IInv, TypeOK
  <2>2. Size[live[h].order] \in Nat
    BY <2>1, BlockFacts, SizeFacts
  <2>3. QED
    BY <2>1, <2>2, RequestAssumption DEF Granted
<1>4. QED
  BY <1>2, <1>3 DEF Grants

LEMMA GaugesAccount ==
  ASSUME IInv, Gauges, Counters
  PROVE  Accounting
<1>1. IsFiniteSet(DOMAIN live)
  BY GrantFacts
<1>2. live_bytes = MapThenSumSet(LAMBDA h : Granted(live[h].order), DOMAIN live)
  BY <1>1, GrantSum DEF Gauges
<1>3. QED
  BY <1>2 DEF Accounting, Gauges, Counters

(* An allocation and a free move the gauges by what they record.           *)
LEMMA AllocateGauges ==
  ASSUME IInv, Gauges, NEW req \in Request, Allocate(req)
  PROVE  Gauges'
<1> DEFINE o == OrderFor(Need(req))
           id == next_id + 1
<1>1. PICK b \in free :
        /\ o \in Order /\ Size[o] > HeaderSize /\ Size[o] >= HeaderSize + req.size
        /\ id \notin DOMAIN live
        /\ DOMAIN live' = DOMAIN live \cup {id}
        /\ live'[id] = [order |-> o, off |-> b.off]
        /\ \A h \in DOMAIN live : live'[h] = live[h]
        /\ live_count' = live_count + 1 /\ live_bytes' = live_bytes + Granted(o)
        /\ requested' = requested + req.size /\ granted' = granted + Granted(o)
  BY AllocateParts
<1>2. /\ live_count \in Nat /\ live_bytes \in Nat /\ granted \in Nat
      /\ requested \in Nat /\ req.size \in Nat
  BY RequestAssumption DEF IInv, TypeOK
<1>3. Granted(o) \in Nat /\ Granted(o) >= req.size
  BY <1>1, <1>2, SizeFacts, RequestAssumption DEF Granted
<1>4. /\ IsFiniteSet(DOMAIN live) /\ DOMAIN Grants = DOMAIN live
      /\ \A h \in DOMAIN live : Grants[h] = Granted(live[h].order) /\ Grants[h] \in Nat
  BY GrantFacts
<1>5. live_count' = Cardinality(DOMAIN live')
  BY <1>1, <1>4, FS_AddElement DEF Gauges
<1> DEFINE f == Grants
           g == Grants'
           size == Granted(o)
<1>6. g = [x \in DOMAIN f \cup {id} |-> IF x = id THEN size ELSE f[x]]
  BY <1>1, <1>4 DEF Grants
<1>7. SumOf(g, DOMAIN g) = SumOf(f, DOMAIN f) + size
  <2>1. /\ IsFiniteSet(DOMAIN f) /\ \A x \in DOMAIN f : f[x] \in Nat
        /\ id \notin DOMAIN f /\ size \in Nat
    BY <1>1, <1>3, <1>4
  <2> HIDE DEF f, g, size, id
  <2>2. QED
    BY <1>6, <2>1, SumExtended
<1>8. live_bytes' = SumOf(g, DOMAIN g)
  BY <1>1, <1>7 DEF Gauges
<1>9. granted' >= requested' /\ granted' >= live_bytes'
  <2> HIDE DEF o
  <2>1. QED
    BY <1>1, <1>2, <1>3 DEF Gauges
<1>10. QED
  BY <1>5, <1>8, <1>9 DEF Gauges

LEMMA FreeGauges ==
  ASSUME IInv, Gauges, NEW h \in Handle, Free(h)
  PROVE  Gauges'
<1> DEFINE size == Granted(live[h].order)
<1>1. /\ h \in DOMAIN live
      /\ live' = [g \in DOMAIN live \ {h} |-> live[g]]
      /\ live_count' = IF live_count > 0 THEN live_count - 1 ELSE live_count
      /\ live_bytes' = IF live_bytes >= size THEN live_bytes - size ELSE live_bytes
      /\ requested' = requested /\ granted' = granted
  BY FreeParts
<1>2. /\ IsFiniteSet(DOMAIN live) /\ DOMAIN Grants = DOMAIN live
      /\ \A g \in DOMAIN live : Grants[g] = Granted(live[g].order) /\ Grants[g] \in Nat
  BY GrantFacts
<1>3. live_count' = Cardinality(DOMAIN live')
  <2>1. live_count = Cardinality(DOMAIN live) /\ live_count \in Nat
    BY DEF Gauges, IInv, TypeOK
  <2>2. live_count # 0
    BY <1>1, <1>2, <2>1, FS_EmptySet
  <2>3. Cardinality(DOMAIN live \ {h}) = live_count - 1
    BY <1>1, <1>2, <2>1, FS_RemoveElement
  <2>4. QED
    BY <1>1, <2>1, <2>2, <2>3
<1> DEFINE f == Grants
           g == Grants'
<1>4. g = [x \in DOMAIN f \ {h} |-> f[x]]
  BY <1>1, <1>2 DEF Grants
<1>5. /\ SumOf(g, DOMAIN g) = SumOf(f, DOMAIN f) - f[h]
      /\ SumOf(g, DOMAIN g) \in Nat
  <2>1. /\ IsFiniteSet(DOMAIN f) /\ \A x \in DOMAIN f : f[x] \in Nat
        /\ h \in DOMAIN f
    BY <1>1, <1>2
  <2> HIDE DEF f, g
  <2>2. QED
    BY <1>4, <2>1, SumReduced
<1>6. live_bytes = SumOf(f, DOMAIN f) /\ f[h] = size /\ size \in Nat /\ live_bytes \in Nat
  BY <1>1, <1>2 DEF Gauges, IInv, TypeOK
<1>7. live_bytes' = SumOf(g, DOMAIN g) /\ live_bytes' <= live_bytes /\ live_bytes' \in Nat
  <2> HIDE DEF f, g, size
  <2>1. live_bytes' = IF live_bytes >= size THEN live_bytes - size ELSE live_bytes
    BY <1>1
  <2>2. QED
    BY <1>5, <1>6, <2>1
<1>8. granted \in Nat /\ granted >= requested /\ granted >= live_bytes
  BY DEF Gauges, IInv, TypeOK
<1>9. granted' >= live_bytes' /\ granted' >= requested'
  <2> HIDE DEF f, g, size
  <2>1. QED
    BY <1>1, <1>6, <1>7, <1>8
<1>10. QED
  BY <1>3, <1>7, <1>9 DEF Gauges

(* Every order a split passes makes one more block, every order a merge    *)
(* passes one less.                                                        *)
LEMMA PiecesCount ==
  ASSUME NEW off \in Nat, NEW o \in Order, NEW n \in o..MaxOrder
  PROVE  /\ IsFiniteSet(UpperHalves(off, o, n)) /\ Cardinality(UpperHalves(off, o, n)) = n - o
         /\ IsFiniteSet(Absorbed(off, o, n)) /\ Cardinality(Absorbed(off, o, n)) = n - o
<1> DEFINE S == o..(n - 1)
           f == [k \in S |-> [order |-> k, off |-> off + Size[k]]]
           g == [k \in S |-> BuddyOf(k, off)]
<1>1. o \in Int /\ n \in Int /\ o <= n /\ n - 1 \in Int
  BY SizeFacts DEF Order
<1>2. IsFiniteSet(S) /\ Cardinality(S) = n - o
  <2>1. IsFiniteSet(S) /\ Cardinality(S) = IF o > n - 1 THEN 0 ELSE (n - 1) - o + 1
    BY <1>1, FS_Interval
  <2>2. QED
    BY <1>1, <2>1
<1>3. UpperHalves(off, o, n) = {f[k] : k \in S} /\ Absorbed(off, o, n) = {g[k] : k \in S}
  BY DEF UpperHalves, Absorbed
<1>4. \A j, k \in S : f[j] = f[k] => j = k
  OBVIOUS
<1>5. \A j, k \in S : g[j] = g[k] => j = k
  <2> TAKE j, k \in S
  <2>1. g[j].order = j /\ g[k].order = k
    BY DEF BuddyOf
  <2> HIDE DEF g
  <2>2. QED
    BY <2>1
<1>6. DOMAIN f = S /\ DOMAIN g = S
  OBVIOUS
<1> HIDE DEF S, f, g
<1>7. IsFiniteSet({f[k] : k \in S}) /\ Cardinality({f[k] : k \in S}) = Cardinality(S)
  BY <1>2, <1>4, <1>6, ImageCard
<1>8. IsFiniteSet({g[k] : k \in S}) /\ Cardinality({g[k] : k \in S}) = Cardinality(S)
  BY <1>2, <1>5, <1>6, ImageCard
<1>9. QED
  BY <1>2, <1>3, <1>7, <1>8

LEMMA UnionBound ==
  ASSUME NEW S, IsFiniteSet(S), NEW T, IsFiniteSet(T), NEW U, U \subseteq S \cup T
  PROVE  IsFiniteSet(U) /\ Cardinality(U) <= Cardinality(S) + Cardinality(T)
<1>1. /\ IsFiniteSet(S \cup T)
      /\ Cardinality(S \cup T) = Cardinality(S) + Cardinality(T) - Cardinality(S \cap T)
  BY FS_Union
<1>2. IsFiniteSet(S \cap T) /\ S \cap T \in SUBSET S
  BY FS_Subset
<1>3. IsFiniteSet(U) /\ Cardinality(U) <= Cardinality(S \cup T)
  BY <1>1, FS_Subset
<1>4. QED
  BY <1>1, <1>2, <1>3, FS_CardinalityType

LEMMA AllocateCounters ==
  ASSUME IInv, Counters, NEW req \in Request, Allocate(req)
  PROVE  Counters'
<1> DEFINE o == OrderFor(Need(req))
           lives == {live[h] : h \in DOMAIN live}
<1>1. PICK b \in free :
        LET kept == [order |-> o, off |-> b.off]
            cut == UpperHalves(b.off, o, b.order)
        IN /\ b \in Block /\ o \in Order /\ o \in 0..b.order
           /\ Blocks' = ((free \ {b}) \cup cut \cup {kept}) \cup lives
           /\ splits' = splits + (b.order - o) /\ merges' = merges
  BY AllocateParts
<1> DEFINE kept == [order |-> o, off |-> b.off]
           cut == UpperHalves(b.off, o, b.order)
           d == b.order - o
<1>2. b.off \in Nat /\ b.order \in Order /\ b.order \in o..MaxOrder /\ d \in Nat
  <2>1. b.off \in Nat /\ b.order \in Order
    BY <1>1, BlockFacts
  <2>2. QED
    BY <1>1, <2>1, SizeFacts DEF Order
<1>3. IsFiniteSet(cut) /\ Cardinality(cut) = d
  BY <1>1, <1>2, PiecesCount
<1>4. b \notin lives /\ b \in Blocks
  <2>1. ASSUME NEW h \in DOMAIN live, b = live[h] PROVE FALSE
    <3>1. Separate(b, live[h])
      BY DEF IInv, NoOverlap
    <3>2. QED
      BY <1>1, <1>2, <2>1, <3>1, SizeFacts DEF Separate
  <2>2. QED
    BY <2>1 DEF Blocks
<1> HIDE DEF o, lives, kept, cut, d
<1>5. Blocks' \subseteq (Blocks \ {b}) \cup (cut \cup {kept})
  BY <1>1, <1>4 DEF Blocks, kept, cut, lives
<1>6. IsFiniteSet(Blocks \ {b}) /\ Cardinality(Blocks \ {b}) = Cardinality(Blocks) - 1
  BY <1>4, FS_RemoveElement DEF Counters
<1>7. IsFiniteSet(cut \cup {kept}) /\ Cardinality(cut \cup {kept}) <= d + 1
      /\ Cardinality(cut \cup {kept}) \in Nat
  <2>1. /\ IsFiniteSet(cut \cup {kept})
        /\ Cardinality(cut \cup {kept})
             = IF kept \in cut THEN Cardinality(cut) ELSE Cardinality(cut) + 1
    BY <1>3, FS_AddElement
  <2>2. QED
    BY <1>2, <1>3, <2>1
<1>8. IsFiniteSet(Blocks') /\ Cardinality(Blocks') <= Cardinality(Blocks) + d
  BY SMTT(60), <1>2, <1>5, <1>6, <1>7, UnionBound, FS_CardinalityType DEF Counters
<1>9. splits' = splits + d /\ merges' = merges
  BY <1>1 DEF d
<1>10. Cardinality(Blocks) \in Nat /\ splits \in Nat /\ merges \in Nat
       /\ Cardinality(Blocks') \in Nat
  BY <1>8, FS_CardinalityType DEF IInv, TypeOK, Counters
<1>11. QED
  BY <1>2, <1>8, <1>9, <1>10 DEF Counters

LEMMA FreeCounters ==
  ASSUME IInv, Counters, NEW h \in Handle, Free(h)
  PROVE  Counters'
<1> DEFINE b == live[h]
<1>1. h \in DOMAIN live /\ b \in Block
  BY FreeParts
<1>2. PICK n \in b.order..MaxOrder :
        LET gone == Absorbed(b.off, b.order, n)
            merged == [order |-> n, off |-> Base(n, b.off)]
        IN /\ gone \subseteq free
           /\ Blocks' = ((free \ gone) \cup {merged}) \cup {live[g] : g \in DOMAIN live \ {h}}
           /\ splits' = splits /\ merges' = merges + (n - b.order)
  BY FreeParts
<1> DEFINE gone == Absorbed(b.off, b.order, n)
           merged == [order |-> n, off |-> Base(n, b.off)]
           d == n - b.order
<1>3. b.off \in Nat /\ b.order \in Order /\ d \in Nat
  <2>1. b.off \in Nat /\ b.order \in Order
    BY <1>1, BlockFacts
  <2>2. QED
    BY <2>1, SizeFacts DEF Order
<1>4. IsFiniteSet(gone) /\ Cardinality(gone) = d
  BY <1>3, PiecesCount
<1>5. Separate(b, b) => FALSE
  BY <1>1, <1>3, BlockFacts, SizeFacts DEF Separate
<1>6. b \notin free /\ \A g \in DOMAIN live \ {h} : live[g] # b
  BY <1>1, <1>5 DEF IInv, NoOverlap
<1>7. \A g \in DOMAIN live : live[g] \notin free
  <2> TAKE g \in DOMAIN live
  <2>1. SUFFICES ASSUME live[g] \in free PROVE FALSE
    OBVIOUS
  <2>2. Separate(live[g], live[g])
    BY <2>1 DEF IInv, NoOverlap
  <2>3. QED
    BY <2>2, BlockFacts, SizeFacts DEF Separate, IInv, TypeOK
<1> HIDE DEF b, gone, merged, d
<1>8. gone \subseteq free /\ b \notin gone /\ gone \cup {b} \in SUBSET Blocks
  BY <1>1, <1>2, <1>6 DEF Blocks, gone, merged, b
<1>9. Blocks' \subseteq (Blocks \ (gone \cup {b})) \cup {merged}
  BY <1>2, <1>6, <1>7, <1>8 DEF Blocks, gone, merged
<1>10. IsFiniteSet(gone \cup {b}) /\ Cardinality(gone \cup {b}) = d + 1
  BY <1>4, <1>8, FS_AddElement
<1>11. /\ IsFiniteSet(Blocks \ (gone \cup {b}))
       /\ Cardinality(Blocks \ (gone \cup {b})) = Cardinality(Blocks) - (d + 1)
  <2>1. Blocks \cap (gone \cup {b}) = gone \cup {b}
    BY <1>8
  <2> DEFINE T == gone \cup {b}
  <2>2. IsFiniteSet(Blocks)
    BY DEF Counters
  <2> HIDE DEF T
  <2>3. /\ IsFiniteSet(Blocks \ T)
        /\ Cardinality(Blocks \ T) = Cardinality(Blocks) - Cardinality(Blocks \cap T)
    BY <2>2, FS_Difference
  <2>4. QED
    BY <1>10, <2>1, <2>3 DEF T
<1>12. Cardinality(Blocks) \in Nat /\ d + 1 <= Cardinality(Blocks)
  BY <1>8, <1>10, FS_Subset, FS_CardinalityType DEF Counters
<1>13. IsFiniteSet(Blocks') /\ Cardinality(Blocks') <= Cardinality(Blocks) - (d + 1) + 1
  <2>1. IsFiniteSet({merged}) /\ Cardinality({merged}) = 1
    BY FS_Singleton
  <2>2. QED
    BY <1>9, <1>11, <2>1, UnionBound
<1>14. splits' = splits /\ merges' = merges + d
  BY <1>2 DEF d, b
<1>15. splits \in Nat /\ merges \in Nat /\ Cardinality(Blocks') \in Nat
  BY <1>13, FS_CardinalityType DEF IInv, TypeOK
<1>16. QED
  BY <1>3, <1>12, <1>13, <1>14, <1>15 DEF Counters

LEMMA AtMostOne ==
  ASSUME NEW S, NEW x, S \in SUBSET {x}
  PROVE  IsFiniteSet(S) /\ Cardinality(S) <= 1 /\ Cardinality(S) \in Nat
<1>1. IsFiniteSet({x}) /\ Cardinality({x}) = 1
  BY FS_Singleton
<1>2. IsFiniteSet(S) /\ Cardinality(S) <= Cardinality({x})
  BY <1>1, FS_Subset
<1>3. QED
  BY <1>1, <1>2, FS_CardinalityType

LEMMA AccountingInit == Init => Gauges /\ Counters
<1> SUFFICES ASSUME Init PROVE Gauges /\ Counters
  OBVIOUS
<1>1. /\ free = (IF arena THEN {Root} ELSE {}) /\ DOMAIN live = {}
      /\ live_count = 0 /\ live_bytes = 0 /\ granted = 0 /\ requested = 0
      /\ splits = 0 /\ merges = 0
  BY DEF Init, Empty
<1>2. DOMAIN Grants = {} /\ SumOf(Grants, {}) = 0
  BY <1>1, SumEmpty DEF Grants
<1>3. Gauges
  BY <1>1, <1>2, FS_EmptySet DEF Gauges
<1>4. Blocks \in SUBSET {Root}
  BY <1>1 DEF Blocks
<1>5. IsFiniteSet(Blocks) /\ Cardinality(Blocks) <= 1
  BY <1>4, AtMostOne
<1>6. QED
  BY <1>1, <1>3, <1>5, FS_CardinalityType DEF Counters

LEMMA AccountingStep ==
  ASSUME IInv, Gauges, Counters, [Next]_vars
  PROVE  Gauges' /\ Counters'
<1>1. ASSUME UNCHANGED <<free, live, live_count, live_bytes, counters>>
      PROVE  Gauges' /\ Counters'
  BY <1>1 DEF Gauges, Counters, Grants, Blocks, counters
<1>2. ASSUME NEW req \in Request, AllocateRejected(req) \/ AllocateExhausted(req)
      PROVE  Gauges' /\ Counters'
  BY <1>1, <1>2 DEF AllocateRejected, AllocateExhausted
<1>3. ASSUME NEW h \in Handle, FreeUnknown(h)
      PROVE  Gauges' /\ Counters'
  BY <1>1, <1>3 DEF FreeUnknown
<1>4. CASE Reset \/ Shutdown
  <2>1. /\ free' \subseteq {Root} /\ DOMAIN live' = {}
        /\ live_count' = 0 /\ live_bytes' = 0 /\ UNCHANGED counters
    BY <1>4 DEF Reset, Shutdown, Empty
  <2>2. DOMAIN Grants' = {} /\ SumOf(Grants', {}) = 0
    BY <2>1, SumEmpty DEF Grants
  <2>3. granted \in Nat /\ splits \in Nat /\ merges \in Nat
    BY DEF IInv, TypeOK
  <2>4. Gauges'
    BY <2>1, <2>2, <2>3, FS_EmptySet DEF Gauges, counters
  <2>5. Blocks' \in SUBSET {Root}
    BY <2>1 DEF Blocks
  <2>6. IsFiniteSet(Blocks') /\ Cardinality(Blocks') <= 1 /\ Cardinality(Blocks') \in Nat
    BY <2>5, AtMostOne
  <2>7. Counters'
    BY <2>1, <2>3, <2>6 DEF Counters, counters
  <2>8. QED
    BY <2>4, <2>7
<1>5. CASE UNCHANGED vars
  BY <1>1, <1>5 DEF vars, counters
<1>6. QED
  BY <1>2, <1>3, <1>4, <1>5, AllocateGauges, AllocateCounters, FreeGauges, FreeCounters
    DEF Next

(* The gauges of statistics() agree with the handle table, and the split   *)
(* and merge counters bound the number of blocks, whatever the arena.      *)
THEOREM BuddyAccounting == Spec => []Accounting
<1>1. Init => IInv /\ Gauges /\ Counters
  BY InitIInv, AccountingInit
<1>2. (IInv /\ Gauges /\ Counters) /\ [Next]_vars => (IInv /\ Gauges /\ Counters)'
  BY NextIInv, AccountingStep
<1>3. IInv /\ Gauges /\ Counters => Accounting
  BY GaugesAccount
<1>4. QED
  BY <1>1, <1>2, <1>3, PTL DEF Spec
=============================================================================
