--------------------------- MODULE FreeListProofs ---------------------------
(***************************************************************************)
(* What FreeListAllocator keeps for every size of header, quantum and      *)
(* superblock, every placement of the superblocks by malloc and every      *)
(* content of the memory a split does not write.                           *)
(*                                                                         *)
(* The tiling of the superblocks is stated from both ends of a block, the  *)
(* header it begins with and the footer it ends with, because free() walks *)
(* from one to the other in both directions.  Marking, cutting, joining    *)
(* and adding a block each keep it (MarkTiled, SplitTiled, JoinTiled,      *)
(* GrowTiled), and every operation is made of those.                       *)
(***************************************************************************)
EXTENDS FreeListAllocator, ArithmeticLemmas

-----------------------------------------------------------------------------
(* The inductive invariant, in parts over any superblocks S, headers h,    *)
(* footers f, list and handles l, so that each merge of free() can be      *)
(* taken as a step of its own.                                             *)

(* Block a lies in its superblock; it begins where the superblock or       *)
(* another footer ends, ends with the superblock or where another block    *)
(* begins, and its footer repeats its size and state.                      *)
Whole(S, h, f, a) ==
  LET base == h[a].arena_base
      end == a + h[a].size
  IN /\ a \in Nat /\ h[a] \in Header /\ h[a].size >= MinBlock
     /\ base \in DOMAIN S /\ base <= a /\ end <= base + S[base]
     /\ a = base \/ a \in DOMAIN f
     /\ end = base + S[base] \/ end \in DOMAIN h
     /\ end \in DOMAIN f
     /\ f[end].size = h[a].size /\ (f[end].busy <=> h[a].magic = "busy")

Superblocks(S, h, f) ==
  \A b \in DOMAIN S :
    /\ b \in Places /\ S[b] \in Nat /\ S[b] <= MaxBytes
    /\ b \in DOMAIN h /\ b + S[b] \in DOMAIN f

Footers(h, f) ==
  \A e \in DOMAIN f :
    /\ f[e] \in [size : Nat, busy : BOOLEAN] /\ e \in Nat
    /\ e - f[e].size \in DOMAIN h /\ h[e - f[e].size].size = f[e].size

BlocksApart(h) ==
  \A a, b \in DOMAIN h : a # b => a + h[a].size <= b \/ b + h[b].size <= a

Tiled(S, h, f) ==
  /\ Superblocks(S, h, f)
  /\ \A a \in DOMAIN h : Whole(S, h, f, a)
  /\ Footers(h, f)
  /\ BlocksApart(h)
  /\ IsFiniteSet(DOMAIN h)

FreeBlocks(h) == {a \in DOMAIN h : h[a].magic = "free"}

(* The list has every free block once.                                     *)
Listed(h, list) ==
  /\ list \in Seq(Nat) /\ IsInjective(list)
  /\ ToSet(list) = FreeBlocks(h)

Busy(h) == DOMAIN h \ FreeBlocks(h)

(* Every other block is behind one handle.                                 *)
Handed(h, l) ==
  /\ {l[g] : g \in DOMAIN l} = Busy(h)
  /\ \A g, k \in DOMAIN l : l[g] = l[k] => g = k

Sizes(h, l) == [g \in DOMAIN l |-> h[l[g]].size - HeaderSize - FooterSize]

Gauges ==
  /\ live_count = Cardinality(DOMAIN live)
  /\ live_bytes = SumOf(Sizes(hdr, live), DOMAIN live)
  /\ {granted, requested} \subseteq Nat /\ granted >= requested /\ granted >= live_bytes
  /\ total_bytes = SumOf(superblocks, DOMAIN superblocks)
  /\ IsFiniteSet(DOMAIN superblocks) /\ total_bytes <= MaxBytes

Numbered ==
  /\ next_id \in 0..MaxIds /\ DOMAIN live \subseteq 1..next_id
  /\ result \in {"ok", "capacity_exceeded", "invalid_handle", "size_too_large",
                 "alignment_unsupported"}

IInv ==
  /\ Tiled(superblocks, hdr, ftr)
  /\ Listed(hdr, free_list)
  /\ Handed(hdr, live)
  /\ Gauges /\ Numbered

-----------------------------------------------------------------------------
(* Where blocks and superblocks lie.                                       *)

LEMMA BlockFacts ==
  ASSUME NEW S, NEW h, NEW f, Tiled(S, h, f), NEW a \in DOMAIN h
  PROVE  /\ a \in Nat /\ h[a] \in Header /\ h[a].size \in Nat /\ h[a].size >= MinBlock
         /\ MinBlock \in Nat /\ MinBlock > 0 /\ h[a].size > HeaderSize + FooterSize /\ h[a].size > 0
         /\ HeaderSize \in Nat /\ FooterSize \in Nat
         /\ h[a].arena_base \in DOMAIN S /\ h[a].arena_base \in Nat
         /\ h[a].arena_base <= a /\ a + h[a].size <= h[a].arena_base + S[h[a].arena_base]
         /\ a + h[a].size \in DOMAIN f /\ a + h[a].size \in Nat
<1>1. Whole(S, h, f, a)
  BY DEF Tiled
<1>2. a \in Nat /\ h[a] \in Header /\ h[a].size >= MinBlock
  BY <1>1 DEF Whole
<1>3. h[a].size \in Nat
  BY <1>2 DEF Header
<1>4. {HeaderSize, FooterSize, MinBlock} \subseteq Nat /\ HeaderSize + FooterSize < MinBlock
  BY FreeListAssumption
<1>5. /\ h[a].arena_base \in DOMAIN S /\ h[a].arena_base <= a
      /\ a + h[a].size <= h[a].arena_base + S[h[a].arena_base]
      /\ a + h[a].size \in DOMAIN f
  BY <1>1 DEF Whole
<1>6. h[a].arena_base \in Nat
  BY <1>2 DEF Header
<1>7. QED
  BY <1>2, <1>3, <1>4, <1>5, <1>6

LEMMA SuperblockFacts ==
  ASSUME NEW S, NEW h, NEW f, Tiled(S, h, f), NEW b \in DOMAIN S
  PROVE  /\ b \in Places /\ b \in Nat /\ S[b] \in Nat /\ S[b] <= MaxBytes /\ MaxBytes \in Nat
         /\ b \in DOMAIN h /\ b + S[b] \in DOMAIN f
<1>1. b \in Places /\ S[b] \in Nat /\ S[b] <= MaxBytes /\ b \in DOMAIN h /\ b + S[b] \in DOMAIN f
  BY DEF Tiled, Superblocks
<1>2. MaxBytes \in Nat /\ Places \subseteq Nat
  BY FreeListAssumption
<1>3. QED
  BY <1>1, <1>2

(* An address is in one superblock, or at the end of one, only.            *)
LEMMA OneSuperblock ==
  ASSUME NEW S, NEW h, NEW f, Tiled(S, h, f), NEW p \in DOMAIN S, NEW q \in DOMAIN S,
         NEW x \in Nat, p <= x, x <= p + S[p], q <= x, x <= q + S[q]
  PROVE  p = q
<1>1. /\ p \in Nat /\ S[p] \in Nat /\ S[p] <= MaxBytes /\ MaxBytes \in Nat
      /\ q \in Nat /\ S[q] \in Nat /\ S[q] <= MaxBytes
  BY SuperblockFacts
<1>2. (p < q => p + MaxBytes < q) /\ (q < p => q + MaxBytes < p)
  <2>1. p \in Places /\ q \in Places
    BY SuperblockFacts
  <2>2. QED
    BY <2>1, FreeListAssumption
<1>3. QED
  BY <1>1, <1>2

(* The block that begins where another one ends is in the same superblock. *)
LEMMA Neighbours ==
  ASSUME NEW S, NEW h, NEW f, Tiled(S, h, f), NEW a \in DOMAIN h, a + h[a].size \in DOMAIN h
  PROVE  h[a + h[a].size].arena_base = h[a].arena_base
<1> DEFINE b == a + h[a].size
           p == h[a].arena_base
           q == h[b].arena_base
<1>1. /\ a \in Nat /\ h[a].size \in Nat /\ p \in DOMAIN S /\ p \in Nat
      /\ p <= a /\ b <= p + S[p] /\ b \in Nat
  BY BlockFacts
<1>2. h[b].size \in Nat /\ q \in DOMAIN S /\ q \in Nat /\ q <= b /\ b + h[b].size <= q + S[q]
  BY BlockFacts
<1>3. S[q] \in Nat /\ S[p] \in Nat
  BY <1>1, <1>2, SuperblockFacts
<1>4. p <= b /\ b <= q + S[q]
  BY <1>1, <1>2, <1>3
<1> HIDE DEF b, p, q
<1>5. p = q
  BY <1>1, <1>2, <1>4, OneSuperblock
<1>6. QED
  BY <1>5 DEF b, p, q

(* Two blocks do not end at the same address, nor does one end inside      *)
(* another one.                                                            *)
LEMMA EndsDiffer ==
  ASSUME NEW S, NEW h, NEW f, Tiled(S, h, f), NEW a \in DOMAIN h, NEW b \in DOMAIN h, a # b
  PROVE  /\ a + h[a].size <= b \/ b + h[b].size <= a
         /\ ~ (a < b + h[b].size /\ b < a + h[a].size)
         /\ a + h[a].size # b + h[b].size
<1>1. /\ a \in Nat /\ h[a].size \in Nat /\ h[a].size > 0
      /\ b \in Nat /\ h[b].size \in Nat /\ h[b].size > 0
  BY BlockFacts
<1>2. a + h[a].size <= b \/ b + h[b].size <= a
  BY DEF Tiled, BlocksApart
<1>3. QED
  BY <1>1, <1>2

(* What ends at address e.                                                 *)
LEMMA FooterFacts ==
  ASSUME NEW S, NEW h, NEW f, Tiled(S, h, f), NEW e \in DOMAIN f
  PROVE  /\ e \in Nat /\ f[e].size \in Nat /\ f[e].size > 0 /\ f[e].busy \in BOOLEAN
         /\ f[e] \in [size : Nat, busy : BOOLEAN]
         /\ e - f[e].size \in DOMAIN h /\ e - f[e].size \in Nat
         /\ h[e - f[e].size].size = f[e].size /\ (e - f[e].size) + h[e - f[e].size].size = e
         /\ (f[e].busy <=> h[e - f[e].size].magic = "busy")
<1> DEFINE a == e - f[e].size
<1>1. e \in Nat /\ f[e] \in [size : Nat, busy : BOOLEAN] /\ a \in DOMAIN h /\ h[a].size = f[e].size
  BY DEF Tiled, Footers
<1>2. f[e].size \in Nat /\ f[e].busy \in BOOLEAN
  BY <1>1
<1>3. a \in Nat /\ h[a].size > 0
  BY <1>1, BlockFacts
<1>4. a + h[a].size = e
  BY <1>1, <1>2, <1>3
<1>5. Whole(S, h, f, a)
  BY <1>1 DEF Tiled
<1>6. f[e].busy <=> h[a].magic = "busy"
  BY <1>4, <1>5 DEF Whole
<1>7. QED
  BY <1>1, <1>2, <1>3, <1>4, <1>6

(* The block to the left of a block that does not begin its superblock.    *)
LEMMA LeftNeighbour ==
  ASSUME NEW S, NEW h, NEW f, Tiled(S, h, f), NEW a \in DOMAIN h, a # h[a].arena_base
  PROVE  /\ a \in DOMAIN f
         /\ h[a - f[a].size].arena_base = h[a].arena_base
<1>1. a \in DOMAIN f
  BY DEF Tiled, Whole
<1>2. a - f[a].size \in DOMAIN h /\ (a - f[a].size) + h[a - f[a].size].size = a
  BY <1>1, FooterFacts
<1> DEFINE l == a - f[a].size
<1> HIDE DEF l
<1>3. l \in DOMAIN h /\ l + h[l].size = a
  BY <1>2 DEF l
<1>4. h[l + h[l].size].arena_base = h[l].arena_base
  BY <1>3, Neighbours
<1>5. QED
  BY <1>1, <1>3, <1>4 DEF l

LEMMA BaseFacts ==
  ASSUME NEW S, NEW h, NEW f, Tiled(S, h, f), NEW b \in DOMAIN S
  PROVE  h[b].arena_base = b
<1> DEFINE q == h[b].arena_base
<1>1. b \in Nat /\ S[b] \in Nat /\ b \in DOMAIN h
  BY SuperblockFacts
<1>2. q \in DOMAIN S /\ q <= b /\ b + h[b].size <= q + S[q] /\ h[b].size \in Nat /\ q \in Nat
  BY <1>1, BlockFacts
<1>3. S[q] \in Nat
  BY <1>2, SuperblockFacts
<1>4. b <= b /\ b <= b + S[b] /\ b <= q + S[q]
  BY <1>1, <1>2, <1>3
<1> HIDE DEF q
<1>5. q = b
  BY <1>1, <1>2, <1>4, OneSuperblock
<1>6. QED
  BY <1>5 DEF q

-----------------------------------------------------------------------------
(* What becomes of the tiling.                                             *)

(* Only the state of block a changes.                                      *)
MarkedHeaders(h, a, m) == [h EXCEPT ![a].magic = m]

MarkedFooters(h, f, a, m) ==
  [f EXCEPT ![a + h[a].size] = [size |-> h[a].size, busy |-> (m = "busy")]]

LEMMA MarkTiled ==
  ASSUME NEW S, NEW h, NEW f, Tiled(S, h, f), NEW a \in DOMAIN h,
         NEW m \in {"free", "busy"}, NEW h2, NEW f2,
         h2 = MarkedHeaders(h, a, m), f2 = MarkedFooters(h, f, a, m)
  PROVE  Tiled(S, h2, f2)
<1> DEFINE end == a + h[a].size
<1>1. /\ a \in Nat /\ h[a] \in Header /\ h[a].size \in Nat /\ h[a].size > 0
      /\ end \in DOMAIN f /\ end \in Nat
  BY BlockFacts
<1>2. /\ DOMAIN h2 = DOMAIN h /\ h2[a] \in Header /\ h2[a].magic = m
      /\ h2[a].size = h[a].size /\ h2[a].arena_base = h[a].arena_base
      /\ \A x \in DOMAIN h \ {a} : h2[x] = h[x]
  BY <1>1 DEF Header, MarkedHeaders
<1>3. /\ DOMAIN f2 = DOMAIN f /\ f2[end] \in [size : Nat, busy : BOOLEAN]
      /\ f2[end].size = h[a].size /\ (f2[end].busy <=> m = "busy")
      /\ \A e \in DOMAIN f \ {end} : f2[e] = f[e]
  BY <1>1 DEF MarkedFooters
<1>4. \A x \in DOMAIN h : h2[x].size = h[x].size /\ h2[x].arena_base = h[x].arena_base
  BY <1>2
<1> HIDE DEF end
<1>5. ASSUME NEW x \in DOMAIN h PROVE Whole(S, h2, f2, x)
  <2>1. Whole(S, h, f, x)
    BY DEF Tiled
  <2>2. CASE x = a
    BY <1>2, <1>3, <2>1, <2>2 DEF Whole, end
  <2>3. CASE x # a
    <3>1. x + h[x].size # end
      BY <2>3, EndsDiffer DEF end
    <3>2. QED
      BY <1>2, <1>3, <2>1, <2>3, <3>1 DEF Whole
  <2>4. QED
    BY <2>2, <2>3
<1>6. Footers(h2, f2)
  <2>1. \A e \in DOMAIN f : f2[e].size = f[e].size /\ f2[e] \in [size : Nat, busy : BOOLEAN]
    <3> TAKE e \in DOMAIN f
    <3>1. CASE e = end
      <4>1. f[end].size = h[a].size
        BY DEF Tiled, Whole, end
      <4>2. QED
        BY <1>1, <1>3, <3>1, <4>1
    <3>2. CASE e # end
      BY <1>3, <3>2, FooterFacts
    <3>3. QED
      BY <3>1, <3>2
  <2>2. QED
    BY <1>2, <1>3, <1>4, <2>1 DEF Tiled, Footers
<1>7. Superblocks(S, h2, f2)
  BY <1>2, <1>3 DEF Tiled, Superblocks
<1>8. BlocksApart(h2)
  BY <1>2, <1>4 DEF Tiled, BlocksApart
<1>9. QED
  BY <1>2, <1>5, <1>6, <1>7, <1>8 DEF Tiled

(* Block a is cut at need: the rest becomes a block of its own.            *)
SplitHeaders(h, a, need, junk) ==
  [x \in DOMAIN h \cup {a + need} |->
     IF x = a THEN [h[a] EXCEPT !.magic = "busy", !.size = need]
     ELSE IF x = a + need
          THEN [magic |-> "free", size |-> h[a].size - need,
                arena_base |-> h[a].arena_base, arena_total |-> junk]
          ELSE h[x]]

SplitFooters(h, f, a, need) ==
  [x \in DOMAIN f \cup {a + need, a + h[a].size} |->
     IF x = a + need THEN BusyTag(need)
     ELSE IF x = a + h[a].size THEN [size |-> h[a].size - need, busy |-> FALSE]
          ELSE f[x]]

LEMMA SplitTiled ==
  ASSUME NEW S, NEW h, NEW f, Tiled(S, h, f), NEW a \in DOMAIN h,
         NEW need \in Nat, need >= MinBlock, h[a].size - need >= MinBlock,
         NEW h2, NEW f2, NEW junk \in Nat,
         h2 = SplitHeaders(h, a, need, junk), f2 = SplitFooters(h, f, a, need)
  PROVE  /\ Tiled(S, h2, f2)
         /\ a + need \notin DOMAIN h /\ a + need \in Nat
<1> DEFINE end == a + h[a].size
           rest == a + need
           base == h[a].arena_base
<1>1. /\ a \in Nat /\ h[a] \in Header /\ h[a].size \in Nat /\ MinBlock \in Nat /\ MinBlock > 0
      /\ end \in DOMAIN f /\ end \in Nat
  BY BlockFacts
<1>2. rest \in Nat /\ a < rest /\ rest < end
  BY <1>1
<1>3. \A x \in DOMAIN h : x \in Nat /\ h[x].size \in Nat /\ h[x].size > 0
  BY BlockFacts
<1>4. \A x \in DOMAIN h \ {a} : x + h[x].size <= a \/ end <= x
  BY EndsDiffer
<1>5. rest \notin DOMAIN h
  BY <1>2, <1>3, <1>4
<1>6. rest \notin DOMAIN f
  <2>1. SUFFICES ASSUME rest \in DOMAIN f PROVE FALSE
    OBVIOUS
  <2>2. PICK x \in DOMAIN h : x + h[x].size = rest
    BY <2>1, FooterFacts
  <2>3. QED
    BY <1>1, <1>2, <1>3, <1>4, <2>2
<1>7. /\ DOMAIN h2 = DOMAIN h \cup {rest}
      /\ h2[a] \in Header /\ h2[a].magic = "busy" /\ h2[a].size = need /\ h2[a].arena_base = base
      /\ \A x \in DOMAIN h \ {a} : h2[x] = h[x]
  BY <1>1, <1>5 DEF Header, SplitHeaders
<1>8. /\ h2[rest] \in Header /\ h2[rest].magic = "free" /\ h2[rest].size = h[a].size - need
      /\ h2[rest].arena_base = base
  BY <1>1, <1>2 DEF Header, SplitHeaders
<1>9. /\ DOMAIN f2 = DOMAIN f \cup {rest}
      /\ f2[rest] \in [size : Nat, busy : BOOLEAN] /\ f2[rest].size = need /\ f2[rest].busy
      /\ f2[end] \in [size : Nat, busy : BOOLEAN] /\ f2[end].size = h[a].size - need
      /\ ~ f2[end].busy
      /\ \A e \in DOMAIN f \ {end} : f2[e] = f[e]
  BY <1>1, <1>2, <1>6 DEF BusyTag, SplitFooters
<1> HIDE DEF end, rest, base
<1>10. rest = a + need /\ end = a + h[a].size /\ end = rest + (h[a].size - need)
  BY <1>1 DEF rest, end
<1>11. Whole(S, h, f, a)
  BY DEF Tiled
<1>12. base \in DOMAIN S /\ base \in Nat /\ base <= a /\ end <= base + S[base] /\ S[base] \in Nat
  BY <1>1, BlockFacts, SuperblockFacts DEF base, end
<1>13. Whole(S, h2, f2, a)
  <2>1. rest <= base + S[base]
    BY <1>1, <1>2, <1>12
  <2>2. a = base \/ a \in DOMAIN f
    BY <1>11 DEF Whole, base
  <2>3. QED
    BY <1>1, <1>7, <1>9, <1>10, <1>12, <2>1, <2>2 DEF Whole
<1>14. Whole(S, h2, f2, rest)
  <2>1. base <= rest /\ h2[rest].size >= MinBlock
    BY <1>1, <1>2, <1>8, <1>12
  <2>2. end = base + S[base] \/ end \in DOMAIN h
    BY <1>11 DEF Whole, base, end
  <2>3. rest + h2[rest].size = end
    BY <1>8, <1>10
  <2>4. QED
    BY <1>1, <1>2, <1>7, <1>8, <1>9, <1>12, <2>1, <2>2, <2>3 DEF Whole
<1>15. ASSUME NEW x \in DOMAIN h \ {a} PROVE Whole(S, h2, f2, x)
  <2>1. Whole(S, h, f, x)
    BY DEF Tiled
  <2>2. x + h[x].size # end
    BY EndsDiffer DEF end
  <2>3. QED
    BY <1>7, <1>9, <2>1, <2>2 DEF Whole
<1>16. Footers(h2, f2)
  <2>1. ASSUME NEW e \in DOMAIN f2
        PROVE  /\ f2[e] \in [size : Nat, busy : BOOLEAN] /\ e \in Nat
               /\ e - f2[e].size \in DOMAIN h2 /\ h2[e - f2[e].size].size = f2[e].size
    <3>1. CASE e = rest
      <4>1. e - f2[e].size = a
        BY <1>1, <1>9, <1>10, <3>1
      <4>2. QED
        BY <1>2, <1>7, <1>9, <3>1, <4>1
    <3>2. CASE e = end
      <4>1. end - (h[a].size - need) = rest /\ h[a].size - need \in Nat
        BY <1>1, <1>2, <1>10
      <4>2. QED
        BY <1>1, <1>7, <1>8, <1>9, <3>2, <4>1
    <3>3. CASE e # rest /\ e # end
      <4>1. e \in DOMAIN f /\ f2[e] = f[e]
        BY <1>9, <3>3
      <4> DEFINE o == e - f[e].size
      <4>2. /\ o \in DOMAIN h /\ h[o].size = f[e].size /\ o + h[o].size = e /\ e \in Nat
            /\ f[e] \in [size : Nat, busy : BOOLEAN]
        BY <4>1, FooterFacts
      <4>3. o # a
        BY <3>3, <4>2 DEF end
      <4> HIDE DEF o
      <4>4. h2[o] = h[o] /\ o \in DOMAIN h2
        BY <1>7, <4>2, <4>3
      <4>5. QED
        BY <4>1, <4>2, <4>4 DEF o
    <3>4. QED
      BY <3>1, <3>2, <3>3
  <2>2. QED
    BY <2>1 DEF Footers
<1>17. Superblocks(S, h2, f2)
  BY <1>7, <1>9 DEF Tiled, Superblocks
<1>18. BlocksApart(h2)
  <2>1. ASSUME NEW x \in DOMAIN h2, NEW y \in DOMAIN h2, x # y
        PROVE  x + h2[x].size <= y \/ y + h2[y].size <= x
    <3>1. CASE x \in DOMAIN h \ {a} /\ y \in DOMAIN h \ {a}
      BY <1>7, <2>1, <3>1 DEF Tiled, BlocksApart
    <3>2. ASSUME NEW z \in DOMAIN h \ {a}
          PROVE  /\ z + h2[z].size <= a \/ rest <= z
                 /\ z + h2[z].size <= rest \/ end <= z
      <4>1. h2[z] = h[z] /\ z \in Nat /\ h[z].size \in Nat
        BY <1>3, <1>7
      <4>2. z + h[z].size <= a \/ end <= z
        BY <1>4, <1>10
      <4>3. QED
        BY <1>1, <1>2, <4>1, <4>2
    <3>3. a + h2[a].size = rest /\ rest + h2[rest].size = end
      BY <1>7, <1>8, <1>10
    <3>4. x \in (DOMAIN h \ {a}) \cup {a, rest} /\ y \in (DOMAIN h \ {a}) \cup {a, rest}
      BY <1>7
    <3>5. CASE x = a
      <4>1. CASE y = rest
        BY <1>2, <3>3, <3>5, <4>1
      <4>2. CASE y \in DOMAIN h \ {a}
        BY <3>2, <3>3, <3>5, <4>2
      <4>3. QED
        BY <2>1, <3>4, <3>5, <4>1, <4>2
    <3>6. CASE x = rest
      <4>1. CASE y = a
        BY <1>2, <3>3, <3>6, <4>1
      <4>2. CASE y \in DOMAIN h \ {a}
        BY <3>2, <3>3, <3>6, <4>2
      <4>3. QED
        BY <2>1, <3>4, <3>6, <4>1, <4>2
    <3>7. CASE x \in DOMAIN h \ {a} /\ y \in {a, rest}
      BY <3>2, <3>3, <3>7
    <3>8. QED
      BY <3>1, <3>4, <3>5, <3>6, <3>7
  <2>2. QED
    BY <2>1 DEF BlocksApart
<1>19. IsFiniteSet(DOMAIN h2)
  <2>1. IsFiniteSet(DOMAIN h)
    BY DEF Tiled
  <2>2. QED
    BY <1>7, <2>1, FS_AddElement
<1>20. \A x \in DOMAIN h2 : Whole(S, h2, f2, x)
  BY <1>7, <1>13, <1>14, <1>15
<1>21. Tiled(S, h2, f2)
  BY <1>16, <1>17, <1>18, <1>19, <1>20 DEF Tiled
<1>22. QED
  BY <1>2, <1>5, <1>21 DEF rest

(* Block a and the one to its right become one free block.                 *)
JoinedHeaders(h, a) ==
  LET b == a + h[a].size
  IN [x \in DOMAIN h \ {b} |->
        IF x = a THEN [h[a] EXCEPT !.magic = "free", !.size = h[a].size + h[b].size]
        ELSE h[x]]

JoinedFooters(h, f, a) ==
  LET b == a + h[a].size
      size == h[a].size + h[b].size
  IN [e \in DOMAIN f \ {b} |-> IF e = a + size THEN [size |-> size, busy |-> FALSE] ELSE f[e]]

LEMMA JoinTiled ==
  ASSUME NEW S, NEW h, NEW f, Tiled(S, h, f), NEW a \in DOMAIN h, a + h[a].size \in DOMAIN h,
         NEW h2, NEW f2, h2 = JoinedHeaders(h, a), f2 = JoinedFooters(h, f, a)
  PROVE  Tiled(S, h2, f2)
<1> DEFINE b == a + h[a].size
           base == h[a].arena_base
           size == h[a].size + h[b].size
           end == b + h[b].size
<1>1. /\ a \in Nat /\ h[a] \in Header /\ h[a].size \in Nat /\ h[a].size > 0
      /\ b \in DOMAIN h /\ h[a].size >= MinBlock /\ MinBlock \in Nat
  BY BlockFacts
<1>2. b \in Nat /\ h[b].size \in Nat /\ h[b].size > 0 /\ end \in DOMAIN f /\ end \in Nat
  BY <1>1, BlockFacts
<1>3. size \in Nat /\ end = a + size /\ a < b /\ b < end /\ a # b /\ size >= MinBlock
  BY <1>1, <1>2
<1>4. h[b].arena_base = base
  BY Neighbours
<1>5. /\ DOMAIN h2 = DOMAIN h \ {b}
      /\ h2[a] \in Header /\ h2[a].magic = "free" /\ h2[a].size = size /\ h2[a].arena_base = base
      /\ \A x \in DOMAIN h \ {a, b} : h2[x] = h[x]
  BY <1>1, <1>3 DEF JoinedHeaders, Header
<1>6. /\ DOMAIN f2 = DOMAIN f \ {b}
      /\ f2[end] \in [size : Nat, busy : BOOLEAN] /\ f2[end].size = size /\ ~ f2[end].busy
      /\ \A e \in DOMAIN f \ {b, end} : f2[e] = f[e]
  BY <1>2, <1>3 DEF JoinedFooters
<1>7. \A x \in DOMAIN h : x \in Nat /\ h[x].size \in Nat /\ h[x].size > 0
  BY BlockFacts
<1>8. \A x \in DOMAIN h \ {a, b} : /\ x + h[x].size # b /\ x + h[x].size # end
                                   /\ x + h[x].size <= a \/ end <= x
  <2> TAKE x \in DOMAIN h \ {a, b}
  <2>1. x + h[x].size # a + h[a].size /\ x + h[x].size # b + h[b].size
    BY <1>1, EndsDiffer
  <2>2. /\ x + h[x].size <= a \/ b <= x
        /\ x + h[x].size <= b \/ end <= x
    BY <1>1, EndsDiffer
  <2>3. x \in Nat /\ h[x].size \in Nat /\ h[x].size > 0 /\ x # b
    BY <1>7
  <2> HIDE DEF b, end
  <2>4. x + h[x].size <= a \/ end <= x
    BY <1>1, <1>2, <1>3, <2>2, <2>3
  <2>5. QED
    BY <2>1, <2>4 DEF b, end
<1>9. b = a + h[a].size /\ end = b + h[b].size /\ base = h[a].arena_base
  OBVIOUS
<1>10. Whole(S, h, f, a) /\ Whole(S, h, f, b)
  BY <1>1 DEF Tiled
<1> HIDE DEF b, base, size, end
<1>11. Whole(S, h2, f2, a)
  <2>1. base \in DOMAIN S /\ base <= a /\ end <= base + S[base]
    BY <1>4, <1>9, <1>10 DEF Whole
  <2>2. a = base \/ a \in DOMAIN f \ {b}
    BY <1>3, <1>9, <1>10 DEF Whole
  <2>3. end = base + S[base] \/ end \in DOMAIN h \ {b}
    BY <1>3, <1>4, <1>9, <1>10 DEF Whole
  <2>4. a + h2[a].size = end /\ end # b
    BY <1>3, <1>5, <1>1, <1>2
  <2>5. QED
    BY <1>1, <1>2, <1>3, <1>5, <1>6, <2>1, <2>2, <2>3, <2>4 DEF Whole
<1>12. ASSUME NEW x \in DOMAIN h \ {a, b} PROVE Whole(S, h2, f2, x)
  <2>1. Whole(S, h, f, x)
    BY DEF Tiled
  <2>2. x + h[x].size # b /\ x + h[x].size # end
    BY <1>8
  <2>3. QED
    BY <1>5, <1>6, <2>1, <2>2 DEF Whole
<1>13. Footers(h2, f2)
  <2>1. ASSUME NEW e \in DOMAIN f2
        PROVE  /\ f2[e] \in [size : Nat, busy : BOOLEAN] /\ e \in Nat
               /\ e - f2[e].size \in DOMAIN h2 /\ h2[e - f2[e].size].size = f2[e].size
    <3>1. CASE e = end
      <4>1. end - size = a
        BY <1>1, <1>3
      <4>2. QED
        BY <1>2, <1>3, <1>1, <1>5, <1>6, <3>1, <4>1
    <3>2. CASE e # end
      <4>1. e \in DOMAIN f \ {b} /\ f2[e] = f[e]
        BY <1>6, <3>2
      <4> DEFINE o == e - f[e].size
      <4>2. /\ o \in DOMAIN h /\ h[o].size = f[e].size /\ o + h[o].size = e /\ e \in Nat
            /\ f[e] \in [size : Nat, busy : BOOLEAN]
        BY <4>1, FooterFacts
      <4> HIDE DEF o
      <4>3. o # a /\ o # b
        BY <1>9, <3>2, <4>1, <4>2
      <4>4. h2[o] = h[o] /\ o \in DOMAIN h2
        BY <1>5, <4>2, <4>3
      <4>5. QED
        BY <4>1, <4>2, <4>4 DEF o
    <3>3. QED
      BY <3>1, <3>2
  <2>2. QED
    BY <2>1 DEF Footers
<1>14. Superblocks(S, h2, f2)
  <2>1. ASSUME NEW q \in DOMAIN S
        PROVE  q # b /\ q + S[q] # b
    <3>1. q \in Nat /\ S[q] \in Nat /\ h[q].arena_base = q
      BY SuperblockFacts, BaseFacts
    <3>2. /\ base \in DOMAIN S /\ base \in Nat /\ base <= a /\ end <= base + S[base]
          /\ S[base] \in Nat
      BY <1>1, <1>4, <1>9, <1>10, BlockFacts, SuperblockFacts DEF Whole
    <3>3. q # b
      BY <1>1, <1>2, <1>3, <1>4, <3>1, <3>2
    <3>4. CASE q + S[q] = b
      <4>1. q <= b /\ b <= q + S[q] /\ base <= b /\ b <= base + S[base]
        BY <1>1, <1>2, <1>3, <3>1, <3>2, <3>4
      <4>2. q = base
        BY <1>2, <3>2, <4>1, OneSuperblock
      <4>3. QED
        BY <1>2, <1>3, <3>1, <3>2, <3>4, <4>2
    <3>5. QED
      BY <3>3, <3>4
  <2>2. QED
    BY <1>5, <1>6, <2>1 DEF Tiled, Superblocks
<1>15. BlocksApart(h2)
  <2>1. ASSUME NEW x \in DOMAIN h2, NEW y \in DOMAIN h2, x # y
        PROVE  x + h2[x].size <= y \/ y + h2[y].size <= x
    <3>1. a + h2[a].size = end
      BY <1>3, <1>5
    <3>2. CASE x = a
      <4>1. y \in DOMAIN h \ {a, b} /\ h2[y] = h[y]
        BY <1>5, <2>1, <3>2
      <4>2. QED
        BY <1>8, <3>1, <3>2, <4>1
    <3>3. CASE y = a
      <4>1. x \in DOMAIN h \ {a, b} /\ h2[x] = h[x]
        BY <1>5, <2>1, <3>3
      <4>2. QED
        BY <1>8, <3>1, <3>3, <4>1
    <3>4. CASE x # a /\ y # a
      BY <1>5, <2>1, <3>4 DEF Tiled, BlocksApart
    <3>5. QED
      BY <3>2, <3>3, <3>4
  <2>2. QED
    BY <2>1 DEF BlocksApart
<1>16. IsFiniteSet(DOMAIN h2)
  <2>1. IsFiniteSet(DOMAIN h)
    BY DEF Tiled
  <2>2. QED
    BY <1>5, <2>1, FS_Subset
<1>17. \A x \in DOMAIN h2 : Whole(S, h2, f2, x)
  BY <1>5, <1>11, <1>12
<1>18. QED
  BY <1>13, <1>14, <1>15, <1>16, <1>17 DEF Tiled

(* A new superblock is one free block.                                     *)
GrownSuperblocks(S, mem, sz) ==
  [x \in DOMAIN S \cup {mem} |-> IF x = mem THEN sz ELSE S[x]]

GrownHeaders(h, mem, sz) ==
  [x \in DOMAIN h \cup {mem} |->
     IF x = mem THEN [magic |-> "free", size |-> sz, arena_base |-> mem, arena_total |-> sz]
     ELSE h[x]]

GrownFooters(f, mem, sz) ==
  [x \in DOMAIN f \cup {mem + sz} |->
     IF x = mem + sz THEN [size |-> sz, busy |-> FALSE] ELSE f[x]]

LEMMA GrowTiled ==
  ASSUME NEW S, NEW h, NEW f, Tiled(S, h, f), NEW mem \in Places \ DOMAIN S,
         NEW sz \in Nat, sz >= MinBlock, sz <= MaxBytes,
         NEW S2, NEW h2, NEW f2, S2 = GrownSuperblocks(S, mem, sz),
         h2 = GrownHeaders(h, mem, sz), f2 = GrownFooters(f, mem, sz)
  PROVE  /\ Tiled(S2, h2, f2)
         /\ mem \notin DOMAIN h /\ mem \in Nat
<1> DEFINE end == mem + sz
<1>1. mem \in Nat /\ MaxBytes \in Nat /\ MinBlock \in Nat /\ MinBlock > 0 /\ end \in Nat
      /\ sz > 0
  BY FreeListAssumption
<1> HIDE DEF end
<1>2. ASSUME NEW p \in DOMAIN S
      PROVE  /\ p \in Nat /\ S[p] \in Nat /\ p # mem
             /\ p + S[p] < mem \/ end < p
  <2>1. p \in Places /\ p \in Nat /\ S[p] \in Nat /\ S[p] <= MaxBytes
    BY SuperblockFacts
  <2>2. (p < mem => p + MaxBytes < mem) /\ (mem < p => mem + MaxBytes < p)
    BY <2>1, FreeListAssumption
  <2>3. QED
    BY <1>1, <2>1, <2>2 DEF end
<1>3. ASSUME NEW x \in DOMAIN h
      PROVE  /\ x \in Nat /\ h[x].size \in Nat /\ h[x].size > 0
             /\ x + h[x].size < mem \/ end < x
  <2> DEFINE p == h[x].arena_base
  <2>1. /\ x \in Nat /\ h[x].size \in Nat /\ h[x].size > 0 /\ p \in DOMAIN S /\ p <= x
        /\ x + h[x].size <= p + S[p]
    BY BlockFacts
  <2> HIDE DEF p
  <2>2. p \in Nat /\ S[p] \in Nat /\ (p + S[p] < mem \/ end < p)
    BY <1>2, <2>1
  <2>3. QED
    BY <1>1, <2>1, <2>2
<1>4. mem \notin DOMAIN h /\ mem \notin DOMAIN S
  BY <1>1, <1>3 DEF end
<1>5. end \notin DOMAIN f
  <2>1. SUFFICES ASSUME end \in DOMAIN f PROVE FALSE
    OBVIOUS
  <2>2. PICK x \in DOMAIN h : x + h[x].size = end
    BY <2>1, FooterFacts
  <2>3. QED
    BY <1>1, <1>3, <2>2 DEF end
<1>6. /\ DOMAIN S2 = DOMAIN S \cup {mem} /\ S2[mem] = sz
      /\ \A p \in DOMAIN S : S2[p] = S[p]
  BY <1>4 DEF GrownSuperblocks
<1>7. /\ DOMAIN h2 = DOMAIN h \cup {mem} /\ h2[mem] \in Header /\ h2[mem].magic = "free"
      /\ h2[mem].size = sz /\ h2[mem].arena_base = mem
      /\ \A x \in DOMAIN h : h2[x] = h[x]
  BY <1>1, <1>4 DEF GrownHeaders, Header
<1>8. /\ DOMAIN f2 = DOMAIN f \cup {end} /\ f2[end] \in [size : Nat, busy : BOOLEAN]
      /\ f2[end].size = sz /\ ~ f2[end].busy
      /\ \A e \in DOMAIN f : f2[e] = f[e]
  BY <1>5 DEF GrownFooters, end
<1>9. Whole(S2, h2, f2, mem)
  BY <1>1, <1>6, <1>7, <1>8 DEF Whole, end
<1>10. ASSUME NEW x \in DOMAIN h PROVE Whole(S2, h2, f2, x)
  <2>1. Whole(S, h, f, x)
    BY DEF Tiled
  <2>2. QED
    BY <1>6, <1>7, <1>8, <2>1 DEF Whole
<1>11. Footers(h2, f2)
  <2>1. end - sz = mem
    BY <1>1 DEF end
  <2>2. QED
    BY <1>1, <1>7, <1>8, <2>1 DEF Tiled, Footers
<1>12. Superblocks(S2, h2, f2)
  BY <1>6, <1>7, <1>8 DEF Tiled, Superblocks, end
<1>13. BlocksApart(h2)
  <2>1. ASSUME NEW x \in DOMAIN h
        PROVE  x + h2[x].size <= mem \/ mem + h2[mem].size <= x
    BY <1>1, <1>3, <1>7 DEF end
  <2>2. QED
    BY <1>7, <2>1 DEF Tiled, BlocksApart
<1>14. IsFiniteSet(DOMAIN h2)
  <2>1. IsFiniteSet(DOMAIN h)
    BY DEF Tiled
  <2>2. QED
    BY <1>7, <2>1, FS_AddElement
<1>15. \A x \in DOMAIN h2 : Whole(S2, h2, f2, x)
  BY <1>7, <1>9, <1>10
<1>16. QED
  BY <1>1, <1>4, <1>11, <1>12, <1>13, <1>14, <1>15 DEF Tiled

-----------------------------------------------------------------------------
(* Lists without repetition.                                               *)

LEMMA Unlinked ==
  ASSUME NEW s \in Seq(Nat), IsInjective(s), NEW x \in Nat
  PROVE  /\ Unlink(s, x) \in Seq(Nat) /\ IsInjective(Unlink(s, x))
         /\ ToSet(Unlink(s, x)) = ToSet(s) \ {x}
<1>1. CASE \E k \in 1..Len(s) : s[k] = x
  <2> DEFINE I == {k \in 1..Len(s) : s[k] = x}
             i == Min(I)
  <2>1. I # {} /\ I \in SUBSET Nat /\ I \subseteq 1..Len(s)
    BY <1>1
  <2>2. i \in I
    <3>1. \E m \in I : \A y \in I : m <= y
      <4> HIDE DEF I
      <4>1. QED
        BY <2>1, NatMin
    <3> HIDE DEF I
    <3>2. QED
      BY <3>1 DEF Min
  <2>3. i \in 1..Len(s) /\ s[i] = x
    BY <2>2
  <2>4. Unlink(s, x) = RemoveAt(s, i)
    BY <1>1, <2>1 DEF Unlink, RemoveFirst, SelectInSeq
  <2> HIDE DEF i
  <2>5. QED
    BY <2>3, <2>4, RemovedAt
<1>2. CASE ~ \E k \in 1..Len(s) : s[k] = x
  <2>1. Unlink(s, x) = s /\ x \notin ToSet(s)
    BY <1>2, ListFacts DEF Unlink, RemoveFirst
  <2>2. QED
    BY <2>1
<1>3. QED
  BY <1>1, <1>2

LEMMA Pushed ==
  ASSUME NEW s \in Seq(Nat), IsInjective(s), NEW x \in Nat, x \notin ToSet(s)
  PROVE  /\ <<x>> \o s \in Seq(Nat) /\ IsInjective(<<x>> \o s)
         /\ ToSet(<<x>> \o s) = ToSet(s) \cup {x}
         /\ (<<x>> \o s)[1] = x /\ 1 \in 1..Len(<<x>> \o s)
<1> DEFINE r == <<x>> \o s
           n == Len(s)
<1>1. n \in Nat /\ DOMAIN s = 1..n
  OBVIOUS
<1>2. /\ r \in Seq(Nat) /\ Len(r) = n + 1 /\ r[1] = x
      /\ \A k \in 2..(n + 1) : r[k] = s[k - 1]
  BY <1>1
<1>3. \A k \in 1..n : r[k + 1] = s[k]
  BY <1>1
<1>4. \A j, k \in 1..n : s[j] = s[k] => j = k
  BY <1>1 DEF IsInjective
<1>5. \A y : y \in ToSet(s) <=> \E k \in 1..n : s[k] = y
  BY ListFacts
<1> HIDE DEF r, n
<1>6. DOMAIN r = 1..(n + 1)
  BY <1>2
<1>7. IsInjective(r)
  <2>1. ASSUME NEW j \in 1..(n + 1), NEW k \in 1..(n + 1), r[j] = r[k]
        PROVE  j = k
    <3>1. \A m \in 2..(n + 1) : m - 1 \in 1..n /\ r[m] = s[m - 1] /\ r[m] # x
      BY <1>1, <1>2, <1>5
    <3>2. (j = 1 \/ j \in 2..(n + 1)) /\ (k = 1 \/ k \in 2..(n + 1))
      BY <1>1
    <3>3. CASE j = 1 \/ k = 1
      BY <1>2, <2>1, <3>1, <3>2, <3>3
    <3>4. CASE j \in 2..(n + 1) /\ k \in 2..(n + 1)
      <4>1. j - 1 = k - 1
        BY <1>4, <2>1, <3>1, <3>4
      <4>2. QED
        BY <1>1, <3>4, <4>1
    <3>5. QED
      BY <3>2, <3>3, <3>4
  <2>2. QED
    BY <1>6, <2>1 DEF IsInjective
<1>8. \A y : y \in ToSet(r) <=> \E k \in 1..(n + 1) : r[k] = y
  BY <1>2, ListFacts
<1>9. ToSet(r) = ToSet(s) \cup {x}
  <2>1. ASSUME NEW y \in ToSet(r) PROVE y = x \/ y \in ToSet(s)
    <3>1. PICK k \in 1..(n + 1) : r[k] = y
      BY <1>8, <2>1
    <3>2. k = 1 \/ (k \in 2..(n + 1) /\ k - 1 \in 1..n)
      BY <1>1
    <3>3. QED
      BY <1>2, <1>5, <3>1, <3>2
  <2>2. x \in ToSet(r)
    BY <1>1, <1>2, <1>8
  <2>3. ASSUME NEW y \in ToSet(s) PROVE y \in ToSet(r)
    <3>1. PICK k \in 1..n : s[k] = y
      BY <1>5
    <3>2. k + 1 \in 1..(n + 1) /\ r[k + 1] = y
      BY <1>1, <1>3, <3>1
    <3>3. QED
      BY <1>8, <3>2
  <2>4. QED
    BY <2>1, <2>2, <2>3
<1>10. QED
  BY <1>1, <1>2, <1>7, <1>9 DEF r

LEMMA Replaced ==
  ASSUME NEW s \in Seq(Nat), IsInjective(s), NEW i \in 1..Len(s), NEW x \in Nat, x \notin ToSet(s)
  PROVE  /\ [s EXCEPT ![i] = x] \in Seq(Nat) /\ IsInjective([s EXCEPT ![i] = x])
         /\ ToSet([s EXCEPT ![i] = x]) = (ToSet(s) \ {s[i]}) \cup {x}
<1> DEFINE r == [s EXCEPT ![i] = x]
<1>1. /\ r \in Seq(Nat) /\ Len(r) = Len(s) /\ Len(s) \in Nat /\ DOMAIN s = 1..Len(s)
      /\ DOMAIN r = 1..Len(s)
      /\ r[i] = x /\ \A k \in 1..Len(s) \ {i} : r[k] = s[k]
  OBVIOUS
<1> HIDE DEF r
<1>2. \A y : y \in ToSet(s) <=> \E k \in 1..Len(s) : s[k] = y
  BY ListFacts
<1>3. \A y : y \in ToSet(r) <=> \E k \in 1..Len(s) : r[k] = y
  BY <1>1, ListFacts
<1>4. \A j, k \in 1..Len(s) : s[j] = s[k] => j = k
  BY <1>1 DEF IsInjective
<1>5. \A j, k \in 1..Len(s) : r[j] = r[k] => j = k
  BY <1>1, <1>2, <1>4
<1>6. \A y : y \in ToSet(r) <=> y = x \/ (y \in ToSet(s) /\ y # s[i])
  BY <1>1, <1>2, <1>3, <1>4
<1>7. ToSet(r) = (ToSet(s) \ {s[i]}) \cup {x}
  BY <1>2, <1>6
<1>8. QED
  BY <1>1, <1>5, <1>7 DEF IsInjective, r

LEMMA ListCounted ==
  ASSUME NEW s \in Seq(Nat), IsInjective(s)
  PROVE  Cardinality(ToSet(s)) = Len(s)
<1> DEFINE n == Len(s)
<1>1. n \in Nat /\ DOMAIN s = 1..n
  OBVIOUS
<1>2. IsFiniteSet(1..n) /\ Cardinality(1..n) = n
  BY SMTT(60), <1>1, FS_Interval
<1>3. \A j, k \in 1..n : s[j] = s[k] => j = k
  BY <1>1 DEF IsInjective
<1> HIDE DEF n
<1>4. Cardinality({s[k] : k \in 1..n}) = n
  BY <1>1, <1>2, <1>3, ImageCard
<1>5. QED
  BY <1>1, <1>4 DEF ToSet, n
-----------------------------------------------------------------------------
(* Sizes.                                                                  *)

LEMMA AlignUpFacts ==
  ASSUME NEW v \in Nat, v > 0, NEW a \in Nat, a > 0
  PROVE  AlignUp(v, a) \in Nat /\ AlignUp(v, a) >= v /\ AlignUp(v, a) >= a
<1> DEFINE n == v + a - 1
           q == n \div a
<1>1. n \in Nat /\ n = v + a - 1
  OBVIOUS
<1>2. q \in Nat /\ n % a \in Nat /\ n % a < a /\ n = a * q + (n % a)
  BY <1>1, DivMod
<1>3. AlignUp(v, a) = q * a
  BY DEF AlignUp
<1> HIDE DEF n, q
<1>4. q * a \in Nat /\ q * a = a * q
  BY <1>2
<1>5. q * a >= v
  BY <1>1, <1>2, <1>4
<1>6. q # 0
  BY <1>4, <1>5
<1>7. PICK e \in Nat : q = e + 1
  <2>1. q - 1 \in Nat /\ q = (q - 1) + 1
    BY <1>2, <1>6
  <2>2. QED
    BY <2>1
<1>8. e * a \in Nat /\ q * a = e * a + a
  BY <1>7
<1>9. QED
  BY <1>3, <1>4, <1>5, <1>8

LEMMA NeedFacts ==
  ASSUME NEW req \in Request
  PROVE  /\ req.size \in Nat /\ Need(req) \in Nat /\ Need(req) >= MinBlock /\ MinBlock \in Nat
         /\ Need(req) - HeaderSize - FooterSize >= req.size
<1> DEFINE v == IF req.size = 0 THEN 1 ELSE req.size
           u == AlignUp(v, Quantum)
<1>1. /\ {HeaderSize, FooterSize, MinBlock, Quantum} \subseteq Nat /\ Quantum > 0
      /\ MinBlock <= HeaderSize + Quantum + FooterSize
      /\ req.size \in Nat
  BY FreeListAssumption
<1>2. v \in Nat /\ v > 0 /\ v >= req.size
  BY <1>1
<1> HIDE DEF v
<1>3. u \in Nat /\ u >= v /\ u >= Quantum
  BY <1>1, <1>2, AlignUpFacts
<1>4. Need(req) = HeaderSize + u + FooterSize
  BY DEF Need, v
<1> HIDE DEF u
<1>5. QED
  BY <1>1, <1>2, <1>3, <1>4

LEMMA GrowthFacts ==
  ASSUME NEW need \in Nat
  PROVE  GrowthFor(need) \in Nat /\ GrowthFor(need) >= need
<1>1. SuperblockSize \in Nat /\ SuperblockSize > 0
  BY FreeListAssumption
<1>2. CASE SuperblockSize > need
  BY <1>1, <1>2 DEF GrowthFor
<1>3. CASE ~ (SuperblockSize > need)
  <2>1. need > 0
    BY <1>1, <1>3
  <2>2. AlignUp(need, SuperblockSize) \in Nat /\ AlignUp(need, SuperblockSize) >= need
    BY <1>1, <2>1, AlignUpFacts
  <2>3. QED
    BY <1>3, <2>2 DEF GrowthFor
<1>4. QED
  BY <1>2, <1>3

LEMMA FirstFitFacts ==
  ASSUME NEW h, NEW list \in Seq(Nat), NEW need, FirstFit(h, list, need) > 0
  PROVE  /\ FirstFit(h, list, need) \in 1..Len(list)
         /\ h[list[FirstFit(h, list, need)]].size >= need
<1> DEFINE I == {k \in 1..Len(list) : h[list[k]].size >= need}
           i == FirstFit(h, list, need)
<1>1. i = IF I # {} THEN Min(I) ELSE 0
  BY DEF FirstFit, SelectInSeq
<1>2. I \in SUBSET Nat
  OBVIOUS
<1>3. I # {}
  <2> HIDE DEF I
  <2>1. QED
    BY <1>1
<1>4. i \in I
  <2> HIDE DEF I
  <2>1. \E m \in I : \A y \in I : m <= y
    BY <1>2, <1>3, NatMin
  <2>2. QED
    BY <1>1, <1>3, <2>1 DEF Min
<1> HIDE DEF i
<1>5. QED
  BY <1>4 DEF i

-----------------------------------------------------------------------------
(* allocate().                                                             *)

(* Block a goes from the free list into somebody's hands; what others hold *)
(* is as it was.                                                           *)
Taken(h, h2, a) ==
  /\ a \notin Busy(h) /\ Busy(h2) = Busy(h) \cup {a}
  /\ \A x \in Busy(h) : h2[x] = h[x]

LEMMA SplitStep ==
  ASSUME NEW S, NEW h, NEW f, Tiled(S, h, f), NEW list, Listed(h, list),
         NEW i \in 1..Len(list), NEW need \in Nat, need >= MinBlock,
         h[list[i]].size >= need, NEW junk \in Nat, Split(h, f, list, i, need, junk)
  PROVE  /\ Tiled(S, hdr', ftr') /\ Listed(hdr', free_list')
         /\ Taken(h, hdr', list[i])
         /\ hdr'[list[i]].size >= need
<1> DEFINE a == list[i]
           rest == a + need
<1>1. list \in Seq(Nat) /\ IsInjective(list) /\ ToSet(list) = FreeBlocks(h)
  BY DEF Listed
<1>2. a \in ToSet(list) /\ a \in Nat
  BY <1>1, ListFacts
<1>3. a \in DOMAIN h /\ h[a].magic = "free"
  BY <1>1, <1>2 DEF FreeBlocks
<1>4. h[a] \in Header /\ h[a].size \in Nat /\ MinBlock \in Nat
  BY <1>3, BlockFacts
<1>5. CASE LeavesBlock(h[a].size, need)
  <2>1. /\ hdr' = SplitHeaders(h, a, need, junk) /\ ftr' = SplitFooters(h, f, a, need)
        /\ free_list' = [list EXCEPT ![i] = rest]
    BY <1>5 DEF Split, SplitHeaders, SplitFooters
  <2>2. h[a].size - need >= MinBlock
    BY <1>5 DEF LeavesBlock
  <2>3. Tiled(S, hdr', ftr') /\ rest \notin DOMAIN h /\ rest \in Nat
    <3> HIDE DEF a
    <3>1. QED
      BY <1>3, <2>1, <2>2, SplitTiled
  <2>4. /\ DOMAIN hdr' = DOMAIN h \cup {rest} /\ hdr'[a].magic = "busy" /\ hdr'[a].size = need
        /\ hdr'[rest].magic = "free"
        /\ \A x \in DOMAIN h \ {a} : hdr'[x] = h[x]
    BY <1>3, <1>4, <2>1, <2>3 DEF SplitHeaders, Header
  <2> HIDE DEF rest, a
  <2>5. FreeBlocks(hdr') = (FreeBlocks(h) \ {a}) \cup {rest}
    BY <1>3, <2>3, <2>4 DEF FreeBlocks
  <2>6. Busy(hdr') = Busy(h) \cup {a} /\ a \notin Busy(h)
    BY <1>3, <2>3, <2>4, <2>5 DEF Busy, FreeBlocks
  <2>7. rest \notin ToSet(list)
    BY <1>1, <2>3 DEF FreeBlocks
  <2>8. /\ free_list' \in Seq(Nat) /\ IsInjective(free_list')
        /\ ToSet(free_list') = (ToSet(list) \ {list[i]}) \cup {rest}
    BY <1>1, <2>1, <2>3, <2>7, Replaced
  <2>9. Listed(hdr', free_list')
    BY <1>1, <2>5, <2>8 DEF Listed, a
  <2>10. Taken(h, hdr', a)
    BY <2>4, <2>6 DEF Taken, Busy
  <2>11. QED
    BY <2>3, <2>4, <2>9, <2>10 DEF a
<1>6. CASE ~ LeavesBlock(h[a].size, need)
  <2>1. /\ hdr' = MarkedHeaders(h, a, "busy") /\ ftr' = MarkedFooters(h, f, a, "busy")
        /\ free_list' = RemoveAt(list, i)
    BY <1>6 DEF Split, MarkedHeaders, MarkedFooters, BusyTag
  <2>2. Tiled(S, hdr', ftr')
    <3> HIDE DEF a
    <3>1. QED
      BY <1>3, <2>1, MarkTiled
  <2>3. /\ DOMAIN hdr' = DOMAIN h /\ hdr'[a].magic = "busy" /\ hdr'[a].size = h[a].size
        /\ \A x \in DOMAIN h \ {a} : hdr'[x] = h[x]
    BY <1>3, <1>4, <2>1 DEF MarkedHeaders, Header
  <2> HIDE DEF a
  <2>4. FreeBlocks(hdr') = FreeBlocks(h) \ {a}
    BY <1>3, <2>3 DEF FreeBlocks
  <2>5. Busy(hdr') = Busy(h) \cup {a} /\ a \notin Busy(h)
    BY <1>3, <2>3, <2>4 DEF Busy, FreeBlocks
  <2>6. /\ free_list' \in Seq(Nat) /\ IsInjective(free_list')
        /\ ToSet(free_list') = ToSet(list) \ {list[i]}
    BY <1>1, <2>1, RemovedAt
  <2>7. Listed(hdr', free_list')
    BY <1>1, <2>4, <2>6 DEF Listed, a
  <2>8. Taken(h, hdr', a)
    BY <2>3, <2>5 DEF Taken, Busy
  <2>9. QED
    BY <2>2, <2>3, <2>7, <2>8 DEF a
<1>7. QED
  BY <1>5, <1>6

(* What is behind the handles does not change size.                        *)
LEMMA SizesKept ==
  ASSUME NEW h, NEW h2, NEW l, \A g \in DOMAIN l : h2[l[g]].size = h[l[g]].size
  PROVE  Sizes(h2, l) = Sizes(h, l)
BY DEF Sizes

LEMMA SizesFacts ==
  ASSUME NEW S, NEW h, NEW f, Tiled(S, h, f), NEW l, Handed(h, l)
  PROVE  /\ DOMAIN Sizes(h, l) = DOMAIN l
         /\ \A g \in DOMAIN l : /\ l[g] \in DOMAIN h /\ l[g] \in Busy(h) /\ l[g] \in Nat
                                /\ h[l[g]].size \in Nat /\ h[l[g]].size > HeaderSize + FooterSize
                                /\ Sizes(h, l)[g] = h[l[g]].size - HeaderSize - FooterSize
                                /\ Sizes(h, l)[g] \in Nat /\ Sizes(h, l)[g] > 0
<1>1. DOMAIN Sizes(h, l) = DOMAIN l
  BY DEF Sizes
<1>2. ASSUME NEW g \in DOMAIN l
      PROVE  /\ l[g] \in DOMAIN h /\ l[g] \in Busy(h) /\ l[g] \in Nat
             /\ h[l[g]].size \in Nat /\ h[l[g]].size > HeaderSize + FooterSize
             /\ Sizes(h, l)[g] = h[l[g]].size - HeaderSize - FooterSize
             /\ Sizes(h, l)[g] \in Nat /\ Sizes(h, l)[g] > 0
  <2>1. l[g] \in Busy(h)
    BY DEF Handed
  <2>2. l[g] \in DOMAIN h
    BY <2>1 DEF Busy
  <2>3. /\ l[g] \in Nat /\ h[l[g]].size \in Nat /\ h[l[g]].size > HeaderSize + FooterSize
        /\ HeaderSize \in Nat /\ FooterSize \in Nat
    BY <2>2, BlockFacts
  <2>4. Sizes(h, l)[g] = h[l[g]].size - HeaderSize - FooterSize
    BY DEF Sizes
  <2>5. QED
    BY <2>1, <2>2, <2>3, <2>4
<1>3. QED
  BY <1>1, <1>2

(* The handles live are finitely many.                                     *)
LEMMA FiniteHandles ==
  ASSUME Numbered
  PROVE  /\ MaxIds \in Nat /\ next_id \in Nat /\ next_id + 1 \notin DOMAIN live
         /\ IsFiniteSet(DOMAIN live) /\ Cardinality(DOMAIN live) \in Nat
<1>1. MaxIds \in Nat
  BY FreeListAssumption
<1>2. next_id \in Nat /\ DOMAIN live \subseteq 1..next_id
  BY <1>1 DEF Numbered
<1>3. IsFiniteSet(1..next_id)
  BY <1>2, FS_Interval
<1>4. IsFiniteSet(DOMAIN live)
  BY <1>2, <1>3, FS_Subset
<1>5. next_id + 1 \notin DOMAIN live
  BY <1>2
<1>6. QED
  BY <1>1, <1>2, <1>4, <1>5, FS_CardinalityType

(* A block taken goes behind a fresh handle, and the gauges count it.      *)
LEMMA HandOutStep ==
  ASSUME Tiled(superblocks, hdr, ftr), Handed(hdr, live), Gauges, Numbered,
         Tiled(superblocks', hdr', ftr'), NEW a, Taken(hdr, hdr', a),
         NEW req \in Request, hdr'[a].size >= Need(req), next_id < MaxIds, HandOut(req, a)
  PROVE  /\ Handed(hdr', live') /\ Numbered'
         /\ live_count' = Cardinality(DOMAIN live')
         /\ live_bytes' = SumOf(Sizes(hdr', live'), DOMAIN live')
         /\ {granted', requested'} \subseteq Nat
         /\ granted' >= requested' /\ granted' >= live_bytes'
<1> DEFINE id == next_id + 1
           size == hdr'[a].size - HeaderSize - FooterSize
           F == Sizes(hdr, live)
           G == Sizes(hdr', live')
<1>1. /\ MaxIds \in Nat /\ next_id \in Nat /\ id \notin DOMAIN live
      /\ IsFiniteSet(DOMAIN live) /\ Cardinality(DOMAIN live) \in Nat
  BY FiniteHandles
<1>2. /\ live' = [x \in DOMAIN live \cup {id} |-> IF x = id THEN a ELSE live[x]]
      /\ next_id' = id /\ live_count' = live_count + 1 /\ live_bytes' = live_bytes + size
      /\ requested' = requested + req.size /\ granted' = granted + size /\ result' = "ok"
  BY DEF HandOut
<1>3. /\ a \notin Busy(hdr) /\ Busy(hdr') = Busy(hdr) \cup {a}
      /\ \A x \in Busy(hdr) : hdr'[x] = hdr[x]
  BY DEF Taken
<1>4. /\ DOMAIN F = DOMAIN live
      /\ \A g \in DOMAIN live : /\ live[g] \in Busy(hdr) /\ F[g] \in Nat
                                /\ F[g] = hdr[live[g]].size - HeaderSize - FooterSize
  BY SizesFacts
<1>5. /\ DOMAIN live' = DOMAIN live \cup {id} /\ live'[id] = a
      /\ \A g \in DOMAIN live : live'[g] = live[g]
  BY <1>1, <1>2
<1>6. /\ req.size \in Nat /\ Need(req) \in Nat /\ MinBlock \in Nat
      /\ Need(req) - HeaderSize - FooterSize >= req.size
  BY NeedFacts
<1>7. a \in DOMAIN hdr'
  BY <1>3 DEF Busy
<1>8. size \in Nat /\ size >= req.size
  <2>1. hdr'[a].size \in Nat /\ hdr'[a].size > HeaderSize + FooterSize
        /\ HeaderSize \in Nat /\ FooterSize \in Nat
    BY <1>7, BlockFacts
  <2>2. QED
    BY <1>6, <2>1
<1>9. Handed(hdr', live')
  <2>1. {live'[g] : g \in DOMAIN live'} = {live[g] : g \in DOMAIN live} \cup {a}
    BY <1>5
  <2>2. {live[g] : g \in DOMAIN live} = Busy(hdr)
        /\ \A g, k \in DOMAIN live : live[g] = live[k] => g = k
    BY DEF Handed
  <2>3. \A g, k \in DOMAIN live' : live'[g] = live'[k] => g = k
    BY <1>3, <1>4, <1>5, <2>2
  <2>4. QED
    BY <1>3, <2>1, <2>2, <2>3 DEF Handed
<1>10. Numbered'
  <2>1. id \in 0..MaxIds /\ DOMAIN live' \subseteq 1..id
    BY <1>1, <1>5 DEF Numbered
  <2>2. QED
    BY <1>2, <2>1 DEF Numbered
<1>11. G = [x \in DOMAIN F \cup {id} |-> IF x = id THEN size ELSE F[x]]
  <2>1. \A x \in DOMAIN live : hdr'[live'[x]].size = hdr[live[x]].size
    BY <1>3, <1>4, <1>5
  <2>2. QED
    BY <1>1, <1>4, <1>5, <2>1 DEF Sizes
<1>12. SumOf(G, DOMAIN G) = SumOf(F, DOMAIN F) + size
  <2> HIDE DEF F, G, id, size
  <2>1. QED
    BY SMTT(60), <1>1, <1>4, <1>8, <1>11, SumExtended
<1>13. DOMAIN G = DOMAIN live'
  BY DEF Sizes
<1>14. /\ live_bytes = SumOf(F, DOMAIN F) /\ live_bytes \in Nat
       /\ live_count = Cardinality(DOMAIN live)
  <2>1. SumOf(F, DOMAIN F) \in Nat
    <3> HIDE DEF F
    <3>1. QED
      BY <1>1, <1>4, SumNat
  <2>2. QED
    BY <1>4, <2>1 DEF Gauges
<1>15. {granted, requested} \subseteq Nat /\ granted >= requested /\ granted >= live_bytes
  BY DEF Gauges
<1>16. Cardinality(DOMAIN live') = Cardinality(DOMAIN live) + 1
  BY <1>1, <1>5, FS_AddElement
<1>17. live_count' = Cardinality(DOMAIN live')
  BY <1>2, <1>14, <1>16
<1>18. live_bytes' = SumOf(G, DOMAIN live')
  BY <1>2, <1>12, <1>13, <1>14
<1> HIDE DEF size, F, G, id
<1>19. /\ {granted', requested'} \subseteq Nat
       /\ granted' >= requested' /\ granted' >= live_bytes'
  BY <1>2, <1>6, <1>8, <1>14, <1>15
<1>20. QED
  BY <1>9, <1>10, <1>17, <1>18, <1>19 DEF G

LEMMA AllocateFitStep ==
  ASSUME IInv, NEW req \in Request, AllocateFit(req)
  PROVE  IInv' /\ Taken(hdr, hdr', free_list[FirstFit(hdr, free_list, Need(req))])
         /\ HandOut(req, free_list[FirstFit(hdr, free_list, Need(req))])
         /\ next_id < MaxIds
<1> DEFINE need == Need(req)
           i == FirstFit(hdr, free_list, need)
           a == free_list[i]
<1>1. /\ Tiled(superblocks, hdr, ftr) /\ Listed(hdr, free_list) /\ Handed(hdr, live)
      /\ Gauges /\ Numbered
  BY DEF IInv
<1>2. /\ next_id < MaxIds /\ i > 0 /\ HandOut(req, a)
      /\ superblocks' = superblocks /\ total_bytes' = total_bytes
  BY DEF AllocateFit
<1>3. PICK junk \in Garbage : Split(hdr, ftr, free_list, i, need, junk)
  BY DEF AllocateFit
<1>4. junk \in Nat
  BY FreeListAssumption
<1>5. need \in Nat /\ need >= MinBlock
  BY NeedFacts
<1>6. i \in 1..Len(free_list) /\ hdr[free_list[i]].size >= need
  <2>1. free_list \in Seq(Nat)
    BY <1>1 DEF Listed
  <2>2. QED
    BY <1>2, <2>1, FirstFitFacts
<1>7. /\ Tiled(superblocks, hdr', ftr') /\ Listed(hdr', free_list') /\ Taken(hdr, hdr', a)
      /\ hdr'[a].size >= need
  <2> HIDE DEF i, need
  <2>1. QED
    BY <1>1, <1>3, <1>4, <1>5, <1>6, SplitStep DEF a
<1> HIDE DEF a, i
<1>8. /\ Handed(hdr', live') /\ Numbered'
      /\ live_count' = Cardinality(DOMAIN live')
      /\ live_bytes' = SumOf(Sizes(hdr', live'), DOMAIN live')
      /\ {granted', requested'} \subseteq Nat
      /\ granted' >= requested' /\ granted' >= live_bytes'
  BY <1>1, <1>2, <1>7, HandOutStep
<1>9. Gauges'
  BY <1>1, <1>2, <1>8 DEF Gauges
<1>10. IInv'
  BY <1>2, <1>7, <1>8, <1>9 DEF IInv
<1>11. QED
  BY <1>2, <1>7, <1>10 DEF a, i

LEMMA AllocateGrowStep ==
  ASSUME IInv, NEW req \in Request, AllocateGrow(req)
  PROVE  IInv' /\ next_id < MaxIds /\ \E a : Taken(hdr, hdr', a) /\ HandOut(req, a)
<1> DEFINE need == Need(req)
           sz == GrowthFor(need)
<1>1. /\ Tiled(superblocks, hdr, ftr) /\ Listed(hdr, free_list) /\ Handed(hdr, live)
      /\ Gauges /\ Numbered
  BY DEF IInv
<1>2. next_id < MaxIds /\ total_bytes + sz <= MaxBytes /\ total_bytes' = total_bytes + sz
  BY DEF AllocateGrow
<1>3. PICK mem \in Places \ DOMAIN superblocks, junk \in Garbage :
        /\ superblocks' = GrownSuperblocks(superblocks, mem, sz)
        /\ Split(GrownHeaders(hdr, mem, sz), GrownFooters(ftr, mem, sz),
                 <<mem>> \o free_list, 1, need, junk)
        /\ HandOut(req, mem)
  BY DEF AllocateGrow, GrownSuperblocks, GrownHeaders, GrownFooters
<1> DEFINE h == GrownHeaders(hdr, mem, sz)
           f == GrownFooters(ftr, mem, sz)
           list == <<mem>> \o free_list
<1>4. junk \in Nat /\ MaxBytes \in Nat /\ MinBlock \in Nat
  BY FreeListAssumption
<1>5. need \in Nat /\ need >= MinBlock
  BY NeedFacts
<1>6. sz \in Nat /\ sz >= need
  BY <1>5, GrowthFacts
<1>7. /\ total_bytes = SumOf(superblocks, DOMAIN superblocks) /\ total_bytes \in Nat
      /\ IsFiniteSet(DOMAIN superblocks)
      /\ \A b \in DOMAIN superblocks : superblocks[b] \in Nat
  <2>1. \A b \in DOMAIN superblocks : superblocks[b] \in Nat
    BY <1>1, SuperblockFacts
  <2>2. QED
    BY <1>1, <2>1, SumNat DEF Gauges
<1> HIDE DEF sz, need
<1>8. sz >= MinBlock /\ sz <= MaxBytes
  BY <1>2, <1>4, <1>5, <1>6, <1>7
<1>9. Tiled(superblocks', h, f) /\ mem \notin DOMAIN hdr /\ mem \in Nat
  <2> HIDE DEF h, f
  <2>1. h = GrownHeaders(hdr, mem, sz) /\ f = GrownFooters(ftr, mem, sz)
    BY DEF h, f
  <2>2. QED
    BY <1>1, <1>3, <1>6, <1>8, <2>1, GrowTiled
<1>10. /\ DOMAIN h = DOMAIN hdr \cup {mem} /\ h[mem].magic = "free" /\ h[mem].size = sz
       /\ \A x \in DOMAIN hdr : h[x] = hdr[x]
  BY <1>9 DEF GrownHeaders
<1> HIDE DEF h, f
<1>11. FreeBlocks(h) = FreeBlocks(hdr) \cup {mem} /\ Busy(h) = Busy(hdr)
  BY <1>9, <1>10 DEF FreeBlocks, Busy
<1>12. /\ free_list \in Seq(Nat) /\ IsInjective(free_list) /\ ToSet(free_list) = FreeBlocks(hdr)
       /\ mem \notin FreeBlocks(hdr)
  BY <1>1, <1>9 DEF Listed, FreeBlocks
<1>13. /\ list \in Seq(Nat) /\ IsInjective(list) /\ ToSet(list) = FreeBlocks(h)
       /\ list[1] = mem /\ 1 \in 1..Len(list)
  <2>1. mem \notin ToSet(free_list)
    BY <1>12
  <2>2. /\ list \in Seq(Nat) /\ IsInjective(list) /\ ToSet(list) = ToSet(free_list) \cup {mem}
        /\ list[1] = mem /\ 1 \in 1..Len(list)
    BY <1>9, <1>12, <2>1, Pushed
  <2>3. QED
    BY <1>11, <1>12, <2>2
<1>14. Split(h, f, list, 1, need, junk)
  BY <1>3 DEF h, f
<1> HIDE DEF list
<1>15. Listed(h, list)
  BY <1>13 DEF Listed
<1>16. h[list[1]].size >= need
  BY <1>6, <1>10, <1>13
<1>17. /\ Tiled(superblocks', hdr', ftr') /\ Listed(hdr', free_list') /\ Taken(h, hdr', mem)
       /\ hdr'[mem].size >= need
  <2>1. /\ Tiled(superblocks', hdr', ftr') /\ Listed(hdr', free_list')
        /\ Taken(h, hdr', list[1]) /\ hdr'[list[1]].size >= need
    BY <1>4, <1>5, <1>9, <1>13, <1>14, <1>15, <1>16, SplitStep
  <2>2. QED
    BY <1>13, <2>1
<1>18. Taken(hdr, hdr', mem)
  BY <1>10, <1>11, <1>17 DEF Taken, Busy
<1>19. /\ Handed(hdr', live') /\ Numbered'
       /\ live_count' = Cardinality(DOMAIN live')
       /\ live_bytes' = SumOf(Sizes(hdr', live'), DOMAIN live')
       /\ {granted', requested'} \subseteq Nat
       /\ granted' >= requested' /\ granted' >= live_bytes'
  BY <1>1, <1>2, <1>3, <1>17, <1>18, HandOutStep DEF need
<1>20. Gauges'
  <2>1. /\ superblocks' = [x \in DOMAIN superblocks \cup {mem} |->
                             IF x = mem THEN sz ELSE superblocks[x]]
        /\ mem \notin DOMAIN superblocks
    BY <1>3 DEF GrownSuperblocks
  <2>2. SumOf(superblocks', DOMAIN superblocks') = SumOf(superblocks, DOMAIN superblocks) + sz
    <3> DEFINE S == superblocks
               T == superblocks'
    <3>1. /\ T = [x \in DOMAIN S \cup {mem} |-> IF x = mem THEN sz ELSE S[x]]
          /\ mem \notin DOMAIN S /\ IsFiniteSet(DOMAIN S) /\ \A b \in DOMAIN S : S[b] \in Nat
      BY <1>7, <2>1
    <3>2. sz \in Nat
      BY <1>6
    <3> HIDE DEF S, T
    <3>3. SumOf(T, DOMAIN T) = SumOf(S, DOMAIN S) + sz
      BY ONLY <3>1, <3>2, SumExtended
    <3>4. QED
      BY <3>3 DEF S, T
  <2>3. IsFiniteSet(DOMAIN superblocks')
    BY <1>7, <2>1, FS_AddElement
  <2>4. QED
    BY <1>2, <1>7, <1>19, <2>2, <2>3 DEF Gauges
<1>21. IInv'
  BY <1>17, <1>19, <1>20 DEF IInv
<1>22. QED
  BY <1>2, <1>3, <1>18, <1>21

-----------------------------------------------------------------------------
(* free().                                                                 *)

(* Block a is given back; what others hold is as it was.                   *)
Released(h, h2, a) ==
  /\ a \in Busy(h) /\ Busy(h2) = Busy(h) \ {a}
  /\ \A x \in Busy(h2) : h2[x] = h[x]

(* A block released, with the free block to its right when R holds.        *)
FreedHeaders(h, a, R) == IF R THEN JoinedHeaders(h, a) ELSE MarkedHeaders(h, a, "free")

FreedFooters(h, f, a, R) == IF R THEN JoinedFooters(h, f, a) ELSE MarkedFooters(h, f, a, "free")

(* Block a is free and has grown to size over the blocks of B.             *)
Absorbed(h, f, a, B, size, h2, f2) ==
  /\ a \notin B /\ size \in Nat
  /\ FreeBlocks(h2) = (FreeBlocks(h) \ B) \cup {a} /\ Busy(h2) = Busy(h) \ {a}
  /\ h2 = [x \in DOMAIN h \ B |-> h2[x]]
  /\ h2[a] = [h[a] EXCEPT !.magic = "free", !.size = size]
  /\ h2[a].size = size /\ h2[a] \in Header
  /\ \A x \in DOMAIN h \ (B \cup {a}) : h2[x] = h[x]
  /\ f2 = [e \in DOMAIN f \ B |->
             IF e = a + size THEN [size |-> size, busy |-> FALSE] ELSE f[e]]

LEMMA JoinedFacts ==
  ASSUME NEW S, NEW h, NEW f, Tiled(S, h, f), NEW a \in DOMAIN h,
         a + h[a].size \in FreeBlocks(h),
         NEW h2, NEW f2, h2 = JoinedHeaders(h, a), f2 = JoinedFooters(h, f, a),
         NEW b, b = a + h[a].size, NEW size, size = h[a].size + h[b].size
  PROVE  Tiled(S, h2, f2) /\ Absorbed(h, f, a, {b}, size, h2, f2)
<1>1. b \in DOMAIN h /\ h[b].magic = "free"
  BY DEF FreeBlocks
<1>2. Tiled(S, h2, f2)
  BY <1>1, JoinTiled
<1>3. /\ a \in Nat /\ h[a] \in Header /\ h[a].size \in Nat /\ h[a].size > 0
      /\ h[b].size \in Nat /\ b \in Nat
  BY <1>1, BlockFacts
<1>4. b # a /\ size \in Nat
  BY <1>3
<1>5. /\ h2 = [x \in DOMAIN h \ {b} |->
                 IF x = a THEN [h[a] EXCEPT !.magic = "free", !.size = size] ELSE h[x]]
      /\ f2 = [e \in DOMAIN f \ {b} |->
                 IF e = a + size THEN [size |-> size, busy |-> FALSE] ELSE f[e]]
  BY DEF JoinedHeaders, JoinedFooters
<1>6. /\ h2 = [x \in DOMAIN h \ {b} |-> h2[x]] /\ DOMAIN h2 = DOMAIN h \ {b}
      /\ h2[a] = [h[a] EXCEPT !.magic = "free", !.size = size]
      /\ \A x \in DOMAIN h \ {a, b} : h2[x] = h[x]
  BY <1>4, <1>5
<1>7. h2[a].size = size /\ h2[a].magic = "free" /\ h2[a] \in Header
  BY <1>3, <1>4, <1>6 DEF Header
<1>8. FreeBlocks(h2) = (FreeBlocks(h) \ {b}) \cup {a}
  BY <1>4, <1>6, <1>7 DEF FreeBlocks
<1>9. Busy(h2) = Busy(h) \ {a}
  BY <1>1, <1>4, <1>6, <1>8 DEF Busy, FreeBlocks
<1>10. QED
  BY <1>2, <1>4, <1>5, <1>6, <1>7, <1>8, <1>9 DEF Absorbed

LEMMA FreedFacts ==
  ASSUME NEW S, NEW h, NEW f, Tiled(S, h, f), NEW a \in Busy(h), NEW R \in BOOLEAN,
         R => a + h[a].size \in FreeBlocks(h),
         NEW h2, NEW f2, h2 = FreedHeaders(h, a, R), f2 = FreedFooters(h, f, a, R),
         NEW B, B = IF R THEN {a + h[a].size} ELSE {},
         NEW size, size = h[a].size + (IF R THEN h[a + h[a].size].size ELSE 0)
  PROVE  Tiled(S, h2, f2) /\ Absorbed(h, f, a, B, size, h2, f2)
<1>1. a \in DOMAIN h /\ a \notin FreeBlocks(h)
  BY DEF Busy
<1>2. a \in Nat /\ h[a] \in Header /\ h[a].size \in Nat /\ a + h[a].size \in DOMAIN f
  BY <1>1, BlockFacts
<1>3. CASE R
  <2> DEFINE b == a + h[a].size
  <2>1. h2 = JoinedHeaders(h, a) /\ f2 = JoinedFooters(h, f, a)
    BY <1>3 DEF FreedHeaders, FreedFooters
  <2>2. /\ b \in FreeBlocks(h) /\ b = a + h[a].size /\ size = h[a].size + h[b].size /\ B = {b}
    BY <1>3
  <2> HIDE DEF b
  <2>3. Tiled(S, h2, f2) /\ Absorbed(h, f, a, {b}, size, h2, f2)
    BY <1>1, <2>1, <2>2, JoinedFacts
  <2>4. QED
    BY <2>2, <2>3
<1>4. CASE ~ R
  <2>1. h2 = MarkedHeaders(h, a, "free") /\ f2 = MarkedFooters(h, f, a, "free")
    BY <1>4 DEF FreedHeaders, FreedFooters
  <2>2. B = {} /\ size = h[a].size
    BY <1>2, <1>4
  <2>3. Tiled(S, h2, f2)
    BY <1>1, <2>1, MarkTiled
  <2>4. h2[a] = [h[a] EXCEPT !.magic = "free"]
    BY <1>1, <2>1 DEF MarkedHeaders
  <2>5. /\ h2 = [x \in DOMAIN h \ {} |-> h2[x]] /\ DOMAIN h2 = DOMAIN h
        /\ \A x \in DOMAIN h \ {a} : h2[x] = h[x]
    BY <1>1, <2>1 DEF MarkedHeaders
  <2>6. /\ [h[a] EXCEPT !.magic = "free", !.size = h[a].size] = [h[a] EXCEPT !.magic = "free"]
        /\ h2[a].size = h[a].size /\ h2[a].magic = "free" /\ h2[a] \in Header
    BY <1>2, <2>4 DEF Header
  <2>7. f2 = [e \in DOMAIN f \ {} |->
                IF e = a + size THEN [size |-> size, busy |-> FALSE] ELSE f[e]]
    BY <1>2, <2>1, <2>2 DEF MarkedFooters
  <2>8. FreeBlocks(h2) = FreeBlocks(h) \cup {a}
    BY <1>1, <2>5, <2>6 DEF FreeBlocks
  <2>9. Busy(h2) = Busy(h) \ {a}
    BY <1>1, <2>5, <2>8 DEF Busy
  <2>10. QED
    BY <1>2, <2>2, <2>3, <2>4, <2>5, <2>6, <2>7, <2>8, <2>9 DEF Absorbed
<1>5. QED
  BY <1>3, <1>4

(* The neighbours free() merges with are free blocks.                      *)
LEMMA MergeFacts ==
  ASSUME Tiled(superblocks, hdr, ftr), NEW a \in DOMAIN hdr
  PROVE  /\ RightMerge(a) => a + hdr[a].size \in FreeBlocks(hdr)
         /\ LeftMerge(a) => /\ a - ftr[a].size \in FreeBlocks(hdr)
                            /\ (a - ftr[a].size) + hdr[a - ftr[a].size].size = a
<1>1. ASSUME RightMerge(a)
      PROVE  a + hdr[a].size \in FreeBlocks(hdr)
  <2>1. /\ a + hdr[a].size # hdr[a].arena_base + superblocks[hdr[a].arena_base]
        /\ hdr[a + hdr[a].size].magic = "free"
    BY <1>1 DEF RightMerge, ReadsPastSuperblock
  <2>2. a + hdr[a].size \in DOMAIN hdr
    BY <2>1 DEF Tiled, Whole
  <2>3. QED
    BY <2>1, <2>2 DEF FreeBlocks
<1>2. ASSUME LeftMerge(a)
      PROVE  /\ a - ftr[a].size \in FreeBlocks(hdr)
             /\ (a - ftr[a].size) + hdr[a - ftr[a].size].size = a
  <2>1. a > hdr[a].arena_base /\ hdr[a - ftr[a].size].magic = "free"
    BY <1>2 DEF LeftMerge
  <2>2. a \in Nat /\ hdr[a].arena_base \in Nat
    BY BlockFacts
  <2>3. a \in DOMAIN ftr
    BY <2>1, <2>2, LeftNeighbour
  <2>4. a - ftr[a].size \in DOMAIN hdr /\ (a - ftr[a].size) + hdr[a - ftr[a].size].size = a
    BY <2>3, FooterFacts
  <2>5. QED
    BY <2>1, <2>4 DEF FreeBlocks
<1>3. QED
  BY <1>1, <1>2

(* What free() does to the heap, with the neighbours it merges.            *)
LEMMA FreeHeap ==
  ASSUME Tiled(superblocks, hdr, ftr), Listed(hdr, free_list), Handed(hdr, live),
         NEW g \in DOMAIN live, Free(g)
  PROVE  /\ Tiled(superblocks, hdr', ftr') /\ Listed(hdr', free_list')
         /\ Released(hdr, hdr', live[g])
<1> DEFINE a == live[g]
           R == RightMerge(a)
           L == LeftMerge(a)
           right == a + hdr[a].size
           left == a - ftr[a].size
           B == IF R THEN {right} ELSE {}
           size1 == hdr[a].size + (IF R THEN hdr[right].size ELSE 0)
           h1 == FreedHeaders(hdr, a, R)
           f1 == FreedFooters(hdr, ftr, a, R)
           others == IF R THEN Unlink(free_list, right) ELSE free_list
           start == IF L THEN left ELSE a
           size == size1 + (IF L THEN hdr[left].size ELSE 0)
           absorbed == B \cup (IF L THEN {a} ELSE {})
<1>1. a \in Busy(hdr) /\ a \in DOMAIN hdr /\ a \in Nat
  BY SizesFacts
<1>2. /\ hdr' = [x \in DOMAIN hdr \ absorbed |->
                   IF x = start THEN [hdr[x] EXCEPT !.magic = "free", !.size = size] ELSE hdr[x]]
      /\ ftr' = [x \in DOMAIN ftr \ absorbed |->
                   IF x = start + size THEN [size |-> size, busy |-> FALSE] ELSE ftr[x]]
      /\ free_list' = <<start>> \o (IF L THEN Unlink(others, left) ELSE others)
  BY DEF Free
<1>3. /\ R \in BOOLEAN /\ L \in BOOLEAN
      /\ R => right \in FreeBlocks(hdr)
      /\ L => left \in FreeBlocks(hdr) /\ left + hdr[left].size = a
  <2>1. R \in BOOLEAN /\ L \in BOOLEAN
    BY DEF RightMerge, LeftMerge, RightInArena, ReadsPastSuperblock
  <2>2. QED
    BY <1>1, <2>1, MergeFacts
<1>4. Tiled(superblocks, h1, f1) /\ Absorbed(hdr, ftr, a, B, size1, h1, f1)
  <2> HIDE DEF R, a
  <2>1. QED
    BY <1>1, <1>3, FreedFacts
<1>5. /\ free_list \in Seq(Nat) /\ IsInjective(free_list) /\ ToSet(free_list) = FreeBlocks(hdr)
  BY DEF Listed
<1>6. /\ others \in Seq(Nat) /\ IsInjective(others) /\ ToSet(others) = FreeBlocks(hdr) \ B
  <2>1. CASE R
    <3>1. right \in Nat
      BY <1>1, BlockFacts
    <3>2. others = Unlink(free_list, right) /\ B = {right}
      BY <2>1
    <3> HIDE DEF others, right, B
    <3>3. QED
      BY <1>5, <3>1, <3>2, Unlinked
  <2>2. CASE ~ R
    BY <1>5, <2>2
  <2>3. QED
    BY <2>1, <2>2
<1>7. /\ B \subseteq FreeBlocks(hdr) /\ a \notin FreeBlocks(hdr)
  BY <1>1, <1>3 DEF Busy
<1>8. (L => left \notin B) /\ (L => left # a) /\ (L => hdr[left].size \in Nat)
  <2>1. /\ hdr[a].size \in Nat /\ hdr[a].size > 0
    BY <1>1, BlockFacts
  <2>2. ASSUME L
        PROVE  /\ left \in DOMAIN hdr /\ left \in Nat
               /\ hdr[left].size \in Nat /\ hdr[left].size > 0
    <3>1. left \in DOMAIN hdr
      BY <1>3, <2>2 DEF FreeBlocks
    <3> HIDE DEF left
    <3>2. QED
      BY <3>1, BlockFacts
  <2> HIDE DEF left, L, R
  <2>3. QED
    BY <1>1, <1>3, <2>1, <2>2
<1>9. CASE ~ L
  <2>1. start = a /\ size = size1 /\ absorbed = B
    <3> HIDE DEF h1, f1, a, B, size1, L, left
    <3>1. size1 \in Nat
      BY <1>4 DEF Absorbed
    <3>2. QED
      BY <1>9, <3>1
  <2> HIDE DEF h1, f1, a, B, size1, others, L, start, size, absorbed, left
  <2>2. hdr' = h1
    BY <1>2, <1>4, <1>1, <2>1 DEF Absorbed
  <2>3. ftr' = f1
    BY <1>2, <1>4, <2>1 DEF Absorbed
  <2>4. free_list' = <<a>> \o others
    BY <1>2, <1>9, <2>1
  <2>5. a \notin ToSet(others)
    BY <1>6, <1>7
  <2>6. /\ free_list' \in Seq(Nat) /\ IsInjective(free_list')
        /\ ToSet(free_list') = ToSet(others) \cup {a}
    BY <1>1, <1>6, <2>4, <2>5, Pushed
  <2>7. Listed(hdr', free_list')
    BY <1>4, <1>6, <2>2, <2>6 DEF Listed, Absorbed
  <2>8. Released(hdr, hdr', a)
    BY <1>1, <1>4, <1>7, <2>2 DEF Released, Absorbed, Busy
  <2>9. QED
    BY <1>4, <2>2, <2>3, <2>7, <2>8 DEF a
<1>10. CASE L
  <2>1. /\ start = left /\ size = size1 + hdr[left].size /\ absorbed = B \cup {a}
        /\ left \in FreeBlocks(hdr) /\ left + hdr[left].size = a /\ left \notin B /\ left # a
    BY <1>3, <1>8, <1>10
  <2> DEFINE h2 == JoinedHeaders(h1, left)
             f2 == JoinedFooters(h1, f1, left)
  <2> HIDE DEF h1, f1, a, B, size1, others, L, start, size, absorbed, left, R
  <2>2. /\ DOMAIN h1 = DOMAIN hdr \ B /\ h1[left] = hdr[left] /\ left \in DOMAIN h1
        /\ a \in FreeBlocks(h1) /\ left \in FreeBlocks(h1) /\ h1[a].size = size1
        /\ size1 \in Nat
    BY <1>1, <1>4, <1>7, <2>1 DEF Absorbed, FreeBlocks
  <2>3. hdr[left].size \in Nat /\ left \in Nat /\ hdr[left] \in Header
    <3>1. left \in DOMAIN hdr
      BY <2>1 DEF FreeBlocks
    <3>2. QED
      BY <3>1, BlockFacts
  <2>4. left + h1[left].size = a /\ size = h1[left].size + h1[a].size
    BY <2>1, <2>2, <2>3
  <2>5. Tiled(superblocks, h2, f2) /\ Absorbed(h1, f1, left, {a}, size, h2, f2)
    BY <1>4, <2>2, <2>4, JoinedFacts
  <2> HIDE DEF h2, f2
  <2>6. hdr' = h2
    <3>1. DOMAIN hdr \ absorbed = DOMAIN h1 \ {a}
      BY <2>1, <2>2
    <3>2. \A x \in DOMAIN h1 \ {a} :
            h2[x] = IF x = left THEN [hdr[x] EXCEPT !.magic = "free", !.size = size] ELSE hdr[x]
      BY <1>4, <2>1, <2>2, <2>5 DEF Absorbed
    <3>3. h2 = [x \in DOMAIN h1 \ {a} |-> h2[x]]
      BY <2>5 DEF Absorbed
    <3>4. hdr' = [x \in DOMAIN h1 \ {a} |->
                    IF x = left THEN [hdr[x] EXCEPT !.magic = "free", !.size = size] ELSE hdr[x]]
      BY <1>2, <2>1, <3>1
    <3>5. QED
      BY <3>2, <3>3, <3>4
  <2>7. ftr' = f2
    <3>1. a + size1 = left + size
      BY <2>1, <2>2, <2>3
    <3>2. /\ f1 = [e \in DOMAIN ftr \ B |->
                    IF e = a + size1 THEN [size |-> size1, busy |-> FALSE] ELSE ftr[e]]
          /\ f2 = [e \in DOMAIN f1 \ {a} |->
                    IF e = left + size THEN [size |-> size, busy |-> FALSE] ELSE f1[e]]
      BY <1>4, <2>5 DEF Absorbed
    <3>3. DOMAIN f1 \ {a} = DOMAIN ftr \ absorbed
      BY <2>1, <3>2
    <3>4. \A e \in DOMAIN ftr \ absorbed :
            f2[e] = IF e = left + size THEN [size |-> size, busy |-> FALSE] ELSE ftr[e]
      BY <2>1, <3>1, <3>2, <3>3
    <3>5. QED
      BY <1>2, <2>1, <3>2, <3>3, <3>4
  <2>8. free_list' = <<left>> \o Unlink(others, left)
    BY <1>2, <1>10, <2>1
  <2>9. /\ Unlink(others, left) \in Seq(Nat) /\ IsInjective(Unlink(others, left))
        /\ ToSet(Unlink(others, left)) = (FreeBlocks(hdr) \ B) \ {left}
    BY <1>6, <2>3, Unlinked
  <2>10. /\ free_list' \in Seq(Nat) /\ IsInjective(free_list')
         /\ ToSet(free_list') = ((FreeBlocks(hdr) \ B) \ {left}) \cup {left}
    BY <2>3, <2>8, <2>9, Pushed
  <2>11. FreeBlocks(h2) = (((FreeBlocks(hdr) \ B) \cup {a}) \ {a}) \cup {left}
    BY <1>4, <2>5 DEF Absorbed
  <2>12. Listed(hdr', free_list')
    BY <1>7, <2>6, <2>10, <2>11 DEF Listed
  <2>13. Released(hdr, hdr', a)
    <3>1. Busy(h2) = Busy(hdr) \ {a}
      BY ZenonT(60), <1>4, <2>1, <2>5 DEF Absorbed, Busy
    <3>2. \A x \in Busy(hdr) \ {a} : h2[x] = h1[x] /\ h1[x] = hdr[x]
      BY <1>4, <1>7, <2>1, <2>2, <2>5 DEF Absorbed, Busy
    <3>3. QED
      BY <1>1, <2>6, <3>1, <3>2 DEF Released
  <2>14. QED
    BY <2>5, <2>6, <2>7, <2>12, <2>13 DEF a
<1>11. QED
  BY <1>9, <1>10

LEMMA FreeStep ==
  ASSUME IInv, NEW g \in DOMAIN live, Free(g)
  PROVE  IInv' /\ Released(hdr, hdr', live[g])
<1> DEFINE F == Sizes(hdr, live)
           G == Sizes(hdr', live')
<1>1. /\ Tiled(superblocks, hdr, ftr) /\ Listed(hdr, free_list) /\ Handed(hdr, live)
      /\ Gauges /\ Numbered
  BY DEF IInv
<1>2. /\ Tiled(superblocks, hdr', ftr') /\ Listed(hdr', free_list')
      /\ Released(hdr, hdr', live[g])
  BY <1>1, FreeHeap
<1>3. /\ live' = [k \in DOMAIN live \ {g} |-> live[k]]
      /\ live_count' = IF live_count > 0 THEN live_count - 1 ELSE live_count
      /\ live_bytes' = IF live_bytes >= PayloadOf(live[g]) THEN live_bytes - PayloadOf(live[g])
                       ELSE live_bytes
      /\ result' = "ok"
      /\ UNCHANGED <<superblocks, total_bytes, next_id, requested, granted>>
  BY DEF Free
<1>4. DOMAIN live' = DOMAIN live \ {g} /\ \A k \in DOMAIN live' : live'[k] = live[k]
  BY <1>3
<1>5. /\ {live[k] : k \in DOMAIN live} = Busy(hdr)
      /\ \A j, k \in DOMAIN live : live[j] = live[k] => j = k
  BY <1>1 DEF Handed
<1>6. /\ live[g] \in Busy(hdr) /\ Busy(hdr') = Busy(hdr) \ {live[g]}
      /\ \A x \in Busy(hdr') : hdr'[x] = hdr[x]
  BY <1>2 DEF Released
<1>7. {live'[k] : k \in DOMAIN live'} = Busy(hdr')
  BY <1>4, <1>5, <1>6
<1>8. Handed(hdr', live')
  BY <1>4, <1>5, <1>7 DEF Handed
<1>9. /\ DOMAIN F = DOMAIN live /\ \A k \in DOMAIN live : F[k] \in Nat
      /\ F[g] = PayloadOf(live[g])
  BY <1>1, SizesFacts DEF PayloadOf
<1>10. IsFiniteSet(DOMAIN live) /\ next_id \in Nat /\ Cardinality(DOMAIN live) \in Nat
  BY <1>1, FiniteHandles
<1>11. G = [k \in DOMAIN F \ {g} |-> F[k]]
  <2>1. \A k \in DOMAIN live' : hdr'[live'[k]].size = hdr[live[k]].size
    BY <1>4, <1>6, <1>7
  <2>2. QED
    BY <1>4, <2>1 DEF Sizes
<1>12. SumOf(G, DOMAIN G) = SumOf(F, DOMAIN F) - F[g] /\ SumOf(G, DOMAIN G) \in Nat
  <2> HIDE DEF F, G
  <2>1. QED
    BY <1>9, <1>10, <1>11, SumReduced
<1>13. live_bytes = SumOf(F, DOMAIN F) /\ live_bytes \in Nat
  <2>1. SumOf(F, DOMAIN F) \in Nat
    <3> HIDE DEF F
    <3>1. QED
      BY <1>9, <1>10, SumNat
  <2>2. QED
    BY <1>1, <1>9, <2>1 DEF Gauges
<1>14. DOMAIN G = DOMAIN live'
  BY DEF Sizes
<1>15. live_count = Cardinality(DOMAIN live) /\ {granted, requested} \subseteq Nat
       /\ granted >= requested /\ granted >= live_bytes
  BY <1>1 DEF Gauges
<1>16. live_count' = Cardinality(DOMAIN live')
  <2>1. Cardinality(DOMAIN live') = Cardinality(DOMAIN live) - 1 /\ Cardinality(DOMAIN live) > 0
    <3>1. Cardinality(DOMAIN live \ {g}) = Cardinality(DOMAIN live) - 1
          /\ IsFiniteSet(DOMAIN live \ {g})
      BY <1>10, FS_RemoveElement
    <3>2. Cardinality(DOMAIN live \ {g}) \in Nat
      BY <3>1, FS_CardinalityType
    <3>3. QED
      BY <1>4, <1>10, <3>1, <3>2
  <2>2. QED
    BY <1>3, <1>15, <2>1
<1> HIDE DEF F, G
<1>17. F[g] \in Nat /\ live_bytes - F[g] \in Nat
  BY <1>9, <1>12, <1>13
<1>18. live_bytes' = live_bytes - F[g]
  BY <1>3, <1>9, <1>13, <1>17
<1>19. Gauges'
  BY <1>1, <1>3, <1>12, <1>13, <1>14, <1>15, <1>16, <1>17, <1>18 DEF Gauges, G
<1>20. Numbered'
  BY <1>1, <1>3, <1>4 DEF Numbered
<1>21. IInv'
  BY <1>2, <1>3, <1>8, <1>19, <1>20 DEF IInv
<1>22. QED
  BY <1>2, <1>21

-----------------------------------------------------------------------------
(* The invariant.                                                          *)

(* Nothing in the heap and nothing live.                                   *)
LEMMA EmptyHeap ==
  ASSUME NEW S, NEW h, NEW f, NEW list, NEW l,
         S = Empty, h = Empty, f = Empty, list = <<>>, l = Empty
  PROVE  /\ Tiled(S, h, f) /\ Listed(h, list) /\ Handed(h, l)
         /\ Cardinality(DOMAIN l) = 0 /\ SumOf(Sizes(h, l), DOMAIN l) = 0
         /\ IsFiniteSet(DOMAIN S) /\ SumOf(S, DOMAIN S) = 0
<1>1. DOMAIN S = {} /\ DOMAIN h = {} /\ DOMAIN f = {} /\ DOMAIN l = {}
  BY DEF Empty
<1>2. IsFiniteSet({}) /\ Cardinality({}) = 0
  BY FS_EmptySet
<1>3. Tiled(S, h, f)
  BY <1>1, <1>2 DEF Tiled, Superblocks, Footers, BlocksApart
<1>4. FreeBlocks(h) = {} /\ Busy(h) = {}
  BY <1>1 DEF FreeBlocks, Busy
<1>5. list \in Seq(Nat) /\ Len(list) = 0
  OBVIOUS
<1>6. ToSet(list) = {} /\ IsInjective(list)
  <2>1. DOMAIN list = {}
    BY <1>5
  <2>2. QED
    BY <2>1 DEF IsInjective, ToSet
<1>7. Listed(h, list)
  BY <1>4, <1>5, <1>6 DEF Listed
<1>8. Handed(h, l)
  BY <1>1, <1>4 DEF Handed
<1>9. SumOf(Sizes(h, l), DOMAIN l) = 0 /\ SumOf(S, DOMAIN S) = 0
  BY <1>1, SumEmpty
<1>10. QED
  BY <1>1, <1>2, <1>3, <1>7, <1>8, <1>9

LEMMA InitIInv == Init => IInv
<1> SUFFICES ASSUME Init PROVE IInv
  OBVIOUS
<1>1. MaxIds \in Nat /\ MaxBytes \in Nat
  BY FreeListAssumption
<1>2. /\ superblocks = Empty /\ hdr = Empty /\ ftr = Empty /\ free_list = <<>> /\ live = Empty
      /\ next_id = 0 /\ live_count = 0 /\ live_bytes = 0 /\ total_bytes = 0
      /\ requested = 0 /\ granted = 0 /\ result = "ok"
  BY DEF Init
<1>3. /\ Tiled(superblocks, hdr, ftr) /\ Listed(hdr, free_list) /\ Handed(hdr, live)
      /\ Cardinality(DOMAIN live) = 0 /\ SumOf(Sizes(hdr, live), DOMAIN live) = 0
      /\ IsFiniteSet(DOMAIN superblocks) /\ SumOf(superblocks, DOMAIN superblocks) = 0
  BY <1>2, EmptyHeap
<1>4. Gauges
  BY <1>1, <1>2, <1>3 DEF Gauges
<1>5. Numbered
  <2>1. DOMAIN live = {}
    BY <1>2 DEF Empty
  <2>2. QED
    BY <1>1, <1>2, <2>1 DEF Numbered
<1>6. QED
  BY <1>3, <1>4, <1>5 DEF IInv

LEMMA ReleaseAllStep ==
  ASSUME IInv, ReleaseAll
  PROVE  IInv'
<1>1. MaxIds \in Nat /\ MaxBytes \in Nat
  BY FreeListAssumption
<1>2. /\ superblocks' = Empty /\ hdr' = Empty /\ ftr' = Empty /\ free_list' = <<>>
      /\ live' = Empty /\ live_count' = 0 /\ live_bytes' = 0 /\ total_bytes' = 0
      /\ result' = "ok" /\ UNCHANGED <<next_id, requested, granted>>
  BY DEF ReleaseAll
<1>3. /\ Tiled(superblocks', hdr', ftr') /\ Listed(hdr', free_list') /\ Handed(hdr', live')
      /\ Cardinality(DOMAIN live') = 0 /\ SumOf(Sizes(hdr', live'), DOMAIN live') = 0
      /\ IsFiniteSet(DOMAIN superblocks') /\ SumOf(superblocks', DOMAIN superblocks') = 0
  BY <1>2, EmptyHeap
<1>4. {granted, requested} \subseteq Nat /\ granted >= requested
  BY DEF IInv, Gauges
<1>5. Gauges'
  BY <1>1, <1>2, <1>3, <1>4 DEF Gauges
<1>6. Numbered'
  <2>1. DOMAIN live' = {}
    BY <1>2 DEF Empty
  <2>2. QED
    BY <1>1, <1>2, <2>1 DEF IInv, Numbered
<1>7. QED
  BY <1>3, <1>5, <1>6 DEF IInv

LEMMA NextIInv == IInv /\ [Next]_vars => IInv'
<1> SUFFICES ASSUME IInv, [Next]_vars PROVE IInv'
  OBVIOUS
<1>1. ASSUME UNCHANGED <<heap, handles>>,
             result' \in {"ok", "capacity_exceeded", "invalid_handle", "size_too_large",
                          "alignment_unsupported"}
      PROVE  IInv'
  <2>1. /\ Tiled(superblocks', hdr', ftr') /\ Listed(hdr', free_list') /\ Handed(hdr', live')
    BY <1>1 DEF IInv, heap, handles
  <2>2. Gauges'
    BY <1>1 DEF IInv, heap, handles, Gauges
  <2>3. Numbered'
    BY <1>1 DEF IInv, handles, Numbered
  <2>4. QED
    BY <2>1, <2>2, <2>3 DEF IInv
<1>2. ASSUME NEW req \in Request, AllocateRejected(req)
      PROVE  IInv'
  BY <1>1, <1>2 DEF AllocateRejected, Admission
<1>3. ASSUME NEW req \in Request, AllocateExhausted(req)
      PROVE  IInv'
  BY <1>1, <1>3 DEF AllocateExhausted
<1>4. ASSUME NEW g \in Handle, FreeUnknown(g)
      PROVE  IInv'
  BY <1>1, <1>4 DEF FreeUnknown
<1>5. ASSUME NEW g \in Handle, Free(g)
      PROVE  IInv'
  <2>1. g \in DOMAIN live
    BY <1>5 DEF Free
  <2>2. QED
    BY <1>5, <2>1, FreeStep
<1>6. CASE Trim
  BY <1>1, <1>6 DEF Trim
<1>7. CASE UNCHANGED vars
  BY <1>1, <1>7 DEF vars, IInv, Numbered
<1>8. QED
  BY <1>2, <1>3, <1>4, <1>5, <1>6, <1>7, AllocateFitStep, AllocateGrowStep, ReleaseAllStep
  DEF Next

LEMMA FreeListInvariant == Spec => []IInv
  BY InitIInv, NextIInv, PTL DEF Spec

-----------------------------------------------------------------------------
(* What the invariant gives.                                               *)

LEMMA InvariantTypeOK == IInv => TypeOK
<1> SUFFICES ASSUME IInv PROVE TypeOK
  OBVIOUS
<1>1. /\ Tiled(superblocks, hdr, ftr) /\ Listed(hdr, free_list) /\ Handed(hdr, live)
      /\ Gauges /\ Numbered
  BY DEF IInv
<1>2. DOMAIN superblocks \subseteq Places
  BY <1>1, SuperblockFacts
<1>3. \A a \in DOMAIN hdr : hdr[a] \in Header /\ hdr[a].size >= MinBlock
  BY <1>1, BlockFacts
<1>4. \A e \in DOMAIN ftr : ftr[e] \in [size : Nat, busy : BOOLEAN]
  BY <1>1, FooterFacts
<1>5. ToSet(free_list) \subseteq DOMAIN hdr
  BY <1>1 DEF Listed, FreeBlocks
<1>6. /\ \A g \in DOMAIN live : live[g] \in DOMAIN hdr
      /\ SumOf(Sizes(hdr, live), DOMAIN live) \in Nat
  <2> DEFINE F == Sizes(hdr, live)
  <2>1. /\ DOMAIN F = DOMAIN live /\ \A g \in DOMAIN live : live[g] \in DOMAIN hdr /\ F[g] \in Nat
    BY <1>1, SizesFacts
  <2>2. IsFiniteSet(DOMAIN live)
    BY <1>1, FiniteHandles
  <2> HIDE DEF F
  <2>3. SumOf(F, DOMAIN live) \in Nat
    BY <2>1, <2>2, SumNat
  <2>4. QED
    BY <2>1, <2>3 DEF F
<1>7. live_count \in Nat
  BY <1>1, FiniteHandles DEF Gauges
<1>8. total_bytes \in 0..MaxBytes
  <2>1. \A b \in DOMAIN superblocks : superblocks[b] \in Nat
    BY <1>1, SuperblockFacts
  <2>2. SumOf(superblocks, DOMAIN superblocks) \in Nat
    BY <1>1, <2>1, SumNat DEF Gauges
  <2>3. MaxBytes \in Nat
    BY FreeListAssumption
  <2>4. QED
    BY <1>1, <2>2, <2>3 DEF Gauges
<1>9. QED
  BY <1>1, <1>2, <1>3, <1>4, <1>5, <1>6, <1>7, <1>8 DEF TypeOK, Gauges, Numbered

(* The blocks of a superblock, and where they end.                         *)
LEMMA ChainOf ==
  ASSUME Tiled(superblocks, hdr, ftr), NEW base \in DOMAIN superblocks,
         NEW ends, ends = {a + hdr[a].size : a \in BlocksOf(base)}
  PROVE  /\ {base} \cup ends = BlocksOf(base) \cup {base + superblocks[base]}
         /\ Cardinality(ends) = Cardinality(BlocksOf(base))
<1> DEFINE top == base + superblocks[base]
<1>1. /\ base \in Nat /\ superblocks[base] \in Nat /\ base \in DOMAIN hdr /\ top \in DOMAIN ftr
      /\ hdr[base].arena_base = base
  BY SuperblockFacts, BaseFacts
<1>2. base \in BlocksOf(base)
  BY <1>1 DEF BlocksOf
<1>3. \A a \in BlocksOf(base) : a \in DOMAIN hdr /\ hdr[a].arena_base = base
  BY DEF BlocksOf
<1>4. ASSUME NEW a \in BlocksOf(base)
      PROVE  a + hdr[a].size \in BlocksOf(base) \cup {top}
  <2>1. a + hdr[a].size = top \/ a + hdr[a].size \in DOMAIN hdr
    BY <1>3 DEF Tiled, Whole
  <2>2. a + hdr[a].size \in DOMAIN hdr => hdr[a + hdr[a].size].arena_base = base
    BY <1>3, Neighbours
  <2>3. QED
    BY <2>1, <2>2 DEF BlocksOf
<1>5. ASSUME NEW a \in BlocksOf(base), a # base
      PROVE  a \in ends
  <2> DEFINE left == a - ftr[a].size
  <2>1. a \in DOMAIN ftr /\ hdr[left].arena_base = base
    BY <1>3, <1>5, LeftNeighbour
  <2>2. left \in DOMAIN hdr /\ left + hdr[left].size = a
    BY <2>1, FooterFacts
  <2> HIDE DEF left
  <2>3. left \in BlocksOf(base)
    BY <2>1, <2>2 DEF BlocksOf
  <2>4. QED
    BY <2>2, <2>3
<1>6. top \in ends
  <2> DEFINE last == top - ftr[top].size
             p == hdr[last].arena_base
  <2>1. last \in DOMAIN hdr /\ last \in Nat /\ last + hdr[last].size = top /\ top \in Nat
    BY <1>1, FooterFacts
  <2> HIDE DEF last
  <2>2. /\ p \in DOMAIN superblocks /\ p \in Nat /\ p <= last
        /\ last + hdr[last].size <= p + superblocks[p] /\ hdr[last].size \in Nat
    BY <2>1, BlockFacts
  <2> HIDE DEF p
  <2>3. superblocks[p] \in Nat
    BY <2>2, SuperblockFacts
  <2>4. p <= top /\ top <= p + superblocks[p] /\ base <= top /\ top <= base + superblocks[base]
    BY <1>1, <2>1, <2>2
  <2>5. p = base
    <3> HIDE DEF top
    <3>1. QED
      BY <2>1, <2>2, <2>4, OneSuperblock
  <2>6. last \in BlocksOf(base)
    BY <2>1, <2>5 DEF BlocksOf, p
  <2>7. QED
    BY <2>1, <2>6
<1>7. {base} \cup ends = BlocksOf(base) \cup {top}
  <2> HIDE DEF top
  <2>1. \A e \in ends : e \in BlocksOf(base) \cup {top}
    BY <1>4
  <2>2. \A a \in BlocksOf(base) : a = base \/ a \in ends
    BY <1>5
  <2> HIDE DEF BlocksOf
  <2>3. QED
    BY <1>2, <1>6, <2>1, <2>2
<1>8. Cardinality(ends) = Cardinality(BlocksOf(base))
  <2> DEFINE S == BlocksOf(base)
             g == [a \in S |-> a + hdr[a].size]
  <2>1. IsFiniteSet(S)
    <3>1. IsFiniteSet(DOMAIN hdr) /\ S \subseteq DOMAIN hdr
      BY <1>3 DEF Tiled
    <3>2. QED
      BY <3>1, FS_Subset
  <2>2. \A x, y \in S : g[x] = g[y] => x = y
    BY <1>3, EndsDiffer
  <2>3. ends = {g[a] : a \in S} /\ DOMAIN g = S
    OBVIOUS
  <2> HIDE DEF g, S
  <2>4. Cardinality({g[a] : a \in S}) = Cardinality(S)
    BY <2>1, <2>2, <2>3, ImageCard
  <2>5. QED
    BY <2>3, <2>4 DEF S
<1>9. QED
  BY <1>7, <1>8

(* Every superblock is a chain of blocks, whatever the sizes: no byte is   *)
(* lost or owned twice.                                                    *)
THEOREM FreeListChainTiles == Spec => []ChainTiles
<1>1. IInv => ChainTiles
  <2> SUFFICES ASSUME IInv PROVE ChainTiles
    OBVIOUS
  <2>1. TypeOK
    BY InvariantTypeOK
  <2>2. Tiled(superblocks, hdr, ftr)
    BY DEF IInv
  <2>3. QED
    BY <2>1, <2>2, ChainOf DEF ChainTiles
<1>2. QED
  BY <1>1, FreeListInvariant, PTL

(* There are as many footers as blocks.                                    *)
LEMMA FooterCount ==
  ASSUME Tiled(superblocks, hdr, ftr)
  PROVE  Cardinality(DOMAIN ftr) = Cardinality(DOMAIN hdr)
<1> DEFINE S == DOMAIN hdr
           g == [a \in S |-> a + hdr[a].size]
<1>1. IsFiniteSet(S)
  BY DEF Tiled
<1>2. \A x, y \in S : g[x] = g[y] => x = y
  BY EndsDiffer
<1>3. {g[a] : a \in S} = DOMAIN ftr
  <2>1. \A a \in S : g[a] \in DOMAIN ftr
    BY BlockFacts
  <2>2. \A e \in DOMAIN ftr : \E a \in S : g[a] = e
    BY FooterFacts
  <2> HIDE DEF g
  <2>3. QED
    BY <2>1, <2>2
<1>4. DOMAIN g = S
  OBVIOUS
<1> HIDE DEF g, S
<1>5. Cardinality({g[a] : a \in S}) = Cardinality(S)
  BY <1>1, <1>2, <1>4, ImageCard
<1>6. QED
  BY <1>3, <1>5 DEF S

(* The tags, the free list and the handles tell the same story about every *)
(* block.                                                                  *)
THEOREM FreeListListsAgree == Spec => []ListsAgree
<1>1. IInv => ListsAgree
  <2> SUFFICES ASSUME IInv PROVE ListsAgree
    OBVIOUS
  <2>1. Tiled(superblocks, hdr, ftr) /\ Listed(hdr, free_list) /\ Handed(hdr, live)
    BY DEF IInv
  <2>2. ASSUME NEW a \in DOMAIN hdr
        PROVE  /\ a + hdr[a].size \in DOMAIN ftr
               /\ ftr[a + hdr[a].size] = [size |-> hdr[a].size, busy |-> hdr[a].magic = "busy"]
    <3> DEFINE e == a + hdr[a].size
    <3>1. /\ e \in DOMAIN ftr /\ ftr[e].size = hdr[a].size
          /\ (ftr[e].busy <=> hdr[a].magic = "busy")
      BY <2>1 DEF Tiled, Whole
    <3>2. ftr[e] \in [size : Nat, busy : BOOLEAN]
      BY <2>1, <3>1, FooterFacts
    <3> HIDE DEF e
    <3>3. ftr[e] = [size |-> hdr[a].size, busy |-> hdr[a].magic = "busy"]
      BY <3>1, <3>2
    <3>4. QED
      BY <3>1, <3>3 DEF e
  <2>3. TagsAgree
    BY <2>1, <2>2, FooterCount DEF TagsAgree
  <2>4. ToSet(free_list) = {a \in DOMAIN hdr : hdr[a].magic = "free"}
    BY <2>1 DEF Listed, FreeBlocks
  <2>5. Cardinality(ToSet(free_list)) = Len(free_list)
    BY <2>1, ListCounted DEF Listed
  <2>6. Busy(hdr) = {a \in DOMAIN hdr : hdr[a].magic = "busy"}
    <3>1. \A a \in DOMAIN hdr : hdr[a].magic \in {"free", "busy"}
      BY <2>1, BlockFacts DEF Header
    <3>2. QED
      BY <3>1 DEF Busy, FreeBlocks
  <2>7. QED
    BY <2>1, <2>3, <2>4, <2>5, <2>6 DEF ListsAgree, Handed
<1>2. QED
  BY <1>1, FreeListInvariant, PTL

(* The sum of the module's Accounting, as a sum over Sizes.                *)
LEMMA PayloadSum ==
  ASSUME IsFiniteSet(DOMAIN live)
  PROVE  MapThenSumSet(LAMBDA h : PayloadOf(live[h]), DOMAIN live)
           = SumOf(Sizes(hdr, live), DOMAIN live)
<1> DEFINE S == DOMAIN live
           F == Sizes(hdr, live)
           Q(g) == g = [s \in SUBSET S |->
                          IF s = {} THEN 0
                          ELSE PayloadOf(live[Pick(s)]) + g[s \ {Pick(s)}]]
           H == CHOOSE g : Q(g)
           G == CHOOSE g : SumsOver(g, F, S)
<1>1. \A g : Q(g) <=> SumsOver(g, F, S)
  <2> TAKE g
  <2>1. \A s \in SUBSET S : s # {} => F[Pick(s)] = PayloadOf(live[Pick(s)])
    BY PickIn DEF Sizes, PayloadOf
  <2>2. [s \in SUBSET S |-> IF s = {} THEN 0
                            ELSE PayloadOf(live[Pick(s)]) + g[s \ {Pick(s)}]]
        = [s \in SUBSET S |-> IF s = {} THEN 0 ELSE F[Pick(s)] + g[s \ {Pick(s)}]]
    BY <2>1
  <2>3. QED
    BY <2>2 DEF SumsOver
<1>2. SumsOver(G, F, S)
  BY SumsExist
<1>3. MapThenSumSet(LAMBDA h : PayloadOf(live[h]), S) = H[S]
  BY DEF MapThenSumSet, MapThenFoldSet, Pick
<1>4. SumOf(F, S) = G[S]
  BY DEF SumOf, MapThenSumSet, MapThenFoldSet, SumsOver, Pick
<1>5. SumsOver(H, F, S)
  <2> HIDE DEF Q, G
  <2>1. Q(G)
    BY <1>1, <1>2
  <2>2. Q(H)
    BY <2>1
  <2>3. QED
    BY <1>1, <2>2
<1>6. H[S] = G[S]
  <2> HIDE DEF H, G, S, F
  <2>1. IsFiniteSet(S)
    BY DEF S
  <2>2. QED
    BY <1>2, <1>5, <2>1, SumsAgree
<1>7. QED
  BY <1>3, <1>4, <1>6

(* The gauges of statistics() agree with the handles and the superblocks,  *)
(* although free() subtracts sizes read from headers that later splits and *)
(* merges rewrite.                                                         *)
THEOREM FreeListAccounting == Spec => []Accounting
<1>1. IInv => Accounting
  <2> SUFFICES ASSUME IInv PROVE Accounting
    OBVIOUS
  <2>1. Gauges /\ Numbered
    BY DEF IInv
  <2>2. MapThenSumSet(LAMBDA h : PayloadOf(live[h]), DOMAIN live)
          = SumOf(Sizes(hdr, live), DOMAIN live)
    BY <2>1, FiniteHandles, PayloadSum
  <2>3. QED
    BY <2>1, <2>2 DEF Accounting, Gauges, SumOf
<1>2. QED
  BY <1>1, FreeListInvariant, PTL

-----------------------------------------------------------------------------
(* The strategy implements the contract.                                   *)

Payloads == [h \in DOMAIN live |-> Extent(live[h])]

LEMMA AllocateContract ==
  ASSUME IInv, IInv', NEW req \in Request, NEW a, Taken(hdr, hdr', a), HandOut(req, a),
         next_id < MaxIds
  PROVE  Contract!Next
<1> DEFINE id == next_id + 1
           e == Extent(a)'
<1>1. /\ Tiled(superblocks, hdr, ftr) /\ Handed(hdr, live) /\ Numbered
      /\ Tiled(superblocks', hdr', ftr') /\ Handed(hdr', live')
  BY DEF IInv
<1>2. next_id' = id /\ live' = [x \in DOMAIN live \cup {id} |-> IF x = id THEN a ELSE live[x]]
  BY DEF HandOut
<1>3. next_id \in Nat /\ id \notin DOMAIN live /\ MaxIds \in Nat /\ DOMAIN live \subseteq 1..next_id
  BY <1>1, FiniteHandles DEF Numbered
<1>4. id \in Handle /\ id \notin 1..next_id /\ 1..next_id' = (1..next_id) \cup {id}
  BY <1>2, <1>3 DEF Handle
<1>5. /\ DOMAIN live' = DOMAIN live \cup {id} /\ live'[id] = a
      /\ \A g \in DOMAIN live : live'[g] = live[g]
  BY <1>2, <1>3
<1>6. /\ HeaderSize \in Nat /\ FooterSize \in Nat
      /\ \A g \in DOMAIN live' :
           /\ live'[g] \in DOMAIN hdr' /\ live'[g] \in Nat /\ hdr'[live'[g]].size \in Nat
           /\ hdr'[live'[g]].size > HeaderSize + FooterSize
  <2>1. {HeaderSize, FooterSize} \subseteq Nat
    BY FreeListAssumption
  <2>2. QED
    BY <1>1, <2>1, SizesFacts
<1>7. \A g \in DOMAIN live : hdr'[live[g]] = hdr[live[g]]
  BY <1>1, SizesFacts DEF Taken
<1>8. e = [addr |-> a + HeaderSize, size |-> hdr'[a].size - HeaderSize - FooterSize]
  BY DEF Extent, PayloadOf
<1>9. e \in Contract!Extent
  BY <1>5, <1>6, <1>8 DEF Contract!Extent
<1>10. ASSUME NEW g \in DOMAIN live
       PROVE  Contract!Apart(e, Extent(live[g]))
  <2> DEFINE b == live[g]
  <2>1. b \in DOMAIN hdr' /\ a \in DOMAIN hdr' /\ b \in Nat /\ a \in Nat
        /\ hdr'[b].size \in Nat /\ hdr'[a].size \in Nat
    BY <1>5, <1>6
  <2>2. a # b
    BY <1>1, SizesFacts DEF Taken
  <2>3. a + hdr'[a].size <= b \/ b + hdr'[b].size <= a
    BY <1>1, <2>1, <2>2, EndsDiffer
  <2>4. Extent(b) = [addr |-> b + HeaderSize, size |-> hdr'[b].size - HeaderSize - FooterSize]
    BY <1>7 DEF Extent, PayloadOf
  <2> HIDE DEF b, e
  <2>5. Contract!Apart(e, Extent(b))
    BY <1>6, <1>8, <2>1, <2>3, <2>4 DEF Contract!Apart
  <2>6. QED
    BY <2>5 DEF b
<1> HIDE DEF e
<1>11. /\ DOMAIN Payloads' = DOMAIN Payloads \cup {id}
       /\ Payloads'[id] = e
       /\ \A g \in DOMAIN Payloads : /\ Payloads'[g] = Payloads[g]
                                     /\ Contract!Apart(e, Payloads[g])
  <2>1. DOMAIN Payloads = DOMAIN live /\ DOMAIN Payloads' = DOMAIN live'
    BY DEF Payloads
  <2>2. \A g \in DOMAIN live' :
          Payloads'[g] = [addr |-> live'[g] + HeaderSize,
                          size |-> hdr'[live'[g]].size - HeaderSize - FooterSize]
    BY DEF Payloads, Extent, PayloadOf
  <2>3. \A g \in DOMAIN live :
          /\ Payloads[g] = Extent(live[g])
          /\ Payloads[g] = [addr |-> live[g] + HeaderSize,
                            size |-> hdr[live[g]].size - HeaderSize - FooterSize]
    BY DEF Payloads, Extent, PayloadOf
  <2>4. QED
    BY <1>5, <1>7, <1>8, <1>10, <2>1, <2>2, <2>3
<1>12. Contract!Allocate(id)
  BY <1>4, <1>9, <1>11 DEF Contract!Allocate, Payloads
<1>13. QED
  BY <1>4, <1>12 DEF Contract!Next

LEMMA FreeContract ==
  ASSUME IInv, NEW h \in DOMAIN live, Free(h), Released(hdr, hdr', live[h])
  PROVE  Contract!Next
<1>1. next_id' = next_id /\ live' = [g \in DOMAIN live \ {h} |-> live[g]]
  BY DEF Free
<1>2. \A g \in DOMAIN live \ {h} : hdr'[live[g]] = hdr[live[g]]
  <2>1. \A g \in DOMAIN live \ {h} : live[g] \in Busy(hdr) /\ live[g] # live[h]
    BY DEF IInv, Handed
  <2>2. QED
    BY <2>1 DEF Released
<1>3. \A g \in DOMAIN live \ {h} : Extent(live[g])' = Extent(live[g])
  BY <1>1, <1>2 DEF Extent, PayloadOf
<1>4. Payloads' = [g \in DOMAIN Payloads \ {h} |-> Payloads[g]]
  BY <1>1, <1>3 DEF Payloads
<1>5. Contract!Free(h)
  BY <1>1, <1>4 DEF Contract!Free, Payloads
<1>6. QED
  BY <1>5 DEF Contract!Next, Payloads

LEMMA DiscardContract ==
  ASSUME ReleaseAll
  PROVE  Contract!Next
<1>1. live' = Empty /\ next_id' = next_id
  BY DEF ReleaseAll
<1>2. Payloads' = [h \in {} |-> {}]
  BY <1>1 DEF Payloads, Empty
<1>3. Contract!Discard
  BY <1>1, <1>2 DEF Contract!Discard, Payloads
<1>4. QED
  BY <1>3 DEF Contract!Next

(* Every step of the strategy is a step of the contract or changes nothing *)
(* the contract speaks of.                                                 *)
LEMMA StepContract == IInv /\ IInv' /\ [Next]_vars => [Contract!Next]_(Contract!cvars)
<1> SUFFICES ASSUME IInv, IInv', [Next]_vars
             PROVE  [Contract!Next]_(Contract!cvars)
  OBVIOUS
<1>1. ASSUME UNCHANGED <<heap, handles>>
      PROVE  UNCHANGED Contract!cvars
  BY <1>1 DEF Contract!cvars, heap, handles, Extent, PayloadOf
<1>2. ASSUME NEW req \in Request, AllocateRejected(req) \/ AllocateExhausted(req)
      PROVE  UNCHANGED <<heap, handles>>
  BY <1>2 DEF AllocateRejected, AllocateExhausted
<1>3. ASSUME NEW req \in Request, AllocateFit(req)
      PROVE  Contract!Next
  BY <1>3, AllocateFitStep, AllocateContract
<1>4. ASSUME NEW req \in Request, AllocateGrow(req)
      PROVE  Contract!Next
  BY <1>4, AllocateGrowStep, AllocateContract
<1>5. ASSUME NEW h \in Handle, FreeUnknown(h)
      PROVE  UNCHANGED <<heap, handles>>
  BY <1>5 DEF FreeUnknown
<1>6. ASSUME NEW h \in Handle, Free(h)
      PROVE  Contract!Next
  <2>1. h \in DOMAIN live
    BY <1>6 DEF Free
  <2>2. QED
    BY <1>6, <2>1, FreeStep, FreeContract
<1>7. CASE Trim
  BY <1>1, <1>7 DEF Trim
<1>8. CASE UNCHANGED vars
  BY <1>1, <1>8 DEF vars
<1>9. QED
  BY <1>1, <1>2, <1>3, <1>4, <1>5, <1>6, <1>7, <1>8, DiscardContract DEF Next

(* Handles are fresh, payloads disjoint and immovable: FreeListAllocator   *)
(* implements AllocatorContract.                                           *)
THEOREM FreeListImplementsContract == Spec => ImplementsContract
<1>1. Init => Contract!Init
  <2> SUFFICES ASSUME Init PROVE Contract!Init
    OBVIOUS
  <2>1. next_id = 0 /\ live = Empty
    BY DEF Init
  <2>2. 1..next_id = {} /\ DOMAIN live = {}
    BY <2>1 DEF Empty
  <2>3. Payloads = [h \in {} |-> {}]
    BY <2>2 DEF Payloads
  <2>4. QED
    BY <2>2, <2>3 DEF Contract!Init, Payloads
<1>2. QED
  BY <1>1, StepContract, FreeListInvariant, PTL DEF Spec, ImplementsContract, Contract!Spec
=============================================================================
