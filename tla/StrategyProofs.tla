--------------------------- MODULE StrategyProofs ---------------------------
(***************************************************************************)
(* Theorems of StrategyBench: what holds of each strategy for all values   *)
(* of its constants that satisfy the assumptions of its module.            *)
(*                                                                         *)
(* The pools are the subject of SlotProofs.  Here follow the others, each  *)
(* with an inductive invariant (DeviceInv, HeapInv, ArenaInv, SegInv), a   *)
(* lemma for each operation, and what the invariant gives; at the end the  *)
(* bench, and the theorems of all ten.                                     *)
(***************************************************************************)
EXTENDS SlotProofs


-----------------------------------------------------------------------------
(* Records with sizes, as the arena, the heap and the device strategies    *)
(* keep them.                                                              *)

LiveSizes == [h \in DOMAIN live |-> live[h].size]

LEMMA SizesGain ==
  ASSUME IsFiniteSet(DOMAIN live), \A h \in DOMAIN live : live[h].size \in Nat,
         NEW id, id \notin DOMAIN live, DOMAIN live' = DOMAIN live \cup {id},
         \A h \in DOMAIN live : live'[h] = live[h], live'[id].size \in Nat
  PROVE  /\ SumFunction(LiveSizes') = SumFunction(LiveSizes) + live'[id].size
         /\ SumFunction(LiveSizes) \in Nat /\ SumFunction(LiveSizes') \in Nat
<1> DEFINE f == LiveSizes
           g == LiveSizes'
           z == live'[id].size
<1>1. /\ DOMAIN f = DOMAIN live /\ DOMAIN g = DOMAIN f \cup {id} /\ g[id] = z
      /\ \A h \in DOMAIN f : g[h] = f[h] /\ f[h] \in Nat
  BY DEF LiveSizes
<1> HIDE DEF f, g
<1>2. SumFunction(g) = SumFunction(f) + g[id] /\ SumFunction(f) \in Nat /\ SumFunction(g) \in Nat
  <2>1. /\ IsFiniteSet(DOMAIN f) /\ \A x \in DOMAIN f : f[x] \in Nat
        /\ id \notin DOMAIN f
        /\ DOMAIN g = DOMAIN f \cup {id} /\ g[id] \in Nat
        /\ \A x \in DOMAIN f : g[x] = f[x]
    BY <1>1
  <2>2. QED
    BY ONLY Zenon, <2>1, SumGains
<1>3. QED
  BY <1>1, <1>2 DEF f, g

LEMMA SizesLose ==
  ASSUME IsFiniteSet(DOMAIN live), \A h \in DOMAIN live : live[h].size \in Nat,
         NEW id \in DOMAIN live, DOMAIN live' = DOMAIN live \ {id},
         \A h \in DOMAIN live' : live'[h] = live[h]
  PROVE  /\ SumFunction(LiveSizes) = SumFunction(LiveSizes') + live[id].size
         /\ SumFunction(LiveSizes) \in Nat /\ SumFunction(LiveSizes') \in Nat
<1> DEFINE f == LiveSizes
           g == LiveSizes'
<1>1. /\ DOMAIN f = DOMAIN live /\ DOMAIN g = DOMAIN f \ {id} /\ f[id] = live[id].size
      /\ id \in DOMAIN f
      /\ \A h \in DOMAIN g : g[h] = f[h]
      /\ \A h \in DOMAIN f : f[h] \in Nat
  BY DEF LiveSizes
<1> HIDE DEF f, g
<1>2. SumFunction(f) = SumFunction(g) + f[id] /\ SumFunction(f) \in Nat /\ SumFunction(g) \in Nat
  BY Zenon, <1>1, SumLoses
<1>3. QED
  BY <1>1, <1>2 DEF f, g

LEMMA SizesChange ==
  ASSUME IsFiniteSet(DOMAIN live), \A h \in DOMAIN live : live[h].size \in Nat,
         NEW id \in DOMAIN live, DOMAIN live' = DOMAIN live,
         \A h \in DOMAIN live \ {id} : live'[h] = live[h], live'[id].size \in Nat
  PROVE  /\ SumFunction(LiveSizes) + live'[id].size = SumFunction(LiveSizes') + live[id].size
         /\ SumFunction(LiveSizes) \in Nat /\ SumFunction(LiveSizes') \in Nat
         /\ SumFunction(LiveSizes) >= live[id].size
<1> DEFINE f == LiveSizes
           g == LiveSizes'
<1>1. /\ DOMAIN f = DOMAIN live /\ DOMAIN g = DOMAIN f
      /\ f[id] = live[id].size /\ g[id] = live'[id].size
      /\ id \in DOMAIN f /\ g[id] \in Nat
      /\ \A h \in DOMAIN f \ {id} : g[h] = f[h]
      /\ \A h \in DOMAIN f : f[h] \in Nat
  BY DEF LiveSizes
<1> HIDE DEF f, g
<1>2. /\ SumFunction(f) + g[id] = SumFunction(g) + f[id]
      /\ SumFunction(f) \in Nat /\ SumFunction(g) \in Nat /\ SumFunction(f) >= f[id]
  BY <1>1, SumChanges
<1>3. QED
  BY <1>1, <1>2 DEF f, g

LEMMA SizesNone ==
  ASSUME DOMAIN live = {}
  PROVE  SumFunction(LiveSizes) = 0
<1>1. DOMAIN LiveSizes = {}
  BY DEF LiveSizes
<1>2. QED
  BY <1>1, SumNone

-----------------------------------------------------------------------------
(* The CUDA and pinned strategies, of any setup s.                         *)

LEMMA DeviceOps ==
  ASSUME NEW s
  PROVE  /\ \A f : Device(s)!Range(f) = Range(f)
         /\ \A S : Device(s)!Cardinality(S) = Cardinality(S)
         /\ \A f : Device(s)!SumFunction(f) = SumFunction(f)
<1>1. \A f : Device(s)!Range(f) = Range(f)
  BY DEF Device!Range, Range
<1>2. \A S : Device(s)!Cardinality(S) = Cardinality(S)
  BY DEF Device!Cardinality, Cardinality
<1>3. \A f : Device(s)!SumFunction(f) = SumFunction(f)
  BY DEF Device!SumFunction, Device!SumFunctionOnSet, Device!FoldFunctionOnSet,
         Device!MapThenFoldSet, SumFunction, SumFunctionOnSet, FoldFunctionOnSet, MapThenFoldSet
<1>4. QED
  BY <1>1, <1>2, <1>3

(* What the driver has given out lies apart: it is what the records name,  *)
(* each of them something else, and what is leaked.                        *)
DeviceInv(s) ==
  /\ Device(s)!TypeOK
  /\ Range(live) \cap leaked = {} /\ driver = Range(live) \cup leaked
  /\ \A g, h \in DOMAIN live : live[g] = live[h] => g = h
  /\ \A m, o \in driver : m = o \/ m.ptr + m.size <= o.ptr \/ o.ptr + o.size <= m.ptr
  /\ \A m \in driver : m.size > 0
  /\ live_count = Cardinality(DOMAIN live)
  /\ live_bytes = SumFunction(LiveSizes)
  /\ granted >= live_bytes
  /\ s.pinned => total_bytes = live_bytes /\ total_bytes <= s.budget + 1

LEMMA DeviceConstants ==
  ASSUME NEW s, Device(s)!Assumptions
  PROVE  /\ s.pinned \in BOOLEAN /\ s.budget \in Nat /\ s.ids \in Nat
         /\ s.places \subseteq Nat
         /\ s.requests \subseteq [size : Nat, alignment : Nat]
BY DEF Device!Assumptions

LEMMA DeviceInit ==
  ASSUME NEW s, Device(s)!Assumptions, Device(s)!Init
  PROVE  DeviceInv(s)
<1>1. /\ live = [x \in {} |-> 0] /\ next_id = 0
      /\ live_count = 0 /\ live_bytes = 0 /\ requested = 0 /\ granted = 0 /\ total_bytes = 0
      /\ driver = {} /\ leaked = {} /\ result = "ok"
  BY DEF Device!Init, Device!Empty
<1>2. DOMAIN live = {} /\ Cardinality(DOMAIN live) = 0 /\ Range(live) = {}
  BY <1>1, NoHandles
<1>3. SumFunction(LiveSizes) = 0
  BY <1>2, SizesNone
<1>4. Device(s)!TypeOK
  BY <1>1, <1>2, DeviceOps, DeviceConstants DEF Device!TypeOK
<1>5. QED
  BY <1>1, <1>2, <1>3, <1>4, DeviceConstants DEF DeviceInv

LEMMA DeviceUnchanged ==
  ASSUME NEW s, Device(s)!Assumptions, DeviceInv(s),
         result' \in s.errors \cup {"ok", "size_too_large", "capacity_exceeded",
                                    "alignment_unsupported", "invalid_handle", "not_supported"},
         UNCHANGED <<live, next_id, live_count, live_bytes, requested, granted, total_bytes,
                     driver, leaked>>
  PROVE  DeviceInv(s)'
<1>1. LiveSizes' = LiveSizes
  BY DEF LiveSizes
<1>2. Device(s)!TypeOK'
  BY DeviceOps DEF DeviceInv, Device!TypeOK
<1>3. QED
  BY <1>1, <1>2 DEF DeviceInv

LEMMA DeviceFails ==
  ASSUME NEW s, Device(s)!Assumptions, DeviceInv(s),
         NEW code \in s.errors \cup {"ok", "size_too_large", "capacity_exceeded",
                                     "alignment_unsupported", "invalid_handle", "not_supported"},
         Device(s)!Fails(code)
  PROVE  DeviceInv(s)'
<1>1. /\ result' = code
      /\ UNCHANGED <<live, next_id, live_count, live_bytes, requested, granted, total_bytes,
                     driver, leaked>>
  BY DEF Device!Fails, Device!gauges
<1>2. QED
  BY <1>1, DeviceUnchanged

LEMMA DeviceStutter ==
  ASSUME NEW s, Device(s)!Assumptions, DeviceInv(s), UNCHANGED Device(s)!vars
  PROVE  DeviceInv(s)'
<1>1. /\ result' = result
      /\ UNCHANGED <<live, next_id, live_count, live_bytes, requested, granted, total_bytes,
                     driver, leaked>>
  BY DEF Device!vars, Device!gauges
<1>2. result \in s.errors \cup {"ok", "size_too_large", "capacity_exceeded",
                                "alignment_unsupported", "invalid_handle", "not_supported"}
  BY DEF DeviceInv, Device!TypeOK
<1>3. QED
  BY <1>1, <1>2, DeviceUnchanged

(* What the records say.                                                   *)
LEMMA DeviceRecords ==
  ASSUME NEW s, Device(s)!Assumptions, DeviceInv(s)
  PROVE  /\ next_id \in Nat /\ DOMAIN live \subseteq 1..next_id
         /\ IsFiniteSet(DOMAIN live) /\ next_id + 1 \notin DOMAIN live
         /\ Cardinality(DOMAIN live) \in Nat
         /\ \A m \in driver \cup leaked : m.ptr \in Nat /\ m.size \in Nat
         /\ driver \cup leaked \subseteq [ptr : s.places, size : Nat]
         /\ \A h \in DOMAIN live : /\ live[h] \in driver /\ live[h] \notin leaked
                                   /\ live[h].ptr \in Nat /\ live[h].size \in Nat
                                   /\ live[h].size > 0
<1>1. /\ next_id \in 0..s.ids /\ DOMAIN live \subseteq 1..next_id
      /\ driver \cup leaked \subseteq [ptr : s.places, size : Nat]
  BY DeviceOps DEF DeviceInv, Device!TypeOK
<1>2. next_id \in Nat
  BY <1>1, DeviceConstants
<1>3. IsFiniteSet(DOMAIN live) /\ next_id + 1 \notin DOMAIN live
  BY <1>1, <1>2, HandlesFinite
<1>4. \A m \in driver \cup leaked : m.ptr \in Nat /\ m.size \in Nat
  BY <1>1, DeviceConstants
<1>5. \A h \in DOMAIN live : live[h] \in driver /\ live[h] \notin leaked
  BY DEF DeviceInv, Range
<1>6. \A m \in driver : m.size > 0
  BY DEF DeviceInv
<1>7. QED
  BY <1>1, <1>2, <1>3, <1>4, <1>5, <1>6, FS_CardinalityType

LEMMA DeviceAllocate ==
  ASSUME NEW s, Device(s)!Assumptions, DeviceInv(s), NEW req \in s.requests,
         Device(s)!Allocate(req)
  PROVE  DeviceInv(s)'
<1> DEFINE id == next_id + 1
           z == Device(s)!Sz(req)
<1>1. req.size \in Nat /\ z \in Nat /\ z > 0 /\ z >= req.size
      /\ (z = req.size \/ (z = 1 /\ req.size = 0))
  <2>1. req.size \in Nat
    BY DeviceConstants
  <2>2. QED
    BY <2>1 DEF Device!Sz
<1>2. PICK m \in [ptr : s.places, size : {z}] :
        /\ \A o \in driver : m.ptr + m.size <= o.ptr \/ o.ptr + o.size <= m.ptr
        /\ live' = [h \in DOMAIN live \cup {id} |-> IF h = id THEN m ELSE live[h]]
        /\ driver' = driver \cup {m}
  BY DEF Device!Allocate, Device!Provided
<1>3. /\ next_id < s.ids /\ next_id' = id
      /\ live_count' = live_count + 1 /\ live_bytes' = live_bytes + z
      /\ requested' = requested + req.size /\ granted' = granted + z
      /\ total_bytes' = IF s.pinned THEN total_bytes + z ELSE total_bytes
      /\ result' = "ok" /\ leaked' = leaked
      /\ ~ (s.pinned /\ total_bytes + req.size > s.budget)
  BY DEF Device!Allocate, Device!Admission
<1> HIDE DEF z
<1>4. m.ptr \in Nat /\ m.ptr \in s.places /\ m.size = z
  BY <1>2, DeviceConstants
<1>5. /\ next_id \in Nat /\ DOMAIN live \subseteq 1..next_id
      /\ IsFiniteSet(DOMAIN live) /\ id \notin DOMAIN live /\ Cardinality(DOMAIN live) \in Nat
      /\ \A o \in driver \cup leaked : o.ptr \in Nat /\ o.size \in Nat
      /\ driver \cup leaked \subseteq [ptr : s.places, size : Nat]
      /\ \A h \in DOMAIN live : live[h] \in driver /\ live[h].size \in Nat
  BY DeviceRecords
<1>6. /\ Range(live) \cap leaked = {} /\ driver = Range(live) \cup leaked
      /\ \A g, h \in DOMAIN live : live[g] = live[h] => g = h
      /\ \A o, p \in driver : o = p \/ o.ptr + o.size <= p.ptr \/ p.ptr + p.size <= o.ptr
      /\ \A o \in driver : o.size > 0
      /\ live_count = Cardinality(DOMAIN live)
      /\ live_bytes = SumFunction(LiveSizes) /\ granted >= live_bytes
      /\ s.pinned => total_bytes = live_bytes /\ total_bytes <= s.budget + 1
  BY DEF DeviceInv
<1>7. m \notin driver
  BY <1>1, <1>2, <1>4, <1>5
<1> HIDE DEF id
<1>8. /\ DOMAIN live' = DOMAIN live \cup {id} /\ live'[id] = m
      /\ \A h \in DOMAIN live : live'[h] = live[h]
  BY <1>2, <1>5
<1> DEFINE new == live'
<1>9. /\ Cardinality(DOMAIN new) = Cardinality(DOMAIN live) + 1
      /\ Range(new) = Range(live) \cup {new[id]}
  <2>1. /\ DOMAIN new = DOMAIN live \cup {id} /\ \A h \in DOMAIN live : new[h] = live[h]
        /\ IsFiniteSet(DOMAIN live) /\ id \notin DOMAIN live
    BY <1>5, <1>8
  <2> HIDE DEF new
  <2>2. Cardinality(DOMAIN new) = Cardinality(DOMAIN live) + 1
    <3>1. Cardinality(DOMAIN live \cup {id}) = Cardinality(DOMAIN live) + 1
      BY <2>1, FS_AddElement
    <3>2. QED
      BY <2>1, <3>1
  <2>3. Range(new) = Range(live) \cup {new[id]}
    BY ONLY <2>1 DEF Range
  <2>4. QED
    BY <2>2, <2>3
<1>10. Range(live') \cap leaked' = {} /\ driver' = Range(live') \cup leaked'
  BY Zenon, <1>2, <1>3, <1>6, <1>7, <1>8, <1>9
<1>11. \A g, h \in DOMAIN live' : live'[g] = live'[h] => g = h
  BY <1>5, <1>6, <1>7, <1>8
<1>12. /\ \A o, p \in driver' : o = p \/ o.ptr + o.size <= p.ptr \/ p.ptr + p.size <= o.ptr
       /\ \A o \in driver' : o.size > 0
  BY <1>1, <1>2, <1>4, <1>6
<1>13. SumFunction(LiveSizes') = SumFunction(LiveSizes) + z /\ SumFunction(LiveSizes) \in Nat
  <2>1. live'[id].size = z /\ live'[id].size \in Nat
    BY <1>1, <1>4, <1>8
  <2>2. QED
    BY <1>5, <1>8, <2>1, SizesGain
<1>14. /\ {live_count, live_bytes, requested, granted, total_bytes} \subseteq Nat
       /\ s.budget \in Nat /\ s.pinned \in BOOLEAN /\ s.ids \in Nat
  BY DeviceConstants DEF DeviceInv, Device!TypeOK
<1>15. /\ {live_count', live_bytes', requested', granted', total_bytes'} \subseteq Nat
       /\ live_count' = Cardinality(DOMAIN live')
       /\ live_bytes' = SumFunction(LiveSizes') /\ granted' >= live_bytes'
  BY <1>1, <1>3, <1>6, <1>9, <1>13, <1>14
<1>16. s.pinned => total_bytes' = live_bytes' /\ total_bytes' <= s.budget + 1
  BY <1>1, <1>3, <1>6, <1>14
<1>17. Device(s)!TypeOK'
  <2>1. next_id' \in 0..s.ids /\ DOMAIN live' \subseteq 1..next_id'
    BY <1>3, <1>5, <1>8, <1>14 DEF id
  <2>2. m \in [ptr : s.places, size : Nat]
    BY <1>1, <1>2
  <2>3. Range(live') \cup driver' \cup leaked' \subseteq [ptr : s.places, size : Nat]
    BY <1>2, <1>3, <1>5, <1>10, <2>2
  <2>4. QED
    BY <1>3, <1>15, <2>1, <2>3, DeviceOps DEF Device!TypeOK
<1>18. QED
  BY <1>10, <1>11, <1>12, <1>15, <1>16, <1>17 DEF DeviceInv

LEMMA DeviceFree ==
  ASSUME NEW s, Device(s)!Assumptions, DeviceInv(s), NEW h, Device(s)!Free(h)
  PROVE  DeviceInv(s)'
<1>1. /\ h \in DOMAIN live /\ live' = [g \in DOMAIN live \ {h} |-> live[g]]
      /\ live_count' = IF live_count >= 1 THEN live_count - 1 ELSE live_count
      /\ live_bytes' = IF live_bytes >= live[h].size THEN live_bytes - live[h].size ELSE live_bytes
      /\ total_bytes' = IF live[h].size <= total_bytes /\ s.pinned
                        THEN total_bytes - live[h].size ELSE 0
      /\ UNCHANGED <<next_id, requested, granted, leaked>>
      /\ driver' = driver \ {live[h]} /\ result' = "ok"
  BY DEF Device!Free, Device!Dropped, Device!Guarded
<1>2. /\ next_id \in Nat /\ DOMAIN live \subseteq 1..next_id
      /\ IsFiniteSet(DOMAIN live) /\ Cardinality(DOMAIN live) \in Nat
      /\ driver \cup leaked \subseteq [ptr : s.places, size : Nat]
      /\ \A g \in DOMAIN live : live[g] \in driver /\ live[g] \notin leaked /\ live[g].size \in Nat
  BY DeviceRecords
<1>3. /\ Range(live) \cap leaked = {} /\ driver = Range(live) \cup leaked
      /\ \A g, i \in DOMAIN live : live[g] = live[i] => g = i
      /\ \A o, p \in driver : o = p \/ o.ptr + o.size <= p.ptr \/ p.ptr + p.size <= o.ptr
      /\ \A o \in driver : o.size > 0
      /\ live_count = Cardinality(DOMAIN live)
      /\ live_bytes = SumFunction(LiveSizes) /\ granted >= live_bytes
      /\ s.pinned => total_bytes = live_bytes /\ total_bytes <= s.budget + 1
  BY DEF DeviceInv
<1>4. DOMAIN live' = DOMAIN live \ {h} /\ \A g \in DOMAIN live' : live'[g] = live[g]
  BY <1>1
<1> DEFINE new == live'
           z == live[h].size
<1>5. /\ Cardinality(DOMAIN live) > 0
      /\ Cardinality(DOMAIN new) = Cardinality(DOMAIN live) - 1
      /\ Range(new) = Range(live) \ {live[h]}
  <2>1. DOMAIN new = DOMAIN live \ {h} /\ \A g \in DOMAIN new : new[g] = live[g]
    BY <1>4
  <2> HIDE DEF new
  <2>2. QED
    BY Zenon, <1>1, <1>2, <1>3, <2>1, HandleDropped
<1>6. Range(live') \cap leaked' = {} /\ driver' = Range(live') \cup leaked'
  BY Zenon, <1>1, <1>2, <1>3, <1>5
<1>7. \A g, i \in DOMAIN live' : live'[g] = live'[i] => g = i
  BY <1>3, <1>4
<1>8. SumFunction(LiveSizes) = SumFunction(LiveSizes') + z /\ SumFunction(LiveSizes') \in Nat
  BY <1>1, <1>2, <1>4, SizesLose
<1>9. /\ {live_count, live_bytes, requested, granted, total_bytes} \subseteq Nat
      /\ s.budget \in Nat /\ s.pinned \in BOOLEAN /\ z \in Nat
  BY <1>1, <1>2, DeviceConstants DEF DeviceInv, Device!TypeOK
<1>10. /\ live_count' = Cardinality(DOMAIN live') /\ live_count' \in Nat
  BY <1>1, <1>2, <1>3, <1>5
<1>11. /\ live_bytes' = SumFunction(LiveSizes') /\ live_bytes' \in Nat /\ granted' >= live_bytes'
       /\ total_bytes' \in Nat
       /\ s.pinned => total_bytes' = live_bytes' /\ total_bytes' <= s.budget + 1
  <2> DEFINE n == SumFunction(LiveSizes')
  <2>1. n \in Nat /\ live_bytes = n + z
    BY <1>3, <1>8
  <2>2. /\ live_bytes' = IF live_bytes >= z THEN live_bytes - z ELSE live_bytes
        /\ total_bytes' = IF z <= total_bytes /\ s.pinned THEN total_bytes - z ELSE 0
        /\ granted' = granted
    BY <1>1
  <2> HIDE DEF n, z
  <2>3. live_bytes' = n
    BY <1>9, <2>1, <2>2
  <2>4. granted' >= n
    BY <1>3, <1>9, <2>1, <2>2
  <2>5. s.pinned => total_bytes' = n /\ n <= s.budget + 1
    BY <1>3, <1>9, <2>1, <2>2
  <2>6. ~ s.pinned => total_bytes' = 0
    BY <2>2
  <2>7. QED
    BY <1>9, <2>1, <2>3, <2>4, <2>5, <2>6 DEF n
<1>12. /\ \A o, p \in driver' : o = p \/ o.ptr + o.size <= p.ptr \/ p.ptr + p.size <= o.ptr
       /\ \A o \in driver' : o.size > 0
  BY <1>1, <1>3
<1>13. Device(s)!TypeOK'
  <2>1. next_id' \in 0..s.ids /\ DOMAIN live' \subseteq 1..next_id'
    BY <1>1, <1>2, <1>4 DEF DeviceInv, Device!TypeOK
  <2>2. Range(live') \cup driver' \cup leaked' \subseteq [ptr : s.places, size : Nat]
    BY Zenon, <1>1, <1>2, <1>6
  <2>3. QED
    BY Zenon, <1>1, <1>9, <1>10, <1>11, <2>1, <2>2, DeviceOps DEF Device!TypeOK
<1>14. QED
  BY <1>6, <1>7, <1>10, <1>11, <1>12, <1>13 DEF DeviceInv

LEMMA DeviceShutdown ==
  ASSUME NEW s, Device(s)!Assumptions, DeviceInv(s), Device(s)!Shutdown
  PROVE  DeviceInv(s)'
<1>1. /\ live' = [x \in {} |-> 0]
      /\ live_count' = 0 /\ live_bytes' = 0 /\ total_bytes' = 0 /\ result' = "ok"
      /\ UNCHANGED <<next_id, requested, granted>>
  BY DEF Device!Shutdown, Device!Empty
<1>2. PICK kept \in SUBSET Range(live) :
        driver' = (driver \ Range(live)) \cup kept /\ leaked' = leaked \cup kept
  BY DeviceOps DEF Device!Shutdown
<1> DEFINE new == live'
<1>3. DOMAIN live' = {} /\ Cardinality(DOMAIN live') = 0 /\ Range(live') = {}
  <2>1. new = [x \in {} |-> 0]
    BY <1>1
  <2> HIDE DEF new
  <2>2. DOMAIN new = {} /\ Cardinality(DOMAIN new) = 0 /\ Range(new) = {}
    BY <2>1, NoHandles
  <2>3. QED
    BY <2>2 DEF new
<1>4. SumFunction(LiveSizes') = 0
  <2> DEFINE f == LiveSizes'
  <2>1. DOMAIN f = {}
    BY <1>3 DEF LiveSizes
  <2> HIDE DEF f
  <2>2. SumFunction(f) = 0
    BY <2>1, SumNone
  <2>3. QED
    BY <2>2 DEF f
<1>5. /\ Range(live) \cap leaked = {} /\ driver = Range(live) \cup leaked
      /\ \A o, p \in driver : o = p \/ o.ptr + o.size <= p.ptr \/ p.ptr + p.size <= o.ptr
      /\ \A o \in driver : o.size > 0
  BY DEF DeviceInv
<1>6. driver' = leaked' /\ driver' \subseteq driver
  BY <1>2, <1>5
<1>7. /\ Range(live') \cap leaked' = {} /\ driver' = Range(live') \cup leaked'
      /\ \A o, p \in driver' : o = p \/ o.ptr + o.size <= p.ptr \/ p.ptr + p.size <= o.ptr
      /\ \A o \in driver' : o.size > 0
  BY <1>3, <1>5, <1>6
<1>8. driver \subseteq [ptr : s.places, size : Nat]
  BY DeviceRecords
<1>9. Device(s)!TypeOK'
  <2>1. Range(live') \cup driver' \cup leaked' \subseteq [ptr : s.places, size : Nat]
    BY <1>3, <1>6, <1>8
  <2>2. next_id' \in 0..s.ids /\ DOMAIN live' \subseteq 1..next_id'
    BY <1>1, <1>3 DEF DeviceInv, Device!TypeOK
  <2>3. {live_count', live_bytes', requested', granted', total_bytes'} \subseteq Nat
    BY <1>1 DEF DeviceInv, Device!TypeOK
  <2>4. QED
    BY <1>1, <2>1, <2>2, <2>3, DeviceOps DEF Device!TypeOK
<1>10. granted' >= live_bytes' /\ (s.pinned => total_bytes' = live_bytes' /\ total_bytes' <= s.budget + 1)
  BY <1>1, DeviceConstants DEF DeviceInv, Device!TypeOK
<1>11. QED
  BY <1>1, <1>3, <1>4, <1>7, <1>9, <1>10 DEF DeviceInv

LEMMA DeviceNext ==
  ASSUME NEW s, Device(s)!Assumptions, DeviceInv(s), Device(s)!Next
  PROVE  DeviceInv(s)'
<1>1. ASSUME NEW req, Device(s)!AllocateRejected(req)
      PROVE  DeviceInv(s)'
  BY <1>1, DeviceFails DEF Device!AllocateRejected, Device!Admission
<1>2. ASSUME NEW req, Device(s)!AllocateRefused(req)
      PROVE  DeviceInv(s)'
  BY <1>2, DeviceFails DEF Device!AllocateRefused
<1>3. ASSUME NEW h, Device(s)!FreeUnknown(h)
      PROVE  DeviceInv(s)'
  BY <1>3, DeviceFails DEF Device!FreeUnknown
<1>4. ASSUME NEW h, Device(s)!FreeRefused(h)
      PROVE  DeviceInv(s)'
  BY <1>4, DeviceFails DEF Device!FreeRefused
<1>5. CASE Device(s)!Trim
  BY <1>5, DeviceFails DEF Device!Trim
<1>6. CASE Device(s)!Shutdown
  BY <1>6, DeviceShutdown
<1>7. ASSUME NEW req \in s.requests,
             Device(s)!AllocateRejected(req) \/ Device(s)!AllocateRefused(req) \/ Device(s)!Allocate(req)
      PROVE  DeviceInv(s)'
  BY <1>1, <1>2, <1>7, DeviceAllocate
<1>8. ASSUME NEW h, Device(s)!FreeUnknown(h) \/ Device(s)!FreeRefused(h) \/ Device(s)!Free(h)
      PROVE  DeviceInv(s)'
  BY <1>3, <1>4, <1>8, DeviceFree
<1>9. QED
  BY <1>5, <1>6, <1>7, <1>8 DEF Device!Next

LEMMA DeviceHeld ==
  ASSUME NEW s, Device(s)!Assumptions, DeviceInv(s)
  PROVE  Held(Device(s)!extents, next_id)
<1>1. /\ next_id \in Nat /\ DOMAIN live \subseteq 1..next_id
      /\ \A h \in DOMAIN live : live[h] \in driver /\ live[h].ptr \in Nat /\ live[h].size \in Nat \ {0}
  BY DeviceRecords
<1>2. /\ DOMAIN Device(s)!extents = DOMAIN live
      /\ \A h \in DOMAIN live : Device(s)!extents[h] = [addr |-> live[h].ptr, size |-> live[h].size]
  BY DEF Device!extents
<1>3. ASSUME NEW g \in DOMAIN live, NEW h \in DOMAIN live, g # h
      PROVE  Contract!Apart(Device(s)!extents[g], Device(s)!extents[h])
  <2>1. live[g] # live[h] /\ live[g] \in driver /\ live[h] \in driver
    BY <1>1, <1>3 DEF DeviceInv
  <2>2. \/ live[g].ptr + live[g].size <= live[h].ptr
        \/ live[h].ptr + live[h].size <= live[g].ptr
    BY <2>1 DEF DeviceInv
  <2>3. QED
    BY <1>2, <2>2, ApartAt
<1>4. \A h \in DOMAIN live : Device(s)!extents[h] \in Contract!Extent
  BY <1>1, <1>2, ExtentAt
<1>5. QED
  BY <1>1, <1>2, <1>3, <1>4 DEF Held

LEMMA DeviceSteps ==
  ASSUME NEW s, Device(s)!Assumptions, DeviceInv(s), Device(s)!Next
  PROVE  /\ Steps(Device(s)!extents, Device(s)!extents', next_id, next_id')
         /\ next_id' = next_id \/ next_id' \in 1..s.ids
<1> DEFINE e == Device(s)!extents
           f == Device(s)!extents'
           x(r) == [addr |-> r.ptr, size |-> r.size]
<1>1. /\ DOMAIN e = DOMAIN live /\ \A h \in DOMAIN live : e[h] = x(live[h])
      /\ DOMAIN f = DOMAIN live' /\ \A h \in DOMAIN live' : f[h] = x(live'[h])
      /\ f = [h \in DOMAIN f |-> f[h]]
  BY DEF Device!extents
<1>2. next_id \in Nat /\ s.ids \in Nat /\ DOMAIN live \subseteq 1..next_id
  BY DeviceConstants, DeviceRecords
<1>3. ASSUME NEW code, Device(s)!Fails(code)
      PROVE  f = e /\ next_id' = next_id
  BY <1>3 DEF Device!Fails, Device!extents
<1>4. ASSUME NEW req, Device(s)!Allocate(req)
      PROVE  Adds(e, f, next_id, next_id') /\ next_id' \in 1..s.ids
  <2>1. /\ next_id < s.ids
        /\ next_id' = next_id + 1 /\ DOMAIN live' = DOMAIN live \cup {next_id'}
        /\ \A h \in DOMAIN live : h # next_id' => live'[h] = live[h]
    BY <1>4 DEF Device!Allocate
  <2>2. next_id' \notin DOMAIN live /\ next_id' \in 1..s.ids
    BY <1>2, <2>1
  <2>3. \A h \in DOMAIN live : live'[h] = live[h]
    BY <2>1, <2>2
  <2> HIDE DEF e, f, x
  <2>4. QED
    BY <1>1, <2>1, <2>2, <2>3 DEF Adds
<1>5. ASSUME NEW h, Device(s)!Free(h)
      PROVE  Drops(e, f, h) /\ h \in DOMAIN e /\ next_id' = next_id
  <2>1. /\ next_id' = next_id /\ h \in DOMAIN live /\ DOMAIN live' = DOMAIN live \ {h}
        /\ \A g \in DOMAIN live' : live'[g] = live[g]
    BY <1>5 DEF Device!Free, Device!Dropped
  <2> HIDE DEF e, f, x
  <2>2. QED
    BY <1>1, <2>1 DEF Drops
<1>6. ASSUME Device(s)!Shutdown
      PROVE  Clears(f) /\ next_id' = next_id
  BY <1>1, <1>6 DEF Device!Shutdown, Device!Empty, Clears
<1> HIDE DEF e, f, x
<1>7. ASSUME NEW req,
             Device(s)!AllocateRejected(req) \/ Device(s)!AllocateRefused(req) \/ Device(s)!Allocate(req)
      PROVE  Steps(e, f, next_id, next_id') /\ (next_id' = next_id \/ next_id' \in 1..s.ids)
  BY <1>3, <1>4, <1>7 DEF Device!AllocateRejected, Device!AllocateRefused, Steps
<1>8. ASSUME NEW h, Device(s)!FreeUnknown(h) \/ Device(s)!FreeRefused(h) \/ Device(s)!Free(h)
      PROVE  Steps(e, f, next_id, next_id') /\ next_id' = next_id
  BY <1>3, <1>5, <1>8 DEF Device!FreeUnknown, Device!FreeRefused, Steps
<1>9. CASE Device(s)!Trim \/ Device(s)!Shutdown
  BY <1>3, <1>6, <1>9 DEF Device!Trim, Steps, e, f
<1>10. QED
  BY <1>7, <1>8, <1>9 DEF Device!Next, e, f

(* What the runs check of the CUDA and pinned strategies.                  *)
LEMMA DeviceSound ==
  ASSUME NEW s, Device(s)!Assumptions, DeviceInv(s)
  PROVE  Device(s)!TypeOK /\ Device(s)!Accounting
<1>1. Cardinality(Range(live)) = Cardinality(DOMAIN live)
  BY DeviceRecords, RangeSize DEF DeviceInv
<1>2. SumFunction([h \in DOMAIN live |-> live[h].size]) = SumFunction(LiveSizes)
  BY DEF LiveSizes
<1>3. Device(s)!Accounting
  BY <1>1, <1>2, DeviceOps DEF Device!Accounting, DeviceInv
<1>4. QED
  BY <1>3 DEF DeviceInv

-----------------------------------------------------------------------------
(* Multiples of powers of two.                                             *)

Powers == {1, 2, 4, 8, 16, 32, 64, 128, 256, 512, 1024, 2048, 4096, 8192, 16384, 32768, 65536}

LEMMA PowersAre ==
  {2^k : k \in 0..16} = Powers
<1>1. /\ 2^0 = 1 /\ 2^1 = 2 /\ 2^2 = 4 /\ 2^3 = 8 /\ 2^4 = 16 /\ 2^5 = 32 /\ 2^6 = 64
      /\ 2^7 = 128 /\ 2^8 = 256 /\ 2^9 = 512 /\ 2^10 = 1024 /\ 2^11 = 2048 /\ 2^12 = 4096
      /\ 2^13 = 8192 /\ 2^14 = 16384 /\ 2^15 = 32768 /\ 2^16 = 65536
  OBVIOUS
<1>2. 0..16 = {0, 1, 2, 3, 4, 5, 6, 7, 8, 9, 10, 11, 12, 13, 14, 15, 16}
  OBVIOUS
<1>3. QED
  BY <1>1, <1>2 DEF Powers

LEMMA HalfDivides ==
  ASSUME NEW p \in Nat, NEW a \in Nat, a > 0, NEW d, d = 2 * a, p % d = 0
  PROVE  p % a = 0
<1>1. p % (2 * a) = p % a \/ p % (2 * a) = (p % a) + a
  BY Zenon, HalfMod
<1>2. p % a \in Nat
  BY DivMod
<1>3. QED
  BY <1>1, <1>2

(* A multiple of a power of two is a multiple of every smaller one.        *)
LEMMA PowerDivides ==
  ASSUME NEW p \in Nat, NEW a \in Powers, NEW d \in Powers, a <= d, p % d = 0
  PROVE  p % a = 0
<1> DEFINE D(k) == p % k = 0
<1>1. ASSUME NEW x \in Nat, x > 0, NEW y, y = 2 * x, D(y)
      PROVE  D(x)
  BY <1>1, HalfDivides
<1>2. D(d)
  OBVIOUS
<1> HIDE DEF D
<1>3. D(65536) => D(32768)
  BY <1>1
<1>4. D(32768) => D(16384)
  BY <1>1
<1>5. D(16384) => D(8192)
  BY <1>1
<1>6. D(8192) => D(4096)
  BY <1>1
<1>7. D(4096) => D(2048)
  BY <1>1
<1>8. D(2048) => D(1024)
  BY <1>1
<1>9. D(1024) => D(512)
  BY <1>1
<1>10. D(512) => D(256)
  BY <1>1
<1>11. D(256) => D(128)
  BY <1>1
<1>12. D(128) => D(64)
  BY <1>1
<1>13. D(64) => D(32)
  BY <1>1
<1>14. D(32) => D(16)
  BY <1>1
<1>15. D(16) => D(8)
  BY <1>1
<1>16. D(8) => D(4)
  BY <1>1
<1>17. D(4) => D(2)
  BY <1>1
<1>18. D(2) => D(1)
  BY <1>1
<1>19. D(a)
  BY <1>2, <1>3, <1>4, <1>5, <1>6, <1>7, <1>8, <1>9, <1>10, <1>11, <1>12, <1>13, <1>14, <1>15, <1>16, <1>17, <1>18 DEF Powers
<1>20. QED
  BY <1>19 DEF D

(* Rounding up to a multiple.                                              *)
LEMMA RoundedUp ==
  ASSUME NEW v \in Nat, NEW a \in Nat, a > 0
  PROVE  LET r == ((v + a - 1) \div a) * a
         IN r \in Nat /\ r >= v /\ r % a = 0 /\ r < v + a
<1> DEFINE n == v + a - 1
           q == n \div a
<1>1. n \in Nat
  OBVIOUS
<1>2. q \in Nat /\ n = a * q + (n % a) /\ n % a < a /\ n % a \in Nat
  BY <1>1, DivMod
<1> HIDE DEF q
<1>3. a * q \in Nat /\ a * q = q * a
  BY <1>2
<1>4. a * q >= v /\ a * q < v + a
  BY <1>2, <1>3
<1>5. (a * q + 0) % a = 0
  BY <1>2, DivModUnique
<1>6. (q * a) % a = 0
  BY <1>3, <1>5
<1>7. QED
  BY <1>3, <1>4, <1>6 DEF q

-----------------------------------------------------------------------------
(* The system and aligned strategies, of any setup s.                      *)

LEMMA HeapOps ==
  ASSUME NEW s
  PROVE  /\ \A f : Heap(s)!SumFunction(f) = SumFunction(f)
         /\ Heap(s)!PowersOfTwo = Powers
<1>1. \A f : Heap(s)!SumFunction(f) = SumFunction(f)
  BY DEF Heap!SumFunction, Heap!SumFunctionOnSet, Heap!FoldFunctionOnSet,
         Heap!MapThenFoldSet, SumFunction, SumFunctionOnSet, FoldFunctionOnSet, MapThenFoldSet
<1>2. QED
  BY <1>1, PowersAre DEF Heap!PowersOfTwo

AtLeastOne(size) == IF size = 0 THEN 1 ELSE size

(* Records lie apart, and malloc() gives every one of them the alignment   *)
(* it states, which is at most its own.                                    *)
HeapInv(s) ==
  /\ Heap(s)!TypeOK
  /\ \A g, h \in DOMAIN live :
       \/ g = h
       \/ live[g].ptr + AtLeastOne(live[g].size) <= live[h].ptr
       \/ live[h].ptr + AtLeastOne(live[h].size) <= live[g].ptr
  /\ \A h \in DOMAIN live : live[h].ptr % live[h].alignment = 0
  /\ ~ s.realigns => \A h \in DOMAIN live : live[h].alignment <= s.default
  /\ live_bytes = SumFunction(LiveSizes)
  /\ live_bytes <= granted /\ granted <= requested

LEMMA HeapConstants ==
  ASSUME NEW s, Heap(s)!Assumptions
  PROVE  /\ s.realigns \in BOOLEAN /\ s.default \in Powers /\ s.max_align \in Powers
         /\ s.default \in Nat /\ s.default > 0
         /\ s.max_requested \in Nat /\ s.ids \in Nat
         /\ s.places \subseteq Nat /\ Powers \subseteq Nat /\ \A a \in Powers : a > 0
         /\ s.requests \subseteq [size : Nat, alignment : Nat]
         /\ ~ s.realigns => s.max_align = s.default
<1>1. /\ s.realigns \in BOOLEAN /\ s.default \in Powers /\ s.max_align \in Powers
      /\ s.max_requested \in Nat /\ s.ids \in Nat
      /\ s.places \subseteq Nat
      /\ s.requests \subseteq [size : Nat, alignment : Nat]
      /\ ~ s.realigns => s.max_align = s.default
  BY HeapOps DEF Heap!Assumptions
<1>2. Powers \subseteq Nat /\ \A a \in Powers : a > 0
  BY DEF Powers
<1>3. QED
  BY Zenon, <1>1, <1>2

LEMMA HeapInit ==
  ASSUME NEW s, Heap(s)!Assumptions, Heap(s)!Init
  PROVE  HeapInv(s)
<1>1. /\ live = [x \in {} |-> 0] /\ next_id = 0
      /\ live_bytes = 0 /\ requested = 0 /\ granted = 0 /\ result = "ok"
  BY DEF Heap!Init, Heap!Empty
<1>2. DOMAIN live = {}
  BY <1>1, NoHandles
<1>3. SumFunction(LiveSizes) = 0
  BY <1>2, SizesNone
<1>4. Heap(s)!TypeOK
  BY <1>1, <1>2, HeapConstants DEF Heap!TypeOK
<1>5. QED
  BY <1>1, <1>2, <1>3, <1>4 DEF HeapInv

LEMMA HeapUnchanged ==
  ASSUME NEW s, HeapInv(s),
         result' \in {"ok", "size_too_large", "invalid_alignment", "alignment_unsupported",
                      "out_of_memory", "invalid_handle"},
         UNCHANGED <<live, next_id, live_bytes, requested, granted>>
  PROVE  HeapInv(s)'
<1>1. LiveSizes' = LiveSizes
  BY DEF LiveSizes
<1>2. Heap(s)!TypeOK'
  BY DEF HeapInv, Heap!TypeOK
<1>3. QED
  BY <1>1, <1>2 DEF HeapInv

LEMMA HeapFails ==
  ASSUME NEW s, HeapInv(s),
         NEW code \in {"ok", "size_too_large", "invalid_alignment", "alignment_unsupported",
                       "out_of_memory", "invalid_handle"},
         Heap(s)!Fails(code)
  PROVE  HeapInv(s)'
<1>1. /\ result' = code
      /\ UNCHANGED <<live, next_id, live_bytes, requested, granted>>
  BY DEF Heap!Fails, Heap!gauges
<1>2. QED
  BY <1>1, HeapUnchanged

LEMMA HeapStutter ==
  ASSUME NEW s, HeapInv(s), UNCHANGED Heap(s)!vars
  PROVE  HeapInv(s)'
<1>1. /\ result' = result
      /\ UNCHANGED <<live, next_id, live_bytes, requested, granted>>
  BY DEF Heap!vars, Heap!gauges
<1>2. result \in {"ok", "size_too_large", "invalid_alignment", "alignment_unsupported",
                  "out_of_memory", "invalid_handle"}
  BY DEF HeapInv, Heap!TypeOK
<1>3. QED
  BY <1>1, <1>2, HeapUnchanged

LEMMA HeapRecords ==
  ASSUME NEW s, Heap(s)!Assumptions, HeapInv(s)
  PROVE  /\ next_id \in Nat /\ next_id <= s.ids /\ DOMAIN live \subseteq 1..next_id
         /\ IsFiniteSet(DOMAIN live) /\ next_id + 1 \notin DOMAIN live
         /\ live_bytes \in Nat /\ requested \in Nat /\ granted \in Nat
         /\ \A h \in DOMAIN live :
              /\ live[h] \in [ptr : s.places, size : Nat, alignment : Powers]
              /\ live[h].ptr \in Nat /\ live[h].size \in Nat
              /\ live[h].alignment \in Powers /\ live[h].alignment \in Nat
<1>1. /\ next_id \in 0..s.ids /\ DOMAIN live \subseteq 1..next_id
      /\ {live_bytes, requested, granted} \subseteq Nat
      /\ \A h \in DOMAIN live : live[h] \in [ptr : s.places, size : Nat, alignment : Powers]
  BY HeapOps DEF HeapInv, Heap!TypeOK
<1>2. next_id \in Nat /\ next_id <= s.ids
  BY <1>1, HeapConstants
<1>3. IsFiniteSet(DOMAIN live) /\ next_id + 1 \notin DOMAIN live
  BY <1>1, <1>2, HandlesFinite
<1>4. \A h \in DOMAIN live : /\ live[h].ptr \in Nat /\ live[h].size \in Nat
                             /\ live[h].alignment \in Powers /\ live[h].alignment \in Nat
  BY <1>1, HeapConstants
<1>5. QED
  BY <1>1, <1>2, <1>3, <1>4

(* What the C library gives meets no block that is held, and is aligned.   *)
LEMMA HeapProvided ==
  ASSUME NEW s, Heap(s)!Assumptions, NEW size \in Nat, NEW align, NEW held,
         NEW p \in Heap(s)!Provided(size, align, held), ~ s.realigns => align \in Powers /\ align <= s.default
  PROVE  /\ p \in s.places /\ p \in Nat /\ align \in Powers /\ p % align = 0
         /\ \A h \in held : \/ p + AtLeastOne(size) <= live[h].ptr
                            \/ live[h].ptr + AtLeastOne(live[h].size) <= p
<1>1. CASE ~ s.realigns
  <2>1. p \in Heap(s)!Vacant(size, s.default, held)
    BY <1>1 DEF Heap!Provided
  <2>2. p \in s.places /\ p \in Nat /\ p % s.default = 0
    BY <2>1, HeapConstants DEF Heap!Vacant
  <2>3. p % align = 0
    BY <1>1, <2>2, HeapConstants, PowerDivides
  <2>4. \A h \in held : \/ p + AtLeastOne(size) <= live[h].ptr
                        \/ live[h].ptr + AtLeastOne(live[h].size) <= p
    BY <2>1 DEF Heap!Vacant, Heap!AtLeastOne, AtLeastOne
  <2>5. QED
    BY <1>1, <2>2, <2>3, <2>4
<1>2. CASE s.realigns
  <2>1. align \in Powers /\ p \in Heap(s)!Vacant(size, align, held)
    BY <1>2, HeapOps DEF Heap!Provided
  <2>2. p \in s.places /\ p \in Nat /\ p % align = 0
    BY <2>1, HeapConstants DEF Heap!Vacant
  <2>3. \A h \in held : \/ p + AtLeastOne(size) <= live[h].ptr
                        \/ live[h].ptr + AtLeastOne(live[h].size) <= p
    BY <2>1 DEF Heap!Vacant, Heap!AtLeastOne, AtLeastOne
  <2>4. QED
    BY <2>1, <2>2, <2>3
<1>3. QED
  BY <1>1, <1>2, HeapConstants

LEMMA HeapAllocate ==
  ASSUME NEW s, Heap(s)!Assumptions, HeapInv(s), NEW req \in s.requests, Heap(s)!Allocate(req)
  PROVE  HeapInv(s)'
<1> DEFINE id == next_id + 1
           a == Heap(s)!AlignOf(req)
<1>1. PICK p \in Heap(s)!Provided(req.size, a, DOMAIN live) :
        live' = [h \in DOMAIN live \cup {id} |->
                   IF h = id THEN [ptr |-> p, size |-> req.size, alignment |-> a] ELSE live[h]]
  BY DEF Heap!Allocate
<1>2. /\ next_id < s.ids /\ next_id' = id
      /\ live_bytes' = live_bytes + req.size /\ requested' = requested + req.size
      /\ granted' = granted + req.size /\ result' = "ok"
      /\ a \in Powers /\ ~ (a > s.max_align)
  BY HeapOps DEF Heap!Allocate, Heap!Admission
<1>3. req.size \in Nat /\ a \in Nat /\ s.max_align \in Nat
  BY <1>2, HeapConstants
<1>4. ~ s.realigns => a \in Powers /\ a <= s.default
  BY <1>2, <1>3, HeapConstants
<1> HIDE DEF a
<1>5. /\ p \in s.places /\ p \in Nat /\ p % a = 0
      /\ \A h \in DOMAIN live : \/ p + AtLeastOne(req.size) <= live[h].ptr
                                \/ live[h].ptr + AtLeastOne(live[h].size) <= p
  BY <1>1, <1>3, <1>4, HeapProvided
<1>6. /\ next_id \in Nat /\ DOMAIN live \subseteq 1..next_id
      /\ IsFiniteSet(DOMAIN live) /\ id \notin DOMAIN live
      /\ live_bytes \in Nat /\ requested \in Nat /\ granted \in Nat
      /\ \A h \in DOMAIN live : /\ live[h] \in [ptr : s.places, size : Nat, alignment : Powers]
                                /\ live[h].size \in Nat
  BY HeapRecords
<1> HIDE DEF id
<1>7. /\ DOMAIN live' = DOMAIN live \cup {id}
      /\ live'[id] = [ptr |-> p, size |-> req.size, alignment |-> a]
      /\ \A h \in DOMAIN live : live'[h] = live[h]
  BY <1>1, <1>6
<1>8. live'[id].ptr = p /\ live'[id].size = req.size /\ live'[id].alignment = a
  BY <1>7
<1>9. /\ SumFunction(LiveSizes') = SumFunction(LiveSizes) + req.size
      /\ SumFunction(LiveSizes) \in Nat
  BY <1>3, <1>6, <1>7, <1>8, SizesGain
<1>10. /\ live_bytes' = SumFunction(LiveSizes')
       /\ {live_bytes', requested', granted'} \subseteq Nat
       /\ live_bytes' <= granted' /\ granted' <= requested'
  BY <1>2, <1>3, <1>6, <1>9 DEF HeapInv
<1>11. Heap(s)!TypeOK'
  <2>1. next_id' \in 0..s.ids /\ DOMAIN live' \subseteq 1..next_id'
    BY <1>2, <1>6, <1>7, HeapConstants DEF id
  <2>2. live'[id] \in [ptr : s.places, size : Nat, alignment : Powers]
    BY <1>2, <1>3, <1>5, <1>7
  <2>3. \A h \in DOMAIN live' : live'[h] \in [ptr : s.places, size : Nat, alignment : Powers]
    BY <1>6, <1>7, <2>2
  <2>4. QED
    BY <1>2, <1>10, <2>1, <2>3, HeapOps DEF Heap!TypeOK
<1>12. \A g, h \in DOMAIN live' :
         \/ g = h
         \/ live'[g].ptr + AtLeastOne(live'[g].size) <= live'[h].ptr
         \/ live'[h].ptr + AtLeastOne(live'[h].size) <= live'[g].ptr
  BY <1>5, <1>7, <1>8 DEF HeapInv
<1>13. \A h \in DOMAIN live' : live'[h].ptr % live'[h].alignment = 0
  BY <1>5, <1>7, <1>8 DEF HeapInv
<1>14. ~ s.realigns => \A h \in DOMAIN live' : live'[h].alignment <= s.default
  BY <1>4, <1>7, <1>8 DEF HeapInv
<1>15. QED
  BY <1>10, <1>11, <1>12, <1>13, <1>14 DEF HeapInv

LEMMA HeapFree ==
  ASSUME NEW s, Heap(s)!Assumptions, HeapInv(s), NEW h, Heap(s)!Free(h)
  PROVE  HeapInv(s)'
<1> DEFINE z == live[h].size
<1>1. /\ h \in DOMAIN live /\ live' = [g \in DOMAIN live \ {h} |-> live[g]]
      /\ live_bytes' = IF live_bytes >= z THEN live_bytes - z
                       ELSE IF s.realigns THEN live_bytes ELSE 0
      /\ result' = "ok" /\ UNCHANGED <<next_id, requested, granted>>
  BY DEF Heap!Free, Heap!LiveBytesWithout
<1>2. /\ next_id \in Nat /\ next_id <= s.ids /\ DOMAIN live \subseteq 1..next_id
      /\ IsFiniteSet(DOMAIN live)
      /\ live_bytes \in Nat /\ requested \in Nat /\ granted \in Nat
      /\ \A g \in DOMAIN live : /\ live[g] \in [ptr : s.places, size : Nat, alignment : Powers]
                                /\ live[g].size \in Nat
  BY HeapRecords
<1>3. DOMAIN live' = DOMAIN live \ {h} /\ \A g \in DOMAIN live' : live'[g] = live[g]
  BY <1>1
<1>4. SumFunction(LiveSizes) = SumFunction(LiveSizes') + z /\ SumFunction(LiveSizes') \in Nat
  BY <1>1, <1>2, <1>3, SizesLose
<1>5. live_bytes = SumFunction(LiveSizes) /\ live_bytes <= granted /\ granted <= requested
  BY DEF HeapInv
<1>6. z \in Nat
  BY <1>1, <1>2
<1> HIDE DEF z
<1>7. live_bytes' = SumFunction(LiveSizes') /\ live_bytes' \in Nat
      /\ live_bytes' <= granted' /\ granted' <= requested'
  BY <1>1, <1>2, <1>4, <1>5, <1>6
<1>8. Heap(s)!TypeOK'
  <2>1. next_id' \in 0..s.ids /\ DOMAIN live' \subseteq 1..next_id'
    BY <1>1, <1>2, <1>3, HeapConstants
  <2>2. \A g \in DOMAIN live' : live'[g] \in [ptr : s.places, size : Nat, alignment : Powers]
    BY <1>2, <1>3
  <2>3. {live_bytes', requested', granted'} \subseteq Nat
    BY <1>1, <1>2, <1>7
  <2>4. QED
    BY <1>1, <2>1, <2>2, <2>3, HeapOps DEF Heap!TypeOK
<1>9. QED
  BY <1>3, <1>7, <1>8 DEF HeapInv

LEMMA HeapReallocate ==
  ASSUME NEW s, Heap(s)!Assumptions, HeapInv(s), NEW h, NEW req \in s.requests,
         Heap(s)!Reallocate(h, req)
  PROVE  HeapInv(s)'
<1>0. PICK a : a = Heap(s)!NewAlign(h, req)
  OBVIOUS
<1> DEFINE z == live[h].size
           others == DOMAIN live \ {h}
<1>1. PICK p \in Heap(s)!Provided(req.size, a, Heap(s)!HeldDuringReallocation(h)) :
        live' = [live EXCEPT ![h] = [ptr |-> p, size |-> req.size, alignment |-> a]]
  BY Zenon, <1>0 DEF Heap!Reallocate, Heap!ReallocateAt
<1>2. /\ h \in DOMAIN live /\ ~ (a > s.max_align)
      /\ live_bytes' = (IF live_bytes >= z THEN live_bytes - z
                        ELSE IF s.realigns THEN live_bytes ELSE 0) + req.size
      /\ granted' = granted + (IF req.size > z THEN req.size - z ELSE 0)
      /\ requested' = requested + req.size
      /\ result' = "ok" /\ next_id' = next_id
  BY <1>0 DEF Heap!Reallocate, Heap!ReallocateAt, Heap!ReallocateAdmission,
     Heap!LiveBytesWithout, Heap!GrantedBy
<1>3. /\ next_id \in Nat /\ next_id <= s.ids /\ DOMAIN live \subseteq 1..next_id
      /\ IsFiniteSet(DOMAIN live)
      /\ live_bytes \in Nat /\ requested \in Nat /\ granted \in Nat
      /\ \A g \in DOMAIN live : /\ live[g] \in [ptr : s.places, size : Nat, alignment : Powers]
                                /\ live[g].size \in Nat /\ live[g].alignment \in Powers
  BY HeapRecords
<1>4. req.size \in Nat /\ z \in Nat
  BY <1>2, <1>3, HeapConstants
<1>5. ~ s.realigns => a \in Powers /\ a <= s.default
  BY <1>0, <1>2, <1>3 DEF Heap!NewAlign, HeapInv
<1>6. /\ p \in s.places /\ p \in Nat /\ p % a = 0 /\ a \in Powers
      /\ \A g \in Heap(s)!HeldDuringReallocation(h) :
           \/ p + AtLeastOne(req.size) <= live[g].ptr
           \/ live[g].ptr + AtLeastOne(live[g].size) <= p
  BY <1>1, <1>4, <1>5, HeapProvided
<1>7. \A g \in others : \/ p + AtLeastOne(req.size) <= live[g].ptr
                        \/ live[g].ptr + AtLeastOne(live[g].size) <= p
  BY <1>6 DEF Heap!HeldDuringReallocation
<1>8. /\ DOMAIN live' = DOMAIN live
      /\ live'[h] = [ptr |-> p, size |-> req.size, alignment |-> a]
      /\ \A g \in others : live'[g] = live[g]
  BY <1>1, <1>2
<1>9. live'[h].ptr = p /\ live'[h].size = req.size /\ live'[h].alignment = a
  BY <1>8
<1>10. /\ SumFunction(LiveSizes) + req.size = SumFunction(LiveSizes') + z
       /\ SumFunction(LiveSizes) \in Nat /\ SumFunction(LiveSizes') \in Nat
       /\ SumFunction(LiveSizes) >= z
  BY <1>2, <1>3, <1>4, <1>8, <1>9, SizesChange
<1>11. live_bytes = SumFunction(LiveSizes) /\ live_bytes <= granted /\ granted <= requested
  BY DEF HeapInv
<1> HIDE DEF z
<1>12. /\ live_bytes' = SumFunction(LiveSizes') /\ live_bytes' \in Nat
       /\ requested' \in Nat /\ granted' \in Nat
       /\ live_bytes' <= granted' /\ granted' <= requested'
  <2> DEFINE n == SumFunction(LiveSizes)
             m == SumFunction(LiveSizes')
             k == req.size
  <2>1. /\ n + k = m + z /\ n \in Nat /\ m \in Nat /\ n >= z /\ k \in Nat /\ z \in Nat
        /\ live_bytes = n /\ granted >= n /\ granted \in Nat /\ requested \in Nat
        /\ requested >= granted /\ requested' = requested + k
        /\ granted' = granted + (IF k > z THEN k - z ELSE 0)
    BY <1>2, <1>3, <1>4, <1>10, <1>11
  <2>2. live_bytes' = (IF n >= z THEN n - z ELSE IF s.realigns THEN n ELSE 0) + k
    BY <1>2, <2>1
  <2> HIDE DEF n, m, k
  <2>3. live_bytes' = m
    BY <2>1, <2>2
  <2>4. /\ granted' \in Nat /\ requested' \in Nat /\ granted' <= requested' /\ m <= granted'
    <3>1. CASE k > z
      BY <2>1, <3>1
    <3>2. CASE ~ (k > z)
      BY <2>1, <3>2
    <3>3. QED
      BY <3>1, <3>2
  <2>5. QED
    BY <2>1, <2>3, <2>4 DEF m
<1>13. Heap(s)!TypeOK'
  <2>1. next_id' \in 0..s.ids /\ DOMAIN live' \subseteq 1..next_id'
    BY <1>2, <1>3, <1>8, HeapConstants
  <2>2. live'[h] \in [ptr : s.places, size : Nat, alignment : Powers]
    BY <1>4, <1>6, <1>8
  <2>3. \A g \in DOMAIN live' : live'[g] \in [ptr : s.places, size : Nat, alignment : Powers]
    BY <1>3, <1>8, <2>2
  <2>4. QED
    BY <1>2, <1>12, <2>1, <2>3, HeapOps DEF Heap!TypeOK
<1>14. \A g, i \in DOMAIN live' :
         \/ g = i
         \/ live'[g].ptr + AtLeastOne(live'[g].size) <= live'[i].ptr
         \/ live'[i].ptr + AtLeastOne(live'[i].size) <= live'[g].ptr
  BY <1>7, <1>8, <1>9 DEF HeapInv
<1>15. \A g \in DOMAIN live' : live'[g].ptr % live'[g].alignment = 0
  BY <1>6, <1>8, <1>9 DEF HeapInv
<1>16. ~ s.realigns => \A g \in DOMAIN live' : live'[g].alignment <= s.default
  BY <1>5, <1>8, <1>9 DEF HeapInv
<1>17. QED
  BY <1>12, <1>13, <1>14, <1>15, <1>16 DEF HeapInv

LEMMA HeapShutdown ==
  ASSUME NEW s, Heap(s)!Assumptions, HeapInv(s), Heap(s)!Shutdown
  PROVE  HeapInv(s)'
<1>1. /\ live' = [x \in {} |-> 0] /\ next_id' = next_id
      /\ live_bytes' = 0 /\ requested' = 0 /\ granted' = 0 /\ result' = "ok"
  BY DEF Heap!Shutdown, Heap!Empty
<1>2. DOMAIN live' = {}
  BY <1>1
<1>3. SumFunction(LiveSizes') = 0
  <2> DEFINE f == LiveSizes'
  <2>1. DOMAIN f = {}
    BY <1>2 DEF LiveSizes
  <2> HIDE DEF f
  <2>2. SumFunction(f) = 0
    BY <2>1, SumNone
  <2>3. QED
    BY <2>2 DEF f
<1>4. Heap(s)!TypeOK'
  BY <1>1, <1>2 DEF HeapInv, Heap!TypeOK
<1>5. QED
  BY <1>1, <1>2, <1>3, <1>4 DEF HeapInv

LEMMA HeapNext ==
  ASSUME NEW s, Heap(s)!Assumptions, HeapInv(s), Heap(s)!Next
  PROVE  HeapInv(s)'
<1>1. ASSUME NEW req, Heap(s)!AllocateRejected(req)
      PROVE  HeapInv(s)'
  BY <1>1, HeapFails DEF Heap!AllocateRejected, Heap!Admission
<1>2. ASSUME NEW req, Heap(s)!AllocateNull(req)
      PROVE  HeapInv(s)'
  BY <1>2, HeapFails DEF Heap!AllocateNull
<1>3. ASSUME NEW h, Heap(s)!FreeUnknown(h)
      PROVE  HeapInv(s)'
  BY <1>3, HeapFails DEF Heap!FreeUnknown
<1>4. ASSUME NEW h, NEW req, Heap(s)!ReallocateRejected(h, req)
      PROVE  HeapInv(s)'
  BY <1>4, HeapFails DEF Heap!ReallocateRejected, Heap!ReallocateAdmission
<1>5. ASSUME NEW h, NEW req, Heap(s)!ReallocateNull(h, req)
      PROVE  HeapInv(s)'
  BY <1>5, HeapFails DEF Heap!ReallocateNull
<1>6. CASE Heap(s)!Shutdown
  BY <1>6, HeapShutdown
<1>7. ASSUME NEW req \in s.requests,
             Heap(s)!AllocateRejected(req) \/ Heap(s)!Allocate(req) \/ Heap(s)!AllocateNull(req)
      PROVE  HeapInv(s)'
  BY <1>1, <1>2, <1>7, HeapAllocate
<1>8. ASSUME NEW h, Heap(s)!FreeUnknown(h) \/ Heap(s)!Free(h)
      PROVE  HeapInv(s)'
  BY <1>3, <1>8, HeapFree
<1>9. ASSUME NEW h, NEW req \in s.requests,
             \/ Heap(s)!ReallocateRejected(h, req) \/ Heap(s)!Reallocate(h, req)
             \/ Heap(s)!ReallocateNull(h, req)
      PROVE  HeapInv(s)'
  BY <1>4, <1>5, <1>9, HeapReallocate
<1>10. QED
  BY <1>6, <1>7, <1>8, <1>9 DEF Heap!Next

LEMMA HeapHeld ==
  ASSUME NEW s, Heap(s)!Assumptions, HeapInv(s)
  PROVE  Held(Heap(s)!extents, next_id)
<1>1. /\ next_id \in Nat /\ DOMAIN live \subseteq 1..next_id
      /\ \A h \in DOMAIN live : live[h].ptr \in Nat /\ live[h].size \in Nat
  BY HeapRecords
<1>2. /\ DOMAIN Heap(s)!extents = DOMAIN live
      /\ \A h \in DOMAIN live :
           Heap(s)!extents[h] = [addr |-> live[h].ptr, size |-> AtLeastOne(live[h].size)]
  BY DEF Heap!extents, Heap!AtLeastOne, AtLeastOne
<1>3. ASSUME NEW g \in DOMAIN live, NEW h \in DOMAIN live, g # h
      PROVE  Contract!Apart(Heap(s)!extents[g], Heap(s)!extents[h])
  <2>1. \/ live[g].ptr + AtLeastOne(live[g].size) <= live[h].ptr
        \/ live[h].ptr + AtLeastOne(live[h].size) <= live[g].ptr
    BY <1>3 DEF HeapInv
  <2>2. QED
    BY <1>2, <2>1, ApartAt
<1>4. \A h \in DOMAIN live : AtLeastOne(live[h].size) \in Nat \ {0}
  BY <1>1 DEF AtLeastOne
<1>5. \A h \in DOMAIN live : Heap(s)!extents[h] \in Contract!Extent
  BY <1>1, <1>2, <1>4, ExtentAt
<1>6. QED
  BY <1>1, <1>2, <1>3, <1>5 DEF Held

LEMMA HeapSteps ==
  ASSUME NEW s, Heap(s)!Assumptions, HeapInv(s), Heap(s)!Next
  PROVE  /\ Steps(Heap(s)!extents, Heap(s)!extents', next_id, next_id')
         /\ next_id' = next_id \/ next_id' \in 1..s.ids
<1> DEFINE e == Heap(s)!extents
           f == Heap(s)!extents'
           x(r) == [addr |-> r.ptr, size |-> AtLeastOne(r.size)]
<1>1. /\ DOMAIN e = DOMAIN live /\ \A h \in DOMAIN live : e[h] = x(live[h])
      /\ DOMAIN f = DOMAIN live' /\ \A h \in DOMAIN live' : f[h] = x(live'[h])
      /\ f = [h \in DOMAIN f |-> f[h]]
  BY DEF Heap!extents, Heap!AtLeastOne, AtLeastOne
<1>2. next_id \in Nat /\ s.ids \in Nat /\ DOMAIN live \subseteq 1..next_id
  BY HeapConstants, HeapRecords
<1>3. ASSUME NEW code, Heap(s)!Fails(code)
      PROVE  f = e /\ next_id' = next_id
  BY <1>3 DEF Heap!Fails, Heap!extents
<1>4. ASSUME NEW req, Heap(s)!Allocate(req)
      PROVE  Adds(e, f, next_id, next_id') /\ next_id' \in 1..s.ids
  <2>1. /\ next_id < s.ids
        /\ next_id' = next_id + 1 /\ DOMAIN live' = DOMAIN live \cup {next_id'}
        /\ \A h \in DOMAIN live : h # next_id' => live'[h] = live[h]
    BY <1>4 DEF Heap!Allocate
  <2>2. next_id' \notin DOMAIN live /\ next_id' \in 1..s.ids
    BY <1>2, <2>1
  <2>3. \A h \in DOMAIN live : live'[h] = live[h]
    BY <2>1, <2>2
  <2> HIDE DEF e, f, x
  <2>4. QED
    BY <1>1, <2>1, <2>2, <2>3 DEF Adds
<1>5. ASSUME NEW h, Heap(s)!Free(h)
      PROVE  Drops(e, f, h) /\ h \in DOMAIN e /\ next_id' = next_id
  <2>1. /\ next_id' = next_id /\ h \in DOMAIN live /\ DOMAIN live' = DOMAIN live \ {h}
        /\ \A g \in DOMAIN live' : live'[g] = live[g]
    BY <1>5 DEF Heap!Free
  <2> HIDE DEF e, f, x
  <2>2. QED
    BY <1>1, <2>1 DEF Drops
<1>6. ASSUME NEW h, NEW req, Heap(s)!Reallocate(h, req)
      PROVE  Moves(e, f, h) /\ h \in DOMAIN e /\ next_id' = next_id
  <2>1. /\ next_id' = next_id /\ h \in DOMAIN live /\ DOMAIN live' = DOMAIN live
        /\ \A g \in DOMAIN live \ {h} : live'[g] = live[g]
    BY <1>6 DEF Heap!Reallocate, Heap!ReallocateAt, Heap!ReallocateAdmission
  <2> HIDE DEF e, f, x
  <2>2. QED
    BY <1>1, <2>1 DEF Moves
<1>7. ASSUME Heap(s)!Shutdown
      PROVE  Clears(f) /\ next_id' = next_id
  BY <1>1, <1>7 DEF Heap!Shutdown, Heap!Empty, Clears
<1> HIDE DEF e, f, x
<1>8. ASSUME NEW req, \/ Heap(s)!AllocateRejected(req) \/ Heap(s)!Allocate(req)
                       \/ Heap(s)!AllocateNull(req)
      PROVE  Steps(e, f, next_id, next_id') /\ (next_id' = next_id \/ next_id' \in 1..s.ids)
  BY <1>3, <1>4, <1>8 DEF Heap!AllocateRejected, Heap!AllocateNull, Steps
<1>9. ASSUME NEW h, Heap(s)!FreeUnknown(h) \/ Heap(s)!Free(h)
      PROVE  Steps(e, f, next_id, next_id') /\ next_id' = next_id
  BY <1>3, <1>5, <1>9 DEF Heap!FreeUnknown, Steps
<1>10. ASSUME NEW h, NEW req, \/ Heap(s)!ReallocateRejected(h, req)
                              \/ Heap(s)!Reallocate(h, req) \/ Heap(s)!ReallocateNull(h, req)
       PROVE  Steps(e, f, next_id, next_id') /\ next_id' = next_id
  BY <1>3, <1>6, <1>10 DEF Heap!ReallocateRejected, Heap!ReallocateNull, Steps
<1>11. CASE Heap(s)!Shutdown
  BY <1>7, <1>11 DEF Steps, e, f
<1>12. QED
  BY <1>8, <1>9, <1>10, <1>11 DEF Heap!Next, e, f

(* What the runs check of the system and aligned strategies.               *)
LEMMA HeapSound ==
  ASSUME NEW s, Heap(s)!Assumptions, HeapInv(s)
  PROVE  Heap(s)!TypeOK /\ Heap(s)!Accounting /\ Heap(s)!RecordsAligned
<1>1. SumFunction([h \in DOMAIN live |-> live[h].size]) = SumFunction(LiveSizes)
  BY DEF LiveSizes
<1>2. Heap(s)!Accounting
  BY <1>1, HeapOps DEF Heap!Accounting, HeapInv
<1>3. Heap(s)!RecordsAligned
  BY DEF Heap!RecordsAligned, HeapInv
<1>4. QED
  BY <1>2, <1>3 DEF HeapInv

-----------------------------------------------------------------------------
(* The arena.                                                              *)

LEMMA MultiplesAdd ==
  ASSUME NEW p \in Nat, NEW q \in Nat, NEW a \in Nat, a > 0, p % a = 0, q % a = 0
  PROVE  (p + q) % a = 0
<1>1. PICK i \in Nat : p = a * i
  BY Multiple
<1>2. PICK j \in Nat : q = a * j
  BY Zenon, Multiple
<1>3. p + q = a * (i + j) + 0 /\ i + j \in Nat
  BY <1>1, <1>2
<1>4. (a * (i + j) + 0) % a = 0
  BY <1>3, DivModUnique
<1>5. QED
  BY <1>3, <1>4

LEMMA ArenaOps ==
  /\ \A f : Arena!SumFunction(f) = SumFunction(f)
  /\ \A S : Arena!Cardinality(S) = Cardinality(S)
  /\ Arena!PowersOfTwo = Powers
<1>1. \A f : Arena!SumFunction(f) = SumFunction(f)
  BY DEF Arena!SumFunction, Arena!SumFunctionOnSet, Arena!FoldFunctionOnSet,
         Arena!MapThenFoldSet, SumFunction, SumFunctionOnSet, FoldFunctionOnSet, MapThenFoldSet
<1>2. QED
  BY <1>1, PowersAre DEF Arena!PowersOfTwo, Arena!Cardinality, Cardinality

BlocksApart(d, e) == d.base + d.size <= e.base \/ e.base + e.size <= d.base

(* Blocks lie apart, allocations lie apart in them, and the pointer of the *)
(* block in use is a multiple of the alignment of some allocation there.   *)
ArenaInv ==
  /\ Arena!TypeOK
  /\ \A e \in blocks : e.size > 0
  /\ \A d, e \in blocks : d = e \/ BlocksApart(d, e)
  /\ current <= cap
  /\ blocks = {} => cap = 0
  /\ blocks # {} => [base |-> base, size |-> cap] \in blocks
  /\ \A h \in DOMAIN live :
       /\ live[h].padded > 0
       /\ \E e \in blocks :
            /\ e.base <= live[h].addr /\ live[h].addr + live[h].padded <= e.base + e.size
            /\ e.base = base => live[h].addr + live[h].padded <= base + current
  /\ \A g, h \in DOMAIN live : \/ g = h
                               \/ live[g].addr + live[g].padded <= live[h].addr
                               \/ live[h].addr + live[h].padded <= live[g].addr
  /\ blocks # {} => \E g \in DOMAIN live : /\ base <= live[g].addr /\ live[g].addr < base + cap
                                           /\ (base + current) % live[g].align = 0
  /\ Arena!AlignedToWeakest
  /\ live_count = Cardinality(DOMAIN live)
  /\ live_bytes = SumFunction(LiveSizes)
  /\ granted >= requested /\ granted >= live_bytes

LEMMA ArenaConstants ==
  /\ ArenaSetup.block_size \in Nat /\ ArenaSetup.ids \in Nat
  /\ ArenaSetup.block_align \in Powers /\ ArenaSetup.default \in Powers
  /\ ArenaSetup.block_align \in Nat /\ ArenaSetup.block_align > 0
  /\ \A b \in ArenaSetup.places : b \in Nat /\ b % ArenaSetup.block_align = 0
  /\ ArenaSetup.requests \subseteq [size : Nat, alignment : Nat]
  /\ Powers \subseteq Nat /\ \A a \in Powers : a > 0
<1>1. Arena!Assumptions
  BY StrategyAssumptions
<1>2. Powers \subseteq Nat /\ \A a \in Powers : a > 0
  BY DEF Powers
<1>3. QED
  BY Zenon, <1>1, <1>2, ArenaOps DEF Arena!Assumptions

LEMMA ArenaInit ==
  ASSUME Arena!Init
  PROVE  ArenaInv
<1>1. /\ blocks = {} /\ base = 0 /\ current = 0 /\ cap = 0
      /\ live = [x \in {} |-> 0] /\ next_id = 0
      /\ live_count = 0 /\ live_bytes = 0 /\ requested = 0 /\ granted = 0 /\ result = "ok"
  BY DEF Arena!Init, Arena!Empty
<1>2. DOMAIN live = {} /\ Cardinality(DOMAIN live) = 0
  BY <1>1, NoHandles
<1>3. SumFunction(LiveSizes) = 0
  BY <1>2, SizesNone
<1>4. Arena!TypeOK
  BY <1>1, <1>2, ArenaConstants DEF Arena!TypeOK
<1>5. Arena!AlignedToWeakest
  BY <1>2 DEF Arena!AlignedToWeakest
<1>6. QED
  BY <1>1, <1>2, <1>3, <1>4, <1>5 DEF ArenaInv

LEMMA ArenaUnchanged ==
  ASSUME ArenaInv,
         result' \in {"ok", "size_too_large", "alignment_unsupported", "out_of_memory",
                      "not_supported"},
         UNCHANGED <<blocks, base, current, cap, live, next_id, live_count, live_bytes,
                     requested, granted>>
  PROVE  ArenaInv'
<1>1. LiveSizes' = LiveSizes
  BY DEF LiveSizes
<1>2. Arena!TypeOK'
  BY DEF ArenaInv, Arena!TypeOK
<1>3. Arena!AlignedToWeakest'
  BY DEF ArenaInv, Arena!AlignedToWeakest
<1>4. QED
  BY <1>1, <1>2, <1>3 DEF ArenaInv

LEMMA ArenaFails ==
  ASSUME ArenaInv,
         NEW code \in {"ok", "size_too_large", "alignment_unsupported", "out_of_memory",
                       "not_supported"},
         Arena!Fails(code)
  PROVE  ArenaInv'
<1>1. /\ result' = code
      /\ UNCHANGED <<blocks, base, current, cap, live, next_id, live_count, live_bytes,
                     requested, granted>>
  BY DEF Arena!Fails, Arena!region, Arena!gauges
<1>2. QED
  BY <1>1, ArenaUnchanged

LEMMA ArenaStutter ==
  ASSUME ArenaInv, UNCHANGED Arena!vars
  PROVE  ArenaInv'
<1>1. /\ result' = result
      /\ UNCHANGED <<blocks, base, current, cap, live, next_id, live_count, live_bytes,
                     requested, granted>>
  BY DEF Arena!vars, Arena!region, Arena!gauges
<1>2. result \in {"ok", "size_too_large", "alignment_unsupported", "out_of_memory",
                  "not_supported"}
  BY DEF ArenaInv, Arena!TypeOK
<1>3. QED
  BY <1>1, <1>2, ArenaUnchanged

LEMMA ArenaRecords ==
  ASSUME ArenaInv
  PROVE  /\ next_id \in Nat /\ next_id <= ArenaSetup.ids /\ DOMAIN live \subseteq 1..next_id
         /\ IsFiniteSet(DOMAIN live) /\ next_id + 1 \notin DOMAIN live
         /\ Cardinality(DOMAIN live) \in Nat
         /\ base \in Nat /\ current \in Nat /\ cap \in Nat
         /\ live_count \in Nat /\ live_bytes \in Nat /\ requested \in Nat /\ granted \in Nat
         /\ \A h \in DOMAIN live :
              /\ live[h] \in [addr : Nat, size : Nat, align : Powers, padded : Nat]
              /\ live[h].addr \in Nat /\ live[h].size \in Nat /\ live[h].padded \in Nat
              /\ live[h].align \in Powers /\ live[h].align \in Nat /\ live[h].align > 0
         /\ \A e \in blocks : e.base \in Nat /\ e.size \in Nat
<1>1. /\ next_id \in 0..ArenaSetup.ids /\ DOMAIN live \subseteq 1..next_id
      /\ {base, current, cap} \subseteq Nat
      /\ {live_count, live_bytes, requested, granted} \subseteq Nat
      /\ \A h \in DOMAIN live : live[h] \in [addr : Nat, size : Nat, align : Powers, padded : Nat]
      /\ \A e \in blocks : e.base \in ArenaSetup.places /\ e.size \in Nat
  BY ArenaOps DEF ArenaInv, Arena!TypeOK
<1>2. next_id \in Nat /\ next_id <= ArenaSetup.ids
  BY <1>1, ArenaConstants
<1>3. IsFiniteSet(DOMAIN live) /\ next_id + 1 \notin DOMAIN live
  BY Zenon, <1>1, <1>2, HandlesFinite
<1>4. \A h \in DOMAIN live :
        /\ live[h].addr \in Nat /\ live[h].size \in Nat /\ live[h].padded \in Nat
        /\ live[h].align \in Powers /\ live[h].align \in Nat /\ live[h].align > 0
  BY Zenon, <1>1, ArenaConstants
<1>5. QED
  BY Zenon, <1>1, <1>2, <1>3, <1>4, FS_CardinalityType, ArenaConstants

(* What an admitted request takes.                                         *)
LEMMA ArenaRequest ==
  ASSUME NEW req \in ArenaSetup.requests, Arena!Admission(req) = "ok"
  PROVE  /\ Arena!AlignOf(req) \in Powers /\ Arena!AlignOf(req) <= ArenaSetup.block_align
         /\ req.size \in Nat
         /\ Arena!Padded(req) \in Nat /\ Arena!Padded(req) > 0 /\ Arena!Padded(req) >= req.size
         /\ Arena!Padded(req) % Arena!AlignOf(req) = 0
         /\ Arena!GrowthFor(req) \in Nat /\ Arena!GrowthFor(req) >= Arena!Padded(req)
<1> DEFINE a == Arena!AlignOf(req)
           v == IF req.size = 0 THEN 1 ELSE req.size
           p == Arena!Padded(req)
<1>1. a \in Powers /\ a <= ArenaSetup.block_align /\ a \in Nat /\ a > 0
  BY Zenon, ArenaOps, ArenaConstants DEF Arena!Admission
<1>2. req.size \in Nat /\ v \in Nat /\ v > 0 /\ v >= req.size
  BY ArenaConstants
<1>3. p = ((v + a - 1) \div a) * a
  BY DEF Arena!Padded, Arena!RoundUp
<1> HIDE DEF a, v, p
<1>4. LET r == ((v + a - 1) \div a) * a
      IN r \in Nat /\ r >= v /\ r % a = 0
  BY <1>1, <1>2, RoundedUp
<1>5. p \in Nat /\ p >= v /\ p % a = 0
  BY <1>3, <1>4
<1> DEFINE w == ArenaSetup.block_align
           r == ((p + w - 1) \div w) * w
<1>6. r \in Nat /\ r >= p
  BY <1>5, RoundedUp, ArenaConstants
<1>7. Arena!GrowthFor(req) = IF ArenaSetup.block_size < p THEN r ELSE ArenaSetup.block_size
  BY DEF Arena!GrowthFor, Arena!RoundUp, p
<1> HIDE DEF r
<1>8. Arena!GrowthFor(req) \in Nat /\ Arena!GrowthFor(req) >= p
  BY <1>5, <1>6, <1>7, ArenaConstants
<1>9. QED
  BY <1>1, <1>2, <1>5, <1>8 DEF a, p

(* What a bump of the pointer does, wherever the block is.                 *)
LEMMA ArenaBump ==
  ASSUME ArenaInv, NEW req \in ArenaSetup.requests, Arena!Admission(req) = "ok",
         next_id < ArenaSetup.ids, NEW b \in Nat, NEW offset \in Nat, Arena!Bump(b, offset, req),
         \A e \in blocks' : e.base \in ArenaSetup.places /\ e.size \in Nat,
         base' \in Nat, cap' \in Nat
  PROVE  /\ DOMAIN live' = DOMAIN live \cup {next_id + 1} /\ next_id + 1 \notin DOMAIN live
         /\ \A h \in DOMAIN live : live'[h] = live[h]
         /\ live'[next_id + 1].addr = b + offset
         /\ live'[next_id + 1].align = Arena!AlignOf(req)
         /\ live'[next_id + 1].padded = Arena!Padded(req)
         /\ current' = offset + Arena!Padded(req) /\ current' \in Nat
         /\ Arena!TypeOK'
         /\ live_count' = Cardinality(DOMAIN live')
         /\ live_bytes' = SumFunction(LiveSizes')
         /\ granted' >= requested' /\ granted' >= live_bytes'
<1> DEFINE id == next_id + 1
           a == Arena!AlignOf(req)
           p == Arena!Padded(req)
<1>1. /\ live' = [h \in DOMAIN live \cup {id} |->
                    IF h = id THEN [addr |-> b + offset, size |-> req.size,
                                    align |-> a, padded |-> p] ELSE live[h]]
      /\ current' = offset + p /\ next_id' = id /\ live_count' = live_count + 1
      /\ live_bytes' = live_bytes + req.size /\ requested' = requested + req.size
      /\ granted' = granted + p /\ result' = "ok"
  BY DEF Arena!Bump
<1>2. /\ a \in Powers /\ req.size \in Nat /\ p \in Nat /\ p >= req.size
  BY ArenaRequest
<1> HIDE DEF a, p
<1>3. /\ next_id \in Nat /\ DOMAIN live \subseteq 1..next_id
      /\ IsFiniteSet(DOMAIN live) /\ id \notin DOMAIN live /\ Cardinality(DOMAIN live) \in Nat
      /\ live_count \in Nat /\ live_bytes \in Nat /\ requested \in Nat /\ granted \in Nat
      /\ \A h \in DOMAIN live : /\ live[h] \in [addr : Nat, size : Nat, align : Powers, padded : Nat]
                                /\ live[h].size \in Nat
  BY ArenaRecords
<1> HIDE DEF id
<1>4. /\ DOMAIN live' = DOMAIN live \cup {id}
      /\ live'[id] = [addr |-> b + offset, size |-> req.size, align |-> a, padded |-> p]
      /\ \A h \in DOMAIN live : live'[h] = live[h]
  BY <1>1, <1>3
<1>5. /\ live'[id].addr = b + offset /\ live'[id].size = req.size
      /\ live'[id].align = a /\ live'[id].padded = p
  BY <1>4
<1>6. Cardinality(DOMAIN live') = Cardinality(DOMAIN live) + 1
  <2>1. Cardinality(DOMAIN live \cup {id}) = Cardinality(DOMAIN live) + 1
    BY Zenon, <1>3, FS_AddElement
  <2>2. QED
    BY <1>4, <2>1
<1>7. SumFunction(LiveSizes') = SumFunction(LiveSizes) + req.size /\ SumFunction(LiveSizes) \in Nat
  BY <1>2, <1>3, <1>4, <1>5, SizesGain
<1>8. /\ live_count = Cardinality(DOMAIN live) /\ live_bytes = SumFunction(LiveSizes)
      /\ granted >= requested /\ granted >= live_bytes
  BY DEF ArenaInv
<1>9. /\ live_count' = Cardinality(DOMAIN live') /\ live_bytes' = SumFunction(LiveSizes')
      /\ granted' >= requested' /\ granted' >= live_bytes'
      /\ {live_count', live_bytes', requested', granted'} \subseteq Nat
  BY <1>1, <1>2, <1>3, <1>6, <1>7, <1>8
<1>10. current' \in Nat
  BY <1>1, <1>2
<1>11. Arena!TypeOK'
  <2>1. next_id' \in 0..ArenaSetup.ids /\ DOMAIN live' \subseteq 1..next_id'
    BY <1>1, <1>3, <1>4, ArenaConstants DEF id
  <2>2. live'[id] \in [addr : Nat, size : Nat, align : Powers, padded : Nat]
    BY <1>2, <1>4
  <2>3. \A h \in DOMAIN live' : live'[h] \in [addr : Nat, size : Nat, align : Powers, padded : Nat]
    BY <1>3, <1>4, <2>2
  <2>4. QED
    BY <1>1, <1>9, <1>10, <2>1, <2>3, ArenaOps DEF Arena!TypeOK
<1>12. QED
  BY <1>1, <1>3, <1>4, <1>5, <1>9, <1>10, <1>11 DEF id, a, p

LEMMA ArenaAllocate ==
  ASSUME ArenaInv, NEW req \in ArenaSetup.requests, Arena!Allocate(req)
  PROVE  ArenaInv'
<1> DEFINE id == next_id + 1
           a == Arena!AlignOf(req)
           p == Arena!Padded(req)
           E == [base |-> base, size |-> cap]
<1>1. /\ Arena!Admission(req) = "ok" /\ next_id < ArenaSetup.ids
      /\ current + p <= cap /\ Arena!Bump(base, current, req)
      /\ blocks' = blocks /\ base' = base /\ cap' = cap
  BY DEF Arena!Allocate, Arena!Fits
<1>2. /\ a \in Powers /\ a <= ArenaSetup.block_align /\ p \in Nat /\ p > 0 /\ p % a = 0
  BY <1>1, ArenaRequest
<1>3. /\ next_id \in Nat /\ base \in Nat /\ current \in Nat /\ cap \in Nat
      /\ DOMAIN live \subseteq 1..next_id
      /\ \A h \in DOMAIN live :
           /\ live[h].addr \in Nat /\ live[h].padded \in Nat
           /\ live[h].align \in Powers /\ live[h].align \in Nat /\ live[h].align > 0
      /\ \A e \in blocks : e.base \in Nat /\ e.size \in Nat
  BY ArenaRecords
<1> HIDE DEF a, p
<1>4. /\ DOMAIN live' = DOMAIN live \cup {id} /\ id \notin DOMAIN live
      /\ \A h \in DOMAIN live : live'[h] = live[h]
      /\ live'[id].addr = base + current /\ live'[id].align = a /\ live'[id].padded = p
      /\ current' = current + p
      /\ Arena!TypeOK'
      /\ live_count' = Cardinality(DOMAIN live') /\ live_bytes' = SumFunction(LiveSizes')
      /\ granted' >= requested' /\ granted' >= live_bytes'
  <2>1. \A e \in blocks' : e.base \in ArenaSetup.places /\ e.size \in Nat
    BY <1>1 DEF ArenaInv, Arena!TypeOK
  <2>2. base' \in Nat /\ cap' \in Nat
    BY <1>1, <1>3
  <2>3. QED
    BY Zenon, <1>1, <1>3, <2>1, <2>2, ArenaBump DEF a, p
<1>5. /\ \A e \in blocks : e.size > 0
      /\ \A d, e \in blocks : d = e \/ BlocksApart(d, e)
      /\ current <= cap
      /\ blocks = {} => cap = 0
      /\ blocks # {} => E \in blocks
      /\ \A h \in DOMAIN live :
           /\ live[h].padded > 0
           /\ \E e \in blocks :
                /\ e.base <= live[h].addr /\ live[h].addr + live[h].padded <= e.base + e.size
                /\ e.base = base => live[h].addr + live[h].padded <= base + current
      /\ \A g, h \in DOMAIN live : \/ g = h
                                   \/ live[g].addr + live[g].padded <= live[h].addr
                                   \/ live[h].addr + live[h].padded <= live[g].addr
      /\ blocks # {} => \E g \in DOMAIN live : /\ base <= live[g].addr /\ live[g].addr < base + cap
                                               /\ (base + current) % live[g].align = 0
  BY DEF ArenaInv
<1>6. E \in blocks /\ E.base = base /\ E.size = cap
  <2>1. blocks # {}
    BY <1>1, <1>2, <1>3, <1>5
  <2>2. QED
    BY <1>5, <2>1
<1>7. PICK w \in DOMAIN live : /\ base <= live[w].addr /\ live[w].addr < base + cap
                               /\ (base + current) % live[w].align = 0
  BY <1>5, <1>6
<1> HIDE DEF E, id
<1>8. \A h \in DOMAIN live' :
        /\ live'[h].padded > 0
        /\ \E e \in blocks :
             /\ e.base <= live'[h].addr /\ live'[h].addr + live'[h].padded <= e.base + e.size
             /\ e.base = base => live'[h].addr + live'[h].padded <= base + current'
  <2>1. ASSUME NEW h \in DOMAIN live
        PROVE  /\ live[h].padded > 0
               /\ \E e \in blocks :
                    /\ e.base <= live[h].addr /\ live[h].addr + live[h].padded <= e.base + e.size
                    /\ e.base = base => live[h].addr + live[h].padded <= base + current'
    BY <1>2, <1>3, <1>4, <1>5
  <2>2. /\ p > 0 /\ E.base <= base + current
        /\ base + current + p <= E.base + E.size
        /\ base + current + p <= base + current'
    BY <1>1, <1>2, <1>3, <1>4, <1>6 DEF p
  <2>3. QED
    BY <1>4, <1>6, <2>1, <2>2
<1>9. \A g \in DOMAIN live : \/ live[g].addr + live[g].padded <= base + current
                             \/ base + current + p <= live[g].addr
  <2> SUFFICES ASSUME NEW g \in DOMAIN live
               PROVE  \/ live[g].addr + live[g].padded <= base + current
                      \/ base + current + p <= live[g].addr
    OBVIOUS
  <2>1. PICK e \in blocks :
          /\ e.base <= live[g].addr /\ live[g].addr + live[g].padded <= e.base + e.size
          /\ e.base = base => live[g].addr + live[g].padded <= base + current
    BY <1>5
  <2>2. CASE e.base = base
    BY <2>1, <2>2
  <2>3. CASE e.base # base
    <3>1. BlocksApart(e, E)
      BY <1>5, <1>6, <2>3
    <3>2. e.base + e.size <= base \/ base + cap <= e.base
      BY <1>6, <3>1 DEF BlocksApart
    <3>3. current + p <= cap
      BY <1>1 DEF p
    <3>4. QED
      BY <1>2, <1>3, <2>1, <3>2, <3>3
  <2>4. QED
    BY <2>2, <2>3
<1>10. \A g, h \in DOMAIN live' : \/ g = h
                                  \/ live'[g].addr + live'[g].padded <= live'[h].addr
                                  \/ live'[h].addr + live'[h].padded <= live'[g].addr
  <2>1. \A g, h \in DOMAIN live : \/ g = h
                                  \/ live'[g].addr + live'[g].padded <= live'[h].addr
                                  \/ live'[h].addr + live'[h].padded <= live'[g].addr
    BY <1>4, <1>5
  <2>2. \A g \in DOMAIN live : \/ live'[g].addr + live'[g].padded <= live'[id].addr
                               \/ live'[id].addr + live'[id].padded <= live'[g].addr
    BY <1>4, <1>9
  <2>3. QED
    BY <1>4, <2>1, <2>2
<1>11. \E g \in DOMAIN live' : /\ base <= live'[g].addr /\ live'[g].addr < base + cap
                               /\ (base + current') % live'[g].align = 0
  <2>1. base + current \in Nat /\ base + current' = (base + current) + p
    BY <1>2, <1>3, <1>4
  <2>2. CASE a <= live[w].align
    <3>1. (base + current) % a = 0
      BY <1>2, <1>3, <1>7, <2>1, <2>2, PowerDivides
    <3>2. ((base + current) + p) % a = 0
      BY Zenon, <1>2, <2>1, <3>1, MultiplesAdd, ArenaConstants
    <3>3. base <= base + current /\ base + current < base + cap
      BY <1>1, <1>2, <1>3 DEF p
    <3>4. QED
      BY <1>4, <2>1, <3>2, <3>3
  <2>3. CASE ~ (a <= live[w].align)
    <3>1. live[w].align <= a /\ a \in Nat
      BY <1>2, <1>3, <2>3, ArenaConstants
    <3>2. p % live[w].align = 0
      BY <1>2, <1>3, <3>1, PowerDivides
    <3>3. ((base + current) + p) % live[w].align = 0
      BY Zenon, <1>2, <1>3, <1>7, <2>1, <3>2, MultiplesAdd
    <3>4. QED
      BY <1>4, <1>7, <2>1, <3>3
  <2>4. QED
    BY <2>2, <2>3
<1>12. Arena!AlignedToWeakest'
  <2>1. ASSUME NEW h \in DOMAIN live', NEW e \in blocks,
               e.base <= live'[h].addr, live'[h].addr < e.base + e.size
        PROVE  \E g \in DOMAIN live' :
                 /\ g <= h
                 /\ e.base <= live'[g].addr /\ live'[g].addr < e.base + e.size
                 /\ live'[h].addr % live'[g].align = 0
    <3>1. CASE h \in DOMAIN live
      <4>1. \E g \in DOMAIN live :
              /\ g <= h
              /\ e.base <= live[g].addr /\ live[g].addr < e.base + e.size
              /\ live[h].addr % live[g].align = 0
        BY <1>4, <2>1, <3>1 DEF ArenaInv, Arena!AlignedToWeakest
      <4>2. QED
        BY <1>4, <3>1, <4>1
    <3>2. CASE h = id
      <4>1. e = E
        <5>1. e.base <= base + current /\ base + current < e.base + e.size
          BY <1>4, <2>1, <3>2
        <5>2. current < cap
          BY <1>1, <1>2, <1>3 DEF p
        <5>3. ~ BlocksApart(e, E)
          BY <1>3, <1>6, <5>1, <5>2 DEF BlocksApart
        <5>4. QED
          BY <1>5, <1>6, <5>3
      <4>2. w <= h /\ w \in DOMAIN live'
        BY <1>3, <1>4, <3>2 DEF id
      <4>3. QED
        BY <1>4, <1>6, <1>7, <3>2, <4>1, <4>2
    <3>3. QED
      BY <1>4, <3>1, <3>2
  <2>2. QED
    BY <1>1, <2>1 DEF Arena!AlignedToWeakest
<1>13. current' <= cap
  BY <1>1, <1>4 DEF p
<1>14. QED
  BY <1>1, <1>4, <1>5, <1>8, <1>10, <1>11, <1>12, <1>13 DEF ArenaInv, E

LEMMA ArenaGrow ==
  ASSUME ArenaInv, NEW req \in ArenaSetup.requests, Arena!AllocateGrow(req)
  PROVE  ArenaInv'
<1> DEFINE id == next_id + 1
           a == Arena!AlignOf(req)
           p == Arena!Padded(req)
           z == Arena!GrowthFor(req)
<1>1. /\ Arena!Admission(req) = "ok" /\ next_id < ArenaSetup.ids /\ cap' = z
  BY DEF Arena!AllocateGrow
<1>2. PICK b \in ArenaSetup.places :
        /\ Arena!Vacant(b, z) /\ blocks' = blocks \cup {[base |-> b, size |-> z]}
        /\ base' = b /\ Arena!Bump(b, 0, req)
  BY DEF Arena!AllocateGrow, Arena!StartOf
<1> DEFINE E == [base |-> b, size |-> z]
<1>3. /\ a \in Powers /\ a <= ArenaSetup.block_align /\ a \in Nat /\ a > 0
      /\ p \in Nat /\ p > 0 /\ p % a = 0 /\ z \in Nat /\ z >= p
  BY Zenon, <1>1, ArenaRequest, ArenaConstants
<1>4. /\ next_id \in Nat /\ DOMAIN live \subseteq 1..next_id
      /\ \A h \in DOMAIN live :
           /\ live[h].addr \in Nat /\ live[h].padded \in Nat /\ live[h].align \in Nat
      /\ \A e \in blocks : e.base \in Nat /\ e.size \in Nat
  BY ArenaRecords
<1>5. b \in Nat /\ b % a = 0
  BY <1>3, ArenaConstants, PowerDivides
<1> HIDE DEF a, p, z
<1>6. E.base = b /\ E.size = z /\ E \in blocks'
  BY <1>2
<1>7. \A e \in blocks : b + z <= e.base \/ e.base + e.size <= b
  BY <1>2 DEF Arena!Vacant
<1>8. /\ DOMAIN live' = DOMAIN live \cup {id} /\ id \notin DOMAIN live
      /\ \A h \in DOMAIN live : live'[h] = live[h]
      /\ live'[id].addr = b + 0 /\ live'[id].align = a /\ live'[id].padded = p
      /\ current' = 0 + p
      /\ Arena!TypeOK'
      /\ live_count' = Cardinality(DOMAIN live') /\ live_bytes' = SumFunction(LiveSizes')
      /\ granted' >= requested' /\ granted' >= live_bytes'
  <2>1. \A e \in blocks' : e.base \in ArenaSetup.places /\ e.size \in Nat
    BY <1>2, <1>3, <1>6 DEF ArenaInv, Arena!TypeOK
  <2>2. base' \in Nat /\ cap' \in Nat
    BY <1>1, <1>2, <1>3, <1>5 DEF z
  <2>3. PICK o : o = 0
    OBVIOUS
  <2>4. /\ Arena!Admission(req) = "ok" /\ next_id < ArenaSetup.ids
        /\ Arena!Bump(b, o, req) /\ o \in Nat
    BY <1>1, <1>2, <2>3
  <2>5. /\ DOMAIN live' = DOMAIN live \cup {next_id + 1} /\ next_id + 1 \notin DOMAIN live
        /\ \A h \in DOMAIN live : live'[h] = live[h]
        /\ live'[next_id + 1].addr = b + o
        /\ live'[next_id + 1].align = Arena!AlignOf(req)
        /\ live'[next_id + 1].padded = Arena!Padded(req)
        /\ current' = o + Arena!Padded(req)
        /\ Arena!TypeOK'
        /\ live_count' = Cardinality(DOMAIN live') /\ live_bytes' = SumFunction(LiveSizes')
        /\ granted' >= requested' /\ granted' >= live_bytes'
    BY Zenon, <1>5, <2>1, <2>2, <2>4, ArenaBump
  <2>6. QED
    BY <2>3, <2>5 DEF a, p
<1>9. live'[id].addr = b /\ current' = p
  BY <1>3, <1>5, <1>8
<1>10. /\ \A e \in blocks : e.size > 0
       /\ \A d, e \in blocks : d = e \/ BlocksApart(d, e)
       /\ \A h \in DOMAIN live :
            /\ live[h].padded > 0
            /\ \E e \in blocks :
                 /\ e.base <= live[h].addr /\ live[h].addr + live[h].padded <= e.base + e.size
       /\ \A g, h \in DOMAIN live : \/ g = h
                                    \/ live[g].addr + live[g].padded <= live[h].addr
                                    \/ live[h].addr + live[h].padded <= live[g].addr
  BY DEF ArenaInv
<1> HIDE DEF E, id
<1>11. \A e \in blocks' : e \in blocks \/ e = E
  BY <1>2 DEF E
<1>12. \A e \in blocks : BlocksApart(e, E) /\ BlocksApart(E, e) /\ e.base # b
  BY <1>3, <1>4, <1>5, <1>6, <1>7, <1>10 DEF BlocksApart
<1>13. /\ \A e \in blocks' : e.size > 0
       /\ \A d, e \in blocks' : d = e \/ BlocksApart(d, e)
  BY <1>3, <1>6, <1>10, <1>11, <1>12
<1>14. \A h \in DOMAIN live : b + z <= live[h].addr \/ live[h].addr + live[h].padded <= b
  BY <1>3, <1>4, <1>5, <1>7, <1>10
<1>15. \A h \in DOMAIN live' :
         /\ live'[h].padded > 0
         /\ \E e \in blocks' :
              /\ e.base <= live'[h].addr /\ live'[h].addr + live'[h].padded <= e.base + e.size
              /\ e.base = b => live'[h].addr + live'[h].padded <= b + current'
  <2>1. ASSUME NEW h \in DOMAIN live
        PROVE  /\ live[h].padded > 0
               /\ \E e \in blocks' :
                    /\ e.base <= live[h].addr /\ live[h].addr + live[h].padded <= e.base + e.size
                    /\ e.base = b => live[h].addr + live[h].padded <= b + current'
    BY <1>2, <1>10, <1>12
  <2>2. p > 0 /\ E.base <= b /\ b + p <= E.base + E.size /\ b + p <= b + current'
    BY <1>3, <1>5, <1>6, <1>9
  <2>3. QED
    BY <1>6, <1>8, <1>9, <2>1, <2>2
<1>16. \A g, h \in DOMAIN live' : \/ g = h
                                  \/ live'[g].addr + live'[g].padded <= live'[h].addr
                                  \/ live'[h].addr + live'[h].padded <= live'[g].addr
  <2>1. \A g, h \in DOMAIN live : \/ g = h
                                  \/ live'[g].addr + live'[g].padded <= live'[h].addr
                                  \/ live'[h].addr + live'[h].padded <= live'[g].addr
    BY <1>8, <1>10
  <2>2. \A g \in DOMAIN live : \/ live[g].addr + live[g].padded <= b
                               \/ b + p <= live[g].addr
    BY <1>3, <1>4, <1>5, <1>14
  <2>3. \A g \in DOMAIN live : \/ live'[g].addr + live'[g].padded <= live'[id].addr
                               \/ live'[id].addr + live'[id].padded <= live'[g].addr
    BY <1>8, <1>9, <2>2
  <2>4. QED
    BY <1>8, <2>1, <2>3
<1>17. \E g \in DOMAIN live' : /\ b <= live'[g].addr /\ live'[g].addr < b + z
                               /\ (b + current') % live'[g].align = 0
  <2>1. (b + p) % a = 0
    BY Zenon, <1>3, <1>5, MultiplesAdd
  <2>2. id \in DOMAIN live' /\ b <= b /\ b < b + z
    <3>1. id \in DOMAIN live'
      BY <1>8
    <3>2. b <= b /\ b < b + z
      BY <1>3, <1>5
    <3>3. QED
      BY <3>1, <3>2
  <2>3. QED
    BY <1>8, <1>9, <2>1, <2>2
<1>18. Arena!AlignedToWeakest'
  <2>1. ASSUME NEW h \in DOMAIN live', NEW e \in blocks',
               e.base <= live'[h].addr, live'[h].addr < e.base + e.size
        PROVE  \E g \in DOMAIN live' :
                 /\ g <= h
                 /\ e.base <= live'[g].addr /\ live'[g].addr < e.base + e.size
                 /\ live'[h].addr % live'[g].align = 0
    <3>1. CASE h \in DOMAIN live
      <4>1. e \in blocks
        BY <1>3, <1>4, <1>5, <1>6, <1>8, <1>10, <1>11, <1>14, <2>1, <3>1
      <4>2. \E g \in DOMAIN live :
              /\ g <= h
              /\ e.base <= live[g].addr /\ live[g].addr < e.base + e.size
              /\ live[h].addr % live[g].align = 0
        BY <1>8, <2>1, <3>1, <4>1 DEF ArenaInv, Arena!AlignedToWeakest
      <4>3. QED
        BY <1>8, <3>1, <4>2
    <3>2. CASE h = id
      <4>1. id <= id
        BY <1>4 DEF id
      <4>2. QED
        BY <1>5, <1>8, <1>9, <2>1, <3>2, <4>1
    <3>3. QED
      BY <1>8, <3>1, <3>2
  <2>2. QED
    BY <2>1 DEF Arena!AlignedToWeakest
<1>19. current' <= z
  BY <1>3, <1>9
<1>20. QED
  BY <1>1, <1>2, <1>6, <1>8, <1>13, <1>15, <1>16, <1>17, <1>18, <1>19 DEF ArenaInv, E, z

LEMMA ArenaDiscard ==
  ASSUME ArenaInv, Arena!Discard
  PROVE  ArenaInv'
<1>1. /\ blocks' = {} /\ base' = 0 /\ current' = 0 /\ cap' = 0
      /\ live' = [x \in {} |-> 0] /\ live_count' = 0 /\ live_bytes' = 0 /\ result' = "ok"
      /\ next_id' = next_id /\ requested' = requested /\ granted' = granted
  BY DEF Arena!Discard, Arena!Empty
<1>2. DOMAIN live' = {} /\ Cardinality({}) = 0
  BY <1>1, FS_EmptySet
<1>3. SumFunction(LiveSizes') = 0
  <2> DEFINE f == LiveSizes'
  <2>1. DOMAIN f = {}
    BY <1>2 DEF LiveSizes
  <2> HIDE DEF f
  <2>2. SumFunction(f) = 0
    BY <2>1, SumNone
  <2>3. QED
    BY <2>2 DEF f
<1>4. requested \in Nat /\ granted \in Nat /\ granted >= requested
  BY DEF ArenaInv, Arena!TypeOK
<1>5. Arena!TypeOK'
  BY <1>1, <1>2 DEF ArenaInv, Arena!TypeOK
<1>6. Arena!AlignedToWeakest'
  BY <1>2 DEF Arena!AlignedToWeakest
<1>7. QED
  BY <1>1, <1>2, <1>3, <1>4, <1>5, <1>6 DEF ArenaInv

LEMMA ArenaNext ==
  ASSUME ArenaInv, Arena!Next
  PROVE  ArenaInv'
<1>1. ASSUME NEW req, Arena!AllocateRejected(req)
      PROVE  ArenaInv'
  BY <1>1, ArenaFails DEF Arena!AllocateRejected, Arena!Admission
<1>2. ASSUME NEW req, Arena!AllocateExhausted(req)
      PROVE  ArenaInv'
  BY <1>2, ArenaFails DEF Arena!AllocateExhausted
<1>3. CASE Arena!Free
  BY <1>3, ArenaFails DEF Arena!Free
<1>4. ASSUME NEW req \in ArenaSetup.requests,
             \/ Arena!AllocateRejected(req) \/ Arena!Allocate(req)
             \/ Arena!AllocateGrow(req) \/ Arena!AllocateExhausted(req)
      PROVE  ArenaInv'
  BY <1>1, <1>2, <1>4, ArenaAllocate, ArenaGrow
<1>5. QED
  BY <1>3, <1>4, ArenaDiscard DEF Arena!Next

LEMMA ArenaHeld ==
  ASSUME ArenaInv
  PROVE  Held(Arena!extents, next_id)
<1>1. /\ next_id \in Nat /\ DOMAIN live \subseteq 1..next_id
      /\ \A h \in DOMAIN live : live[h].addr \in Nat /\ live[h].padded \in Nat \ {0}
  BY ArenaRecords DEF ArenaInv
<1>2. /\ DOMAIN Arena!extents = DOMAIN live
      /\ \A h \in DOMAIN live : Arena!extents[h] = [addr |-> live[h].addr, size |-> live[h].padded]
  BY DEF Arena!extents
<1>3. ASSUME NEW g \in DOMAIN live, NEW h \in DOMAIN live, g # h
      PROVE  Contract!Apart(Arena!extents[g], Arena!extents[h])
  <2>1. \/ live[g].addr + live[g].padded <= live[h].addr
        \/ live[h].addr + live[h].padded <= live[g].addr
    BY <1>3 DEF ArenaInv
  <2>2. QED
    BY <1>2, <2>1, ApartAt
<1>4. \A h \in DOMAIN live : Arena!extents[h] \in Contract!Extent
  BY <1>1, <1>2, ExtentAt
<1>5. QED
  BY <1>1, <1>2, <1>3, <1>4 DEF Held

LEMMA ArenaSteps ==
  ASSUME ArenaInv, Arena!Next
  PROVE  /\ Steps(Arena!extents, Arena!extents', next_id, next_id')
         /\ next_id' = next_id \/ next_id' \in 1..ArenaSetup.ids
<1> DEFINE e == Arena!extents
           f == Arena!extents'
           x(r) == [addr |-> r.addr, size |-> r.padded]
<1>1. /\ DOMAIN e = DOMAIN live /\ \A h \in DOMAIN live : e[h] = x(live[h])
      /\ DOMAIN f = DOMAIN live' /\ \A h \in DOMAIN live' : f[h] = x(live'[h])
      /\ f = [h \in DOMAIN f |-> f[h]]
  BY DEF Arena!extents
<1>2. next_id \in Nat /\ ArenaSetup.ids \in Nat /\ DOMAIN live \subseteq 1..next_id
  BY ArenaConstants, ArenaRecords
<1>3. ASSUME NEW code, Arena!Fails(code)
      PROVE  f = e /\ next_id' = next_id
  BY <1>3 DEF Arena!Fails, Arena!extents
<1>4. ASSUME NEW b, NEW offset, NEW req, Arena!Bump(b, offset, req), next_id < ArenaSetup.ids
      PROVE  Adds(e, f, next_id, next_id') /\ next_id' \in 1..ArenaSetup.ids
  <2>1. /\ next_id' = next_id + 1 /\ DOMAIN live' = DOMAIN live \cup {next_id'}
        /\ \A h \in DOMAIN live : h # next_id' => live'[h] = live[h]
    BY <1>4 DEF Arena!Bump
  <2>2. next_id' \notin DOMAIN live /\ next_id' \in 1..ArenaSetup.ids
    BY <1>2, <1>4, <2>1
  <2>3. \A h \in DOMAIN live : live'[h] = live[h]
    BY <2>1, <2>2
  <2> HIDE DEF e, f, x
  <2>4. QED
    BY <1>1, <2>1, <2>2, <2>3 DEF Adds
<1>5. ASSUME Arena!Discard
      PROVE  Clears(f) /\ next_id' = next_id
  BY <1>1, <1>5 DEF Arena!Discard, Arena!Empty, Clears
<1> HIDE DEF e, f, x
<1>6. ASSUME NEW req, \/ Arena!AllocateRejected(req) \/ Arena!Allocate(req)
                       \/ Arena!AllocateGrow(req) \/ Arena!AllocateExhausted(req)
      PROVE  Steps(e, f, next_id, next_id') /\ (next_id' = next_id \/ next_id' \in 1..ArenaSetup.ids)
  BY <1>3, <1>4, <1>6 DEF Arena!AllocateRejected, Arena!Allocate, Arena!AllocateGrow,
     Arena!AllocateExhausted, Steps
<1>7. CASE Arena!Free \/ Arena!Discard
  BY <1>3, <1>5, <1>7 DEF Arena!Free, Steps, e, f
<1>8. QED
  BY <1>6, <1>7 DEF Arena!Next, e, f

(* What the runs check of the arena.                                       *)
LEMMA ArenaSound ==
  ASSUME ArenaInv
  PROVE  Arena!TypeOK /\ Arena!InsideBlocks /\ Arena!Accounting /\ Arena!AlignedToWeakest
<1>1. SumFunction([h \in DOMAIN live |-> live[h].size]) = SumFunction(LiveSizes)
  BY DEF LiveSizes
<1>2. Arena!Accounting
  BY <1>1, ArenaOps DEF Arena!Accounting, ArenaInv
<1>3. Arena!InsideBlocks
  BY DEF Arena!InsideBlocks, ArenaInv
<1>4. QED
  BY <1>2, <1>3 DEF ArenaInv

-----------------------------------------------------------------------------
(* The segregated-fit strategy: sizes, bins and requests.                  *)

SegHeader == SegregatedSetup.header_size
SegLeast == SegregatedSetup.min_block
SegPlaces == SegregatedSetup.places

SegPowers == Powers \cup {131072, 262144, 524288, 1048576}

LEMMA SegOps ==
  /\ \A f : Segregated!SumFunction(f) = SumFunction(f)
  /\ \A S : Segregated!Cardinality(S) = Cardinality(S)
  /\ \A S : Segregated!Min(S) = Min(S)
  /\ \A t : Segregated!ToSet(t) = ToSet(t)
  /\ \A t, i : Segregated!RemoveAt(t, i) = RemoveAt(t, i)
  /\ Segregated!PowersOfTwo = SegPowers
<1>1. \A f : Segregated!SumFunction(f) = SumFunction(f)
  BY DEF Segregated!SumFunction, Segregated!SumFunctionOnSet, Segregated!FoldFunctionOnSet,
         Segregated!MapThenFoldSet, SumFunction, SumFunctionOnSet, FoldFunctionOnSet,
         MapThenFoldSet
<1>2. \A S : Segregated!Cardinality(S) = Cardinality(S)
  BY DEF Segregated!Cardinality, Cardinality
<1>3. \A S : Segregated!Min(S) = Min(S)
  BY DEF Segregated!Min, Min
<1>4. \A t : Segregated!ToSet(t) = ToSet(t)
  BY DEF Segregated!ToSet, ToSet
<1>5. \A t, i : Segregated!RemoveAt(t, i) = RemoveAt(t, i)
  BY DEF Segregated!RemoveAt, RemoveAt
<1>6. Segregated!PowersOfTwo = SegPowers
  <2>1. 0..20 = (0..16) \cup {17, 18, 19, 20}
    OBVIOUS
  <2>2. 2^17 = 131072 /\ 2^18 = 262144 /\ 2^19 = 524288 /\ 2^20 = 1048576
    OBVIOUS
  <2>3. {2^k : k \in 0..20} = {2^k : k \in 0..16} \cup {2^17, 2^18, 2^19, 2^20}
    BY <2>1
  <2>4. QED
    BY <2>2, <2>3, PowersAre DEF Segregated!PowersOfTwo, SegPowers
<1>7. QED
  BY <1>1, <1>2, <1>3, <1>4, <1>5, <1>6

LEMMA SegConstants ==
  ASSUME Segregated!Assumptions
  PROVE  /\ SegregatedSetup.superblock_size \in Nat /\ SegregatedSetup.superblock_size > 0
         /\ SegregatedSetup.default \in Nat /\ SegregatedSetup.default > 0
         /\ SegregatedSetup.max_bytes \in Nat /\ SegregatedSetup.ids \in Nat
         /\ SegHeader \in Nat /\ SegLeast \in Nat /\ SegLeast > 0
         /\ SegLeast <= SegHeader + SegregatedSetup.default
         /\ SegPlaces \subseteq Nat
         /\ SegregatedSetup.requests \subseteq [size : Nat, alignment : Nat]
<1>1. SegPowers \subseteq Nat /\ \A a \in SegPowers : a > 0
  BY DEF SegPowers, Powers
<1>2. /\ SegregatedSetup.superblock_size \in SegPowers /\ SegregatedSetup.default \in SegPowers
      /\ SegregatedSetup.max_bytes \in Nat /\ SegregatedSetup.ids \in Nat
      /\ SegHeader \in Nat /\ SegLeast \in Nat /\ 0 < SegLeast
      /\ SegLeast <= SegHeader + SegregatedSetup.default
      /\ SegPlaces \subseteq Nat
      /\ SegregatedSetup.requests \subseteq [size : Nat, alignment : Nat]
  BY SegOps DEF Segregated!Assumptions, SegHeader, SegLeast, SegPlaces
<1>3. QED
  BY Zenon, <1>1, <1>2

(* What a request takes holds its header and its bytes, and is a block.    *)
LEMMA SegNeeds ==
  ASSUME Segregated!Assumptions, NEW req \in SegregatedSetup.requests
  PROVE  /\ Segregated!Need(req) \in Nat /\ Segregated!Need(req) >= SegLeast
         /\ Segregated!Need(req) > SegHeader /\ req.size \in Nat
         /\ Segregated!Need(req) >= SegHeader + req.size
<1> DEFINE v == IF req.size = 0 THEN 1 ELSE req.size
           a == SegregatedSetup.default
           r == ((v + a - 1) \div a) * a
<1>1. /\ req.size \in Nat /\ v \in Nat /\ v >= 1 /\ v >= req.size /\ a \in Nat /\ a > 0
      /\ SegHeader \in Nat /\ SegLeast \in Nat /\ SegLeast <= SegHeader + a
  BY SegConstants
<1>2. Segregated!Need(req) = SegHeader + r
  BY DEF Segregated!Need, Segregated!AlignUp, SegHeader
<1> HIDE DEF a, v
<1>3. r \in Nat /\ r >= v /\ r % a = 0
  BY <1>1, RoundedUp
<1> HIDE DEF r
<1>4. r >= a
  <2>1. r \div a \in Nat /\ r = a * (r \div a) + (r % a)
    BY <1>1, <1>3, DivMod
  <2> DEFINE q == r \div a
  <2>2. q \in Nat /\ r = a * q
    BY <1>1, <1>3, <2>1
  <2> HIDE DEF q
  <2>3. q > 0
    <3>1. q = 0 => a * q = 0
      BY <1>1
    <3>2. QED
      BY <1>1, <1>3, <2>2, <3>1
  <2>4. a * q >= a
    BY <1>1, <2>2, <2>3
  <2>5. QED
    BY <2>2, <2>4
<1>5. QED
  BY <1>1, <1>2, <1>3, <1>4

(* What grow_superblock() adds is a block large enough for the request.    *)
LEMMA SegGrowth ==
  ASSUME Segregated!Assumptions, NEW req \in SegregatedSetup.requests
  PROVE  /\ Segregated!GrowthFor(req) \in Nat
         /\ Segregated!GrowthFor(req) >= Segregated!Need(req)
<1> DEFINE a == SegregatedSetup.superblock_size
           v == Segregated!Need(req)
           r == ((v + a - 1) \div a) * a
<1>1. a \in Nat /\ a > 0 /\ v \in Nat
  BY SegConstants, SegNeeds
<1>2. Segregated!GrowthFor(req) = IF a > v THEN a ELSE r
  BY DEF Segregated!GrowthFor, Segregated!AlignUp
<1> HIDE DEF a, v
<1>3. r \in Nat /\ r >= v
  BY <1>1, RoundedUp
<1> HIDE DEF r
<1>4. QED
  BY <1>1, <1>2, <1>3 DEF v

(* Larger sizes do not lie in lower bins.                                  *)
LEMMA SegBinsRise ==
  ASSUME NEW u \in Nat, NEW v \in Nat, u <= v
  PROVE  /\ Segregated!CeilLog2(u) \in Nat /\ Segregated!CeilLog2(v) \in Nat
         /\ Segregated!CeilLog2(u) <= Segregated!CeilLog2(v)
<1> DEFINE A == {k \in 0..20 : 2^k < u}
           B == {k \in 0..20 : 2^k < v}
<1>1. /\ Segregated!CeilLog2(u) = Cardinality(A)
      /\ Segregated!CeilLog2(v) = Cardinality(B)
  BY SegOps DEF Segregated!CeilLog2
<1>2. \A k \in 0..20 : 2^k \in Int
  OBVIOUS
<1>3. A \subseteq B
  BY <1>2
<1>4. IsFiniteSet(B)
  <2>1. IsFiniteSet(0..20)
    <3>1. PICK n \in Int : n = 20
      OBVIOUS
    <3>2. IsFiniteSet(0..n)
      BY FS_Interval
    <3>3. QED
      BY <3>1, <3>2
  <2>2. QED
    BY <2>1, FS_Subset
<1> HIDE DEF A, B
<1>5. IsFiniteSet(A) /\ Cardinality(A) <= Cardinality(B)
  BY <1>3, <1>4, FS_Subset
<1>6. QED
  BY <1>1, <1>4, <1>5, FS_CardinalityType

LEMMA SegBinIs ==
  ASSUME Segregated!Assumptions, NEW u \in Nat
  PROVE  /\ Segregated!BinOf(u) \in Segregated!Bin
         /\ Segregated!Bin \subseteq Nat
         /\ Segregated!BinOf(u) <= Segregated!CeilLog2(u)
         /\ \A v \in Nat : /\ v <= SegregatedSetup.superblock_size /\ v <= u
                           => Segregated!CeilLog2(v) <= Segregated!BinOf(u)
<1>1. Segregated!MaxBin \in Nat /\ Segregated!MaxBin = Segregated!CeilLog2(SegregatedSetup.superblock_size)
  BY SegConstants, SegBinsRise DEF Segregated!MaxBin
<1>2. Segregated!CeilLog2(u) \in Nat
  BY SegBinsRise
<1>3. Segregated!Bin = 0..Segregated!MaxBin
  BY DEF Segregated!Bin
<1>4. Segregated!BinOf(u) = IF Segregated!CeilLog2(u) > Segregated!MaxBin
                            THEN Segregated!MaxBin ELSE Segregated!CeilLog2(u)
  BY DEF Segregated!BinOf
<1>5. ASSUME NEW v \in Nat, v <= SegregatedSetup.superblock_size, v <= u
      PROVE  Segregated!CeilLog2(v) <= Segregated!BinOf(u)
  <2>1. /\ Segregated!CeilLog2(v) \in Nat
        /\ Segregated!CeilLog2(v) <= Segregated!CeilLog2(u)
        /\ Segregated!CeilLog2(v) <= Segregated!CeilLog2(SegregatedSetup.superblock_size)
    BY <1>5, SegBinsRise, SegConstants
  <2>2. QED
    BY <1>1, <1>2, <1>4, <2>1
<1>6. QED
  BY <1>1, <1>2, <1>3, <1>4, <1>5

-----------------------------------------------------------------------------
(* Superblocks sb and the blocks hd in them: superblocks lie apart, blocks *)
(* lie apart, each wholly in a superblock, and they fill the superblocks.  *)
SegWithin(s, hd) == {b \in DOMAIN hd : s.base <= b /\ b < s.base + s.size}
SegSizes(s, hd) == [b \in SegWithin(s, hd) |-> hd[b].size]

SegHeld(sb) ==
  /\ IsFiniteSet(sb)
  /\ \A s \in sb : s.base \in SegPlaces /\ s.base \in Nat /\ s.size \in Nat /\ s.size > 0
  /\ \A s, t \in sb : s = t \/ s.base + s.size <= t.base \/ t.base + t.size <= s.base

SegHeaders(hd) ==
  /\ IsFiniteSet(DOMAIN hd)
  /\ \A b \in DOMAIN hd : /\ b \in Nat /\ hd[b] \in [size : Nat, busy : BOOLEAN]
                          /\ hd[b].size \in Nat /\ hd[b].size >= SegLeast /\ hd[b].size > 0
  /\ \A b, c \in DOMAIN hd : b = c \/ b + hd[b].size <= c \/ c + hd[c].size <= b

SegCovers(sb, hd) ==
  /\ \A b \in DOMAIN hd : \E s \in sb : s.base <= b /\ b + hd[b].size <= s.base + s.size
  /\ \A s \in sb : s.base \in DOMAIN hd /\ SumFunction(SegSizes(s, hd)) = s.size
  /\ \A s \in sb : \A b \in SegWithin(s, hd) :
       b + hd[b].size \in DOMAIN hd \/ b + hd[b].size = s.base + s.size

SegBlocks(sb, hd) == SegHeld(sb) /\ SegHeaders(hd) /\ SegCovers(sb, hd)

(* A block with a byte in a superblock is wholly in it.                    *)
LEMMA SegWhole ==
  ASSUME NEW sb, NEW hd, SegBlocks(sb, hd), NEW s \in sb, NEW b \in SegWithin(s, hd)
  PROVE  /\ b \in DOMAIN hd /\ b \in Nat /\ hd[b].size \in Nat /\ hd[b].size > 0
         /\ s.base <= b /\ b + hd[b].size <= s.base + s.size
         /\ s.base \in Nat /\ s.size \in Nat
<1>1. /\ b \in DOMAIN hd /\ s.base <= b /\ b < s.base + s.size
      /\ b \in Nat /\ hd[b].size \in Nat /\ hd[b].size > 0
      /\ s.base \in Nat /\ s.size \in Nat
  BY DEF SegBlocks, SegHeld, SegHeaders, SegWithin
<1>2. PICK t \in sb : t.base <= b /\ b + hd[b].size <= t.base + t.size
  BY <1>1 DEF SegBlocks, SegCovers
<1>3. /\ t.base \in Nat /\ t.size \in Nat
      /\ s = t \/ s.base + s.size <= t.base \/ t.base + t.size <= s.base
  BY DEF SegBlocks, SegHeld
<1>4. s = t
  BY <1>1, <1>2, <1>3
<1>5. QED
  BY <1>1, <1>2, <1>4

LEMMA SegWithinFinite ==
  ASSUME NEW hd, IsFiniteSet(DOMAIN hd), NEW s
  PROVE  /\ IsFiniteSet(SegWithin(s, hd)) /\ DOMAIN SegSizes(s, hd) = SegWithin(s, hd)
         /\ \A b \in SegWithin(s, hd) : SegSizes(s, hd)[b] = hd[b].size
<1>1. SegWithin(s, hd) \subseteq DOMAIN hd
  BY DEF SegWithin
<1>2. IsFiniteSet(SegWithin(s, hd))
  BY <1>1, FS_Subset
<1>3. QED
  BY <1>2 DEF SegSizes

(* Only marks change.                                                      *)
LEMMA SegMarked ==
  ASSUME NEW sb, NEW hd, SegBlocks(sb, hd), NEW hd2, DOMAIN hd2 = DOMAIN hd,
         \A b \in DOMAIN hd : /\ hd2[b] \in [size : Nat, busy : BOOLEAN]
                              /\ hd2[b].size = hd[b].size
  PROVE  SegBlocks(sb, hd2)
<1>1. SegHeaders(hd2)
  BY DEF SegBlocks, SegHeaders
<1>2. \A s : SegWithin(s, hd2) = SegWithin(s, hd)
  BY DEF SegWithin
<1>3. ASSUME NEW s \in sb
      PROVE  SumFunction(SegSizes(s, hd2)) = SumFunction(SegSizes(s, hd))
  <2>1. SegSizes(s, hd2) = SegSizes(s, hd)
    <3>1. \A b \in SegWithin(s, hd) : hd2[b].size = hd[b].size
      BY DEF SegWithin
    <3>2. QED
      BY <1>2, <3>1 DEF SegSizes
  <2>2. QED
    BY <2>1
<1>4. \A s : \A b \in SegWithin(s, hd) : b \in DOMAIN hd
  BY DEF SegWithin
<1>5. SegCovers(sb, hd2)
  BY <1>2, <1>3, <1>4 DEF SegBlocks, SegCovers
<1>6. QED
  BY <1>1, <1>5 DEF SegBlocks

(* A block is cut in two.                                                  *)
LEMMA SegSplit ==
  ASSUME NEW sb, NEW hd, SegBlocks(sb, hd), NEW b \in DOMAIN hd,
         NEW n \in Nat, NEW r \in Nat, n + r = hd[b].size, n >= SegLeast, r >= SegLeast,
         SegLeast \in Nat, SegLeast > 0,
         NEW hd2, DOMAIN hd2 = DOMAIN hd \cup {b + n},
         hd2[b] \in [size : Nat, busy : BOOLEAN], hd2[b].size = n,
         hd2[b + n] \in [size : Nat, busy : BOOLEAN], hd2[b + n].size = r,
         \A x \in DOMAIN hd \ {b} : hd2[x] = hd[x]
  PROVE  SegBlocks(sb, hd2) /\ b + n \notin DOMAIN hd
<1> DEFINE c == b + n
<1>1. /\ b \in Nat /\ n > 0 /\ r > 0 /\ c \in Nat /\ b < c /\ c < b + hd[b].size
      /\ c + r = b + hd[b].size /\ c = b + n
  BY DEF SegBlocks, SegHeaders
<1>2. DOMAIN hd2 = DOMAIN hd \cup {c} /\ hd2[c].size = r /\ hd2[c] \in [size : Nat, busy : BOOLEAN]
  OBVIOUS
<1> HIDE DEF c
<1>3. c \notin DOMAIN hd
  BY <1>1 DEF SegBlocks, SegHeaders
<1>4. \A x \in DOMAIN hd : /\ x \in Nat /\ hd[x].size \in Nat /\ hd[x].size > 0
                           /\ x = b \/ x + hd[x].size <= b \/ b + hd[b].size <= x
                           /\ x # b => hd2[x] = hd[x]
  BY DEF SegBlocks, SegHeaders
<1>5. SegHeaders(hd2)
  <2>1. IsFiniteSet(DOMAIN hd2)
    BY <1>2, FS_AddElement DEF SegBlocks, SegHeaders
  <2>2. \A x \in DOMAIN hd2 : /\ x \in Nat /\ hd2[x] \in [size : Nat, busy : BOOLEAN]
                              /\ hd2[x].size \in Nat /\ hd2[x].size >= SegLeast /\ hd2[x].size > 0
    <3>1. /\ c \in Nat /\ hd2[c] \in [size : Nat, busy : BOOLEAN]
          /\ hd2[c].size \in Nat /\ hd2[c].size >= SegLeast /\ hd2[c].size > 0
      BY <1>1, <1>2
    <3>2. /\ b \in Nat /\ hd2[b] \in [size : Nat, busy : BOOLEAN]
          /\ hd2[b].size \in Nat /\ hd2[b].size >= SegLeast /\ hd2[b].size > 0
      BY <1>1
    <3>3. \A x \in DOMAIN hd \ {b} :
            /\ x \in Nat /\ hd2[x] \in [size : Nat, busy : BOOLEAN]
            /\ hd2[x].size \in Nat /\ hd2[x].size >= SegLeast /\ hd2[x].size > 0
      BY DEF SegBlocks, SegHeaders
    <3>4. QED
      BY <1>2, <3>1, <3>2, <3>3
  <2>3. ASSUME NEW x \in DOMAIN hd2, NEW y \in DOMAIN hd2, x # y
        PROVE  x + hd2[x].size <= y \/ y + hd2[y].size <= x
    <3>1. CASE x = c
      BY <1>1, <1>2, <1>4, <2>3, <3>1
    <3>2. CASE y = c
      BY <1>1, <1>2, <1>4, <2>3, <3>2
    <3>3. CASE x # c /\ y # c
      <4>1. x \in DOMAIN hd /\ y \in DOMAIN hd
        BY <1>2, <3>3
      <4>2. x + hd[x].size <= y \/ y + hd[y].size <= x
        BY <2>3, <4>1 DEF SegBlocks, SegHeaders
      <4>3. hd2[x].size <= hd[x].size /\ hd2[y].size <= hd[y].size
        BY <1>1, <1>4, <4>1
      <4>4. x \in Nat /\ y \in Nat /\ hd[x].size \in Nat /\ hd[y].size \in Nat
            /\ hd2[x].size \in Nat /\ hd2[y].size \in Nat
        BY <1>4, <2>2, <4>1
      <4>5. QED
        BY <4>2, <4>3, <4>4
    <3>4. QED
      BY <3>1, <3>2, <3>3
  <2>4. QED
    BY <2>1, <2>2, <2>3 DEF SegHeaders
<1>6. PICK w \in sb : w.base <= b /\ b + hd[b].size <= w.base + w.size
  BY DEF SegBlocks, SegCovers
<1>7. w.base \in Nat /\ w.size \in Nat /\ b \in SegWithin(w, hd)
  BY <1>1, <1>6 DEF SegBlocks, SegHeld, SegWithin
<1>8. \A s \in sb \ {w} : /\ SegWithin(s, hd2) = SegWithin(s, hd) /\ b \notin SegWithin(s, hd)
  <2>1. SUFFICES ASSUME NEW s \in sb, s # w
                 PROVE  SegWithin(s, hd2) = SegWithin(s, hd) /\ b \notin SegWithin(s, hd)
    OBVIOUS
  <2>2. /\ s.base \in Nat /\ s.size \in Nat
        /\ s.base + s.size <= w.base \/ w.base + w.size <= s.base
    BY <2>1 DEF SegBlocks, SegHeld
  <2>3. ~ (s.base <= c /\ c < s.base + s.size) /\ ~ (s.base <= b /\ b < s.base + s.size)
    BY <1>1, <1>6, <1>7, <2>2
  <2>4. QED
    BY <1>2, <2>3 DEF SegWithin
<1>9. SegWithin(w, hd2) = SegWithin(w, hd) \cup {c}
  <2>1. w.base <= c /\ c < w.base + w.size
    BY <1>1, <1>4, <1>6, <1>7
  <2>2. QED
    BY <1>2, <2>1 DEF SegWithin
<1>10. \A s : \A x \in SegWithin(s, hd) : x \in DOMAIN hd
  BY DEF SegWithin
<1>11. IsFiniteSet(DOMAIN hd) /\ IsFiniteSet(DOMAIN hd2)
  BY <1>5 DEF SegBlocks, SegHeaders
<1>12. SumFunction(SegSizes(w, hd2)) = SumFunction(SegSizes(w, hd))
  <2> DEFINE mid == [x \in SegWithin(w, hd) |-> IF x = b THEN n ELSE hd[x].size]
  <2>1. /\ IsFiniteSet(DOMAIN SegSizes(w, hd)) /\ DOMAIN SegSizes(w, hd) = SegWithin(w, hd)
        /\ \A x \in SegWithin(w, hd) : SegSizes(w, hd)[x] = hd[x].size
        /\ \A x \in DOMAIN SegSizes(w, hd) : SegSizes(w, hd)[x] \in Nat
    BY <1>4, <1>10, <1>11, SegWithinFinite
  <2>2. /\ DOMAIN SegSizes(w, hd2) = SegWithin(w, hd) \cup {c}
        /\ \A x \in SegWithin(w, hd) \cup {c} : SegSizes(w, hd2)[x] = hd2[x].size
    <3>1. /\ DOMAIN SegSizes(w, hd2) = SegWithin(w, hd2)
          /\ \A x \in SegWithin(w, hd2) : SegSizes(w, hd2)[x] = hd2[x].size
      BY <1>11, SegWithinFinite
    <3>2. QED
      BY <1>9, <3>1
  <2>3. /\ DOMAIN mid = SegWithin(w, hd) /\ mid[b] = n
        /\ \A x \in SegWithin(w, hd) \ {b} : mid[x] = hd[x].size
    BY <1>7
  <2> HIDE DEF mid
  <2>4. /\ DOMAIN mid = DOMAIN SegSizes(w, hd) /\ mid[b] \in Nat /\ b \in DOMAIN SegSizes(w, hd)
        /\ \A x \in DOMAIN SegSizes(w, hd) \ {b} : mid[x] = SegSizes(w, hd)[x]
    BY <1>7, <2>1, <2>3
  <2>5. /\ SumFunction(SegSizes(w, hd)) + mid[b] = SumFunction(mid) + SegSizes(w, hd)[b]
        /\ SumFunction(SegSizes(w, hd)) \in Nat /\ SumFunction(mid) \in Nat
    BY <2>1, <2>4, SumChanges
  <2>6. /\ IsFiniteSet(DOMAIN mid) /\ \A x \in DOMAIN mid : mid[x] \in Nat
        /\ c \notin DOMAIN mid /\ DOMAIN SegSizes(w, hd2) = DOMAIN mid \cup {c}
        /\ SegSizes(w, hd2)[c] = r /\ SegSizes(w, hd2)[c] \in Nat
        /\ \A x \in DOMAIN mid : SegSizes(w, hd2)[x] = mid[x]
    <3>1. IsFiniteSet(DOMAIN mid) /\ \A x \in DOMAIN mid : mid[x] \in Nat
      BY <2>1, <2>3, <1>4, <1>10
    <3>2. c \notin DOMAIN mid /\ DOMAIN SegSizes(w, hd2) = DOMAIN mid \cup {c}
      BY <1>3, <1>10, <2>2, <2>3
    <3>3. SegSizes(w, hd2)[c] = r
      BY <1>2, <2>2
    <3>4. \A x \in DOMAIN mid : SegSizes(w, hd2)[x] = mid[x]
      BY <1>4, <1>10, <2>2, <2>3
    <3>5. QED
      BY <3>1, <3>2, <3>3, <3>4
  <2>7. SumFunction(SegSizes(w, hd2)) = SumFunction(mid) + SegSizes(w, hd2)[c]
    BY <2>6, SumGains
  <2>8. SegSizes(w, hd)[b] = n + r
    BY <1>7, <2>1
  <2>9. QED
    BY <2>3, <2>5, <2>6, <2>7, <2>8
<1>13. \A s \in sb \ {w} : SegSizes(s, hd2) = SegSizes(s, hd)
  <2>1. \A s \in sb \ {w} : \A x \in SegWithin(s, hd) : hd2[x] = hd[x]
    BY <1>4, <1>8, <1>10
  <2>2. QED
    BY <1>8, <2>1 DEF SegSizes
<1>14. SegCovers(sb, hd2)
  <2>1. ASSUME NEW x \in DOMAIN hd2
        PROVE  \E s \in sb : s.base <= x /\ x + hd2[x].size <= s.base + s.size
    <3>1. CASE x = c
      BY <1>1, <1>2, <1>6, <1>7, <3>1
    <3>2. CASE x = b
      BY <1>1, <1>6, <1>7, <3>2
    <3>3. CASE x # b /\ x # c
      BY <1>2, <1>4, <2>1, <3>3 DEF SegBlocks, SegCovers
    <3>4. QED
      BY <3>1, <3>2, <3>3
  <2>2. \A s \in sb : s.base \in DOMAIN hd2 /\ SumFunction(SegSizes(s, hd2)) = s.size
    BY <1>2, <1>12, <1>13 DEF SegBlocks, SegCovers
  <2>3. ASSUME NEW s \in sb, NEW x \in SegWithin(s, hd2)
        PROVE  x + hd2[x].size \in DOMAIN hd2 \/ x + hd2[x].size = s.base + s.size
    <3>1. CASE s # w
      <4>1. x \in SegWithin(s, hd) /\ x # b /\ x \in DOMAIN hd /\ hd2[x] = hd[x]
        BY <1>4, <1>8, <1>10, <2>3, <3>1
      <4>2. QED
        BY <1>2, <4>1 DEF SegBlocks, SegCovers
    <3>2. CASE s = w /\ x = c
      <4>1. c + hd2[c].size = b + hd[b].size
        BY <1>1, <1>2
      <4>2. QED
        BY <1>2, <1>7, <3>2, <4>1 DEF SegBlocks, SegCovers
    <3>3. CASE s = w /\ x = b
      <4>1. b + hd2[b].size = c
        BY <1>1
      <4>2. QED
        BY <1>2, <3>3, <4>1
    <3>4. CASE s = w /\ x # c /\ x # b
      <4>1. x \in SegWithin(s, hd) /\ x \in DOMAIN hd /\ hd2[x] = hd[x]
        BY <1>4, <1>9, <1>10, <2>3, <3>4
      <4>2. QED
        BY <1>2, <4>1 DEF SegBlocks, SegCovers
    <3>5. QED
      BY <3>1, <3>2, <3>3, <3>4
  <2>4. QED
    BY <2>1, <2>2, <2>3 DEF SegCovers
<1>15. QED
  BY <1>3, <1>5, <1>14 DEF SegBlocks, c

(* A superblock is added, as one free block.                               *)
LEMMA SegAdded ==
  ASSUME NEW sb, NEW hd, SegBlocks(sb, hd),
         NEW b \in Nat, b \in SegPlaces, NEW n \in Nat, n >= SegLeast,
         SegLeast \in Nat, SegLeast > 0,
         \A s \in sb : b + n <= s.base \/ s.base + s.size <= b,
         NEW new, new.base = b, new.size = n,
         NEW hd2, DOMAIN hd2 = DOMAIN hd \cup {b},
         hd2[b] \in [size : Nat, busy : BOOLEAN], hd2[b].size = n,
         \A x \in DOMAIN hd : x # b => hd2[x] = hd[x]
  PROVE  /\ SegBlocks(sb \cup {new}, hd2)
         /\ b \notin DOMAIN hd /\ new \notin sb
<1>1. /\ n > 0
      /\ \A s \in sb : s.base \in Nat /\ s.size \in Nat /\ s.size > 0
      /\ \A x \in DOMAIN hd : x \in Nat /\ hd[x].size \in Nat /\ hd[x].size > 0
  BY DEF SegBlocks, SegHeld, SegHeaders
<1>2. new \notin sb
  BY <1>1
<1>3. \A x \in DOMAIN hd : x + hd[x].size <= b \/ b + n <= x
  <2>1. ASSUME NEW x \in DOMAIN hd
        PROVE  x + hd[x].size <= b \/ b + n <= x
    <3>1. PICK s \in sb : s.base <= x /\ x + hd[x].size <= s.base + s.size
      BY DEF SegBlocks, SegCovers
    <3>2. QED
      BY <1>1, <3>1
  <2>2. QED
    BY <2>1
<1>4. b \notin DOMAIN hd
  BY <1>1, <1>3
<1>5. \A x \in DOMAIN hd : hd2[x] = hd[x] /\ x # b
  BY <1>4
<1>6. SegHeld(sb \cup {new})
  <2>1. IsFiniteSet(sb \cup {new})
    BY FS_AddElement DEF SegBlocks, SegHeld
  <2>2. \A s \in sb \cup {new} : s.base \in SegPlaces /\ s.base \in Nat /\ s.size \in Nat /\ s.size > 0
    BY <1>1 DEF SegBlocks, SegHeld
  <2>3. \A s, t \in sb \cup {new} :
          s = t \/ s.base + s.size <= t.base \/ t.base + t.size <= s.base
    BY DEF SegBlocks, SegHeld
  <2>4. QED
    BY <2>1, <2>2, <2>3 DEF SegHeld
<1>7. SegHeaders(hd2)
  <2>1. IsFiniteSet(DOMAIN hd2)
    BY FS_AddElement DEF SegBlocks, SegHeaders
  <2>2. \A x \in DOMAIN hd2 : /\ x \in Nat /\ hd2[x] \in [size : Nat, busy : BOOLEAN]
                              /\ hd2[x].size \in Nat /\ hd2[x].size >= SegLeast /\ hd2[x].size > 0
    BY <1>1, <1>5 DEF SegBlocks, SegHeaders
  <2>3. ASSUME NEW x \in DOMAIN hd2, NEW y \in DOMAIN hd2, x # y
        PROVE  x + hd2[x].size <= y \/ y + hd2[y].size <= x
    <3>1. CASE x = b
      BY <1>3, <1>5, <2>3, <3>1
    <3>2. CASE y = b
      BY <1>3, <1>5, <2>3, <3>2
    <3>3. CASE x # b /\ y # b
      <4>1. x \in DOMAIN hd /\ y \in DOMAIN hd
        BY <3>3
      <4>2. x + hd[x].size <= y \/ y + hd[y].size <= x
        BY <2>3, <4>1 DEF SegBlocks, SegHeaders
      <4>3. QED
        BY <1>5, <4>1, <4>2
    <3>4. QED
      BY <3>1, <3>2, <3>3
  <2>4. QED
    BY <2>1, <2>2, <2>3 DEF SegHeaders
<1>8. \A s \in sb : SegWithin(s, hd2) = SegWithin(s, hd)
  <2>1. \A s \in sb : ~ (s.base <= b /\ b < s.base + s.size)
    BY <1>1
  <2>2. QED
    BY <1>5, <2>1 DEF SegWithin
<1>9. SegWithin(new, hd2) = {b}
  <2>1. \A x \in DOMAIN hd : ~ (b <= x /\ x < b + n)
    BY <1>1, <1>3
  <2>2. b <= b /\ b < b + n
    BY <1>1
  <2>3. QED
    BY <2>1, <2>2 DEF SegWithin
<1>10. \A s : \A x \in SegWithin(s, hd) : x \in DOMAIN hd
  BY DEF SegWithin
<1>11. \A s \in sb : SegSizes(s, hd2) = SegSizes(s, hd)
  <2>1. \A s \in sb : \A x \in SegWithin(s, hd) : hd2[x] = hd[x]
    BY <1>5, <1>10
  <2>2. QED
    BY <1>8, <2>1 DEF SegSizes
<1>12. SumFunction(SegSizes(new, hd2)) = n
  <2> DEFINE g == SegSizes(new, hd2)
  <2>1. PICK none : none = [x \in {} |-> 0]
    OBVIOUS
  <2>2. /\ DOMAIN none = {} /\ IsFiniteSet(DOMAIN none) /\ b \notin DOMAIN none
        /\ \A x \in DOMAIN none : none[x] \in Nat
    BY <2>1, FS_EmptySet
  <2>3. DOMAIN g = DOMAIN none \cup {b} /\ g[b] = n /\ g[b] \in Nat
        /\ \A x \in DOMAIN none : g[x] = none[x]
    BY <1>9, <2>2 DEF SegSizes
  <2> HIDE DEF g
  <2>4. SumFunction(none) = 0
    BY <2>2, SumNone
  <2>5. PICK h : h = g
    OBVIOUS
  <2>6. /\ DOMAIN none = {} /\ IsFiniteSet(DOMAIN none) /\ b \notin DOMAIN none
        /\ \A x \in DOMAIN none : none[x] \in Nat
        /\ DOMAIN h = DOMAIN none \cup {b} /\ h[b] \in Nat
        /\ \A x \in DOMAIN none : h[x] = none[x]
    BY <2>2, <2>3, <2>5
  <2>7. SumFunction(h) = SumFunction(none) + h[b]
    BY ONLY Zenon, <2>6, SumGains
  <2>8. QED
    BY <2>3, <2>4, <2>5, <2>7 DEF g
<1>13. SegCovers(sb \cup {new}, hd2)
  <2>1. ASSUME NEW x \in DOMAIN hd2
        PROVE  \E s \in sb \cup {new} : s.base <= x /\ x + hd2[x].size <= s.base + s.size
    <3>1. CASE x = b
      <4>1. new.base <= x /\ x + hd2[x].size <= new.base + new.size
        BY <3>1
      <4>2. QED
        BY <4>1
    <3>2. CASE x # b
      BY <1>5, <2>1, <3>2 DEF SegBlocks, SegCovers
    <3>3. QED
      BY <3>1, <3>2
  <2>2. \A s \in sb \cup {new} : s.base \in DOMAIN hd2 /\ SumFunction(SegSizes(s, hd2)) = s.size
    <3>1. \A s \in sb : s.base \in DOMAIN hd2 /\ SumFunction(SegSizes(s, hd2)) = s.size
      BY <1>11 DEF SegBlocks, SegCovers
    <3>2. QED
      BY <1>12, <3>1
  <2>3. ASSUME NEW s \in sb \cup {new}, NEW x \in SegWithin(s, hd2)
        PROVE  x + hd2[x].size \in DOMAIN hd2 \/ x + hd2[x].size = s.base + s.size
    <3>1. CASE s = new
      BY <1>9, <2>3, <3>1
    <3>2. CASE s \in sb
      <4>1. x \in SegWithin(s, hd) /\ x \in DOMAIN hd /\ hd2[x] = hd[x]
        BY <1>5, <1>8, <1>10, <2>3, <3>2
      <4>2. QED
        BY <3>2, <4>1 DEF SegBlocks, SegCovers
    <3>3. QED
      BY <3>1, <3>2
  <2>4. QED
    BY <2>1, <2>2, <2>3 DEF SegCovers
<1>14. QED
  BY <1>2, <1>4, <1>6, <1>7, <1>13 DEF SegBlocks

-----------------------------------------------------------------------------
(* The bins bs hold the free blocks of hd, each once and in its bin.       *)
SegFree(hd, i) == {b \in DOMAIN hd : ~ hd[b].busy /\ Segregated!BinOf(hd[b].size) = i}

SegBins(hd, bs) ==
  /\ bs \in [Segregated!Bin -> Seq(Nat)]
  /\ \A i \in Segregated!Bin : IsInjective(bs[i]) /\ ToSet(bs[i]) = SegFree(hd, i)

Filed(bs, i, b) == [bs EXCEPT ![i] = Append(bs[i], b)]
Unfiled(bs, i, k) == [bs EXCEPT ![i] = RemoveAt(bs[i], k)]

(* A block that was in no bin is free now, and filed at the back.          *)
LEMMA SegFiled ==
  ASSUME NEW hd, NEW bs, SegBins(hd, bs), NEW c \in Nat, c \in DOMAIN hd => hd[c].busy,
         NEW hd2, DOMAIN hd2 = DOMAIN hd \cup {c}, ~ hd2[c].busy,
         \A x \in DOMAIN hd : x # c => /\ hd2[x].busy = hd[x].busy
                                       /\ ~ hd[x].busy => hd2[x] = hd[x],
         NEW i \in Segregated!Bin, Segregated!BinOf(hd2[c].size) = i
  PROVE  SegBins(hd2, Filed(bs, i, c))
<1>1. /\ bs \in [Segregated!Bin -> Seq(Nat)]
      /\ \A j \in Segregated!Bin : IsInjective(bs[j]) /\ ToSet(bs[j]) = SegFree(hd, j)
  BY DEF SegBins
<1>2. \A j : c \notin SegFree(hd, j)
  BY DEF SegFree
<1>3. \A j : j # i => SegFree(hd2, j) = SegFree(hd, j)
  BY DEF SegFree
<1>4. SegFree(hd2, i) = SegFree(hd, i) \cup {c}
  BY DEF SegFree
<1>5. /\ bs[i] \in Seq(Nat) /\ IsInjective(bs[i]) /\ c \notin ToSet(bs[i])
      /\ ToSet(bs[i]) = SegFree(hd, i)
  BY <1>1, <1>2
<1>6. /\ Append(bs[i], c) \in Seq(Nat) /\ IsInjective(Append(bs[i], c))
      /\ ToSet(Append(bs[i], c)) = ToSet(bs[i]) \cup {c}
  BY <1>5, StackPush
<1> DEFINE fs == Filed(bs, i, c)
<1>7. /\ fs \in [Segregated!Bin -> Seq(Nat)]
      /\ fs[i] = Append(bs[i], c)
      /\ \A j \in Segregated!Bin : j # i => fs[j] = bs[j]
  BY <1>1, <1>6 DEF Filed
<1> HIDE DEF fs
<1>8. \A j \in Segregated!Bin : IsInjective(fs[j]) /\ ToSet(fs[j]) = SegFree(hd2, j)
  <2>1. IsInjective(fs[i]) /\ ToSet(fs[i]) = SegFree(hd2, i)
    BY <1>4, <1>5, <1>6, <1>7
  <2>2. \A j \in Segregated!Bin : j # i => IsInjective(fs[j]) /\ ToSet(fs[j]) = SegFree(hd2, j)
    BY <1>1, <1>3, <1>7
  <2>3. QED
    BY <2>1, <2>2
<1>9. QED
  BY <1>7, <1>8 DEF SegBins, fs

(* A block leaves its bin and is free no longer.                           *)
LEMMA SegUnfiled ==
  ASSUME NEW hd, NEW bs, SegBins(hd, bs), NEW i \in Segregated!Bin,
         NEW k \in 1..Len(bs[i]),
         NEW hd2, DOMAIN hd2 = DOMAIN hd, hd2[bs[i][k]].busy,
         \A x \in DOMAIN hd : x # bs[i][k] => hd2[x] = hd[x]
  PROVE  SegBins(hd2, Unfiled(bs, i, k))
<1> DEFINE b == bs[i][k]
<1>1. /\ bs \in [Segregated!Bin -> Seq(Nat)]
      /\ \A j \in Segregated!Bin : IsInjective(bs[j]) /\ ToSet(bs[j]) = SegFree(hd, j)
  BY DEF SegBins
<1>2. bs[i] \in Seq(Nat) /\ IsInjective(bs[i]) /\ ToSet(bs[i]) = SegFree(hd, i)
  BY <1>1
<1>3. b \in ToSet(bs[i])
  BY <1>2, ListFacts
<1>4. \A x : x # b => \A j : x \in SegFree(hd2, j) <=> x \in SegFree(hd, j)
  BY DEF SegFree
<1>5. \A j : b \notin SegFree(hd2, j)
  BY DEF SegFree
<1>6. /\ RemoveAt(bs[i], k) \in Seq(Nat) /\ IsInjective(RemoveAt(bs[i], k))
      /\ ToSet(RemoveAt(bs[i], k)) = ToSet(bs[i]) \ {b}
  BY <1>2, RemovedAt
<1>7. \A j : j # i => b \notin SegFree(hd, j)
  BY <1>2, <1>3 DEF SegFree
<1> DEFINE us == Unfiled(bs, i, k)
<1>8. /\ us \in [Segregated!Bin -> Seq(Nat)]
      /\ us[i] = RemoveAt(bs[i], k)
      /\ \A j \in Segregated!Bin : j # i => us[j] = bs[j]
  BY <1>1, <1>6 DEF Unfiled
<1> HIDE DEF us, b
<1>9. \A j \in Segregated!Bin : IsInjective(us[j]) /\ ToSet(us[j]) = SegFree(hd2, j)
  <2>1. IsInjective(us[i]) /\ ToSet(us[i]) = SegFree(hd2, i)
    <3>1. SegFree(hd2, i) = SegFree(hd, i) \ {b}
      BY <1>4, <1>5
    <3>2. QED
      BY <1>2, <1>6, <1>8, <3>1
  <2>2. ASSUME NEW j \in Segregated!Bin, j # i
        PROVE  IsInjective(us[j]) /\ ToSet(us[j]) = SegFree(hd2, j)
    <3>1. SegFree(hd2, j) = SegFree(hd, j)
      <4>1. \A x : x \in SegFree(hd2, j) <=> x \in SegFree(hd, j)
        BY <1>4, <1>5, <1>7, <2>2
      <4>2. QED
        BY <4>1 DEF SegFree
    <3>2. QED
      BY <1>1, <1>8, <2>2, <3>1
  <2>3. QED
    BY <2>1, <2>2
<1>10. QED
  BY <1>8, <1>9 DEF SegBins, us

-----------------------------------------------------------------------------
(* The blocks of hd that are not free are behind one handle of lv each.    *)
SegOwned(hd, lv, m) ==
  /\ m \in Nat /\ DOMAIN lv \subseteq 1..m
  /\ \A h \in DOMAIN lv : /\ lv[h] \in DOMAIN hd /\ hd[lv[h]].busy
                          /\ hd[lv[h]].size \in Nat /\ hd[lv[h]].size > SegHeader
  /\ \A b \in DOMAIN hd : hd[b].busy => \E h \in DOMAIN lv : lv[h] = b
  /\ \A g, h \in DOMAIN lv : lv[g] = lv[h] => g = h

SegPayload(hd, lv) == [h \in DOMAIN lv |-> hd[lv[h]].size - SegHeader]

LEMMA SegPayloads ==
  ASSUME NEW hd, NEW lv, NEW m, SegOwned(hd, lv, m), SegHeader \in Nat
  PROVE  /\ IsFiniteSet(DOMAIN lv) /\ m + 1 \notin DOMAIN lv
         /\ DOMAIN SegPayload(hd, lv) = DOMAIN lv
         /\ \A h \in DOMAIN lv : /\ SegPayload(hd, lv)[h] = hd[lv[h]].size - SegHeader
                                 /\ SegPayload(hd, lv)[h] \in Nat
         /\ SumFunction(SegPayload(hd, lv)) \in Nat
<1>1. m \in Nat /\ DOMAIN lv \subseteq 1..m
  BY DEF SegOwned
<1>2. IsFiniteSet(DOMAIN lv) /\ m + 1 \notin DOMAIN lv
  BY <1>1, HandlesFinite
<1> DEFINE f == SegPayload(hd, lv)
<1>3. /\ DOMAIN f = DOMAIN lv
      /\ \A h \in DOMAIN lv : f[h] = hd[lv[h]].size - SegHeader
  BY DEF SegPayload
<1>4. \A h \in DOMAIN lv : f[h] \in Nat
  BY <1>3 DEF SegOwned
<1> HIDE DEF f
<1>5. SumFunction(f) \in Nat
  BY <1>2, <1>3, <1>4, SumIsNat
<1>6. QED
  BY <1>2, <1>3, <1>4, <1>5 DEF f

(* Free blocks come, and the blocks behind handles stay.                   *)
LEMMA SegKeeps ==
  ASSUME NEW hd, NEW lv, NEW m, SegOwned(hd, lv, m),
         NEW hd2, DOMAIN hd \subseteq DOMAIN hd2,
         \A b \in DOMAIN hd : hd2[b] = hd[b],
         \A b \in DOMAIN hd2 : b \notin DOMAIN hd => ~ hd2[b].busy
  PROVE  SegOwned(hd2, lv, m) /\ SegPayload(hd2, lv) = SegPayload(hd, lv)
<1>1. SegOwned(hd2, lv, m)
  BY DEF SegOwned
<1>2. \A h \in DOMAIN lv : hd2[lv[h]] = hd[lv[h]]
  BY DEF SegOwned
<1>3. QED
  BY <1>1, <1>2 DEF SegPayload

(* A free block goes behind a new handle; what is split off it is free.    *)
LEMMA SegOwns ==
  ASSUME NEW hd, NEW lv, NEW m, SegOwned(hd, lv, m), SegHeader \in Nat,
         NEW b \in DOMAIN hd, ~ hd[b].busy,
         NEW hd2, DOMAIN hd \subseteq DOMAIN hd2,
         hd2[b].busy, hd2[b].size \in Nat, hd2[b].size > SegHeader,
         \A x \in DOMAIN hd \ {b} : hd2[x] = hd[x],
         \A x \in DOMAIN hd2 : x \notin DOMAIN hd => ~ hd2[x].busy,
         NEW id, id = m + 1,
         NEW lv2, DOMAIN lv2 = DOMAIN lv \cup {id}, lv2[id] = b,
         \A h \in DOMAIN lv : lv2[h] = lv[h]
  PROVE  /\ SegOwned(hd2, lv2, id)
         /\ SumFunction(SegPayload(hd2, lv2))
              = SumFunction(SegPayload(hd, lv)) + (hd2[b].size - SegHeader)
         /\ Cardinality(DOMAIN lv) \in Nat
         /\ Cardinality(DOMAIN lv2) = Cardinality(DOMAIN lv) + 1
<1>1. /\ IsFiniteSet(DOMAIN lv) /\ id \notin DOMAIN lv
      /\ DOMAIN SegPayload(hd, lv) = DOMAIN lv
      /\ \A h \in DOMAIN lv : /\ SegPayload(hd, lv)[h] = hd[lv[h]].size - SegHeader
                              /\ SegPayload(hd, lv)[h] \in Nat
  BY SegPayloads
<1>2. id \in Nat /\ DOMAIN lv2 \subseteq 1..id
  BY DEF SegOwned
<1>3. \A h \in DOMAIN lv : lv[h] # b /\ lv[h] \in DOMAIN hd /\ hd2[lv[h]] = hd[lv[h]] /\ lv2[h] = lv[h]
  BY DEF SegOwned
<1>4. SegOwned(hd2, lv2, id)
  <2>1. \A h \in DOMAIN lv2 : /\ lv2[h] \in DOMAIN hd2 /\ hd2[lv2[h]].busy
                              /\ hd2[lv2[h]].size \in Nat /\ hd2[lv2[h]].size > SegHeader
    <3>1. \A h \in DOMAIN lv : /\ lv2[h] \in DOMAIN hd2 /\ hd2[lv2[h]].busy
                               /\ hd2[lv2[h]].size \in Nat /\ hd2[lv2[h]].size > SegHeader
      BY <1>3 DEF SegOwned
    <3>2. QED
      BY <3>1
  <2>2. ASSUME NEW x \in DOMAIN hd2, hd2[x].busy
        PROVE  \E h \in DOMAIN lv2 : lv2[h] = x
    <3>1. CASE x = b
      BY <3>1
    <3>2. CASE x # b
      <4>1. x \in DOMAIN hd /\ hd[x].busy
        BY <2>2, <3>2
      <4>2. QED
        BY <1>3, <4>1 DEF SegOwned
    <3>3. QED
      BY <3>1, <3>2
  <2>3. \A g, h \in DOMAIN lv2 : lv2[g] = lv2[h] => g = h
    BY <1>3 DEF SegOwned
  <2>4. QED
    BY <1>2, <2>1, <2>2, <2>3 DEF SegOwned
<1>5. /\ DOMAIN SegPayload(hd2, lv2) = DOMAIN lv2
      /\ \A h \in DOMAIN lv2 : /\ SegPayload(hd2, lv2)[h] = hd2[lv2[h]].size - SegHeader
                               /\ SegPayload(hd2, lv2)[h] \in Nat
  BY <1>4, SegPayloads
<1> DEFINE f == SegPayload(hd, lv)
           g == SegPayload(hd2, lv2)
<1>6. /\ IsFiniteSet(DOMAIN f) /\ \A h \in DOMAIN f : f[h] \in Nat
      /\ id \notin DOMAIN f /\ DOMAIN g = DOMAIN f \cup {id}
      /\ g[id] \in Nat /\ g[id] = hd2[b].size - SegHeader
      /\ \A h \in DOMAIN f : g[h] = f[h]
  BY <1>1, <1>3, <1>5
<1> HIDE DEF f, g
<1>7. SumFunction(g) = SumFunction(f) + g[id]
  BY ONLY <1>6, SumGains
<1>8. /\ Cardinality(DOMAIN lv) \in Nat
      /\ Cardinality(DOMAIN lv2) = Cardinality(DOMAIN lv) + 1
  BY SMTT(60), <1>1, FS_AddElement, FS_CardinalityType
<1>9. QED
  BY <1>4, <1>6, <1>7, <1>8 DEF f, g

(* A block leaves its handle and is free.                                  *)
SegReturned(hd, hd2, lv, lv2, m, id, b, z) ==
  /\ SegOwned(hd, lv, m) /\ SegHeader \in Nat
  /\ id \in DOMAIN lv /\ b = lv[id] /\ z = hd[b].size - SegHeader
  /\ DOMAIN hd2 = DOMAIN hd /\ ~ hd2[b].busy
  /\ \A x \in DOMAIN hd : x # b => hd2[x] = hd[x]
  /\ DOMAIN lv2 = DOMAIN lv \ {id} /\ \A h \in DOMAIN lv2 : lv2[h] = lv[h]

LEMMA SegDisowns ==
  ASSUME NEW hd, NEW hd2, NEW lv, NEW lv2, NEW m, NEW id, NEW b, NEW z,
         SegReturned(hd, hd2, lv, lv2, m, id, b, z)
  PROVE  /\ SegOwned(hd2, lv2, m)
         /\ SumFunction(SegPayload(hd, lv)) = SumFunction(SegPayload(hd2, lv2)) + z
         /\ z \in Nat
         /\ SumFunction(SegPayload(hd2, lv2)) \in Nat
         /\ Cardinality(DOMAIN lv) \in Nat /\ Cardinality(DOMAIN lv) > 0
         /\ Cardinality(DOMAIN lv2) = Cardinality(DOMAIN lv) - 1
<1> USE DEF SegReturned
<1>1. /\ IsFiniteSet(DOMAIN lv)
      /\ DOMAIN SegPayload(hd, lv) = DOMAIN lv
      /\ \A h \in DOMAIN lv : /\ SegPayload(hd, lv)[h] = hd[lv[h]].size - SegHeader
                              /\ SegPayload(hd, lv)[h] \in Nat
  BY SegPayloads
<1>2. \A g, h \in DOMAIN lv : lv[g] = lv[h] => g = h
  BY DEF SegOwned
<1>3. \A h \in DOMAIN lv2 : /\ h \in DOMAIN lv /\ lv2[h] = lv[h] /\ lv[h] # b
                            /\ lv[h] \in DOMAIN hd /\ hd2[lv[h]] = hd[lv[h]]
  BY <1>2 DEF SegOwned
<1>4. SegOwned(hd2, lv2, m)
  <2>1. m \in Nat /\ DOMAIN lv2 \subseteq 1..m
    BY DEF SegOwned
  <2>2. \A h \in DOMAIN lv2 : /\ lv2[h] \in DOMAIN hd2 /\ hd2[lv2[h]].busy
                              /\ hd2[lv2[h]].size \in Nat /\ hd2[lv2[h]].size > SegHeader
    BY <1>3 DEF SegOwned
  <2>3. ASSUME NEW x \in DOMAIN hd2, hd2[x].busy
        PROVE  \E h \in DOMAIN lv2 : lv2[h] = x
    <3>1. x # b /\ x \in DOMAIN hd /\ hd[x].busy
      BY <2>3
    <3>2. PICK h \in DOMAIN lv : lv[h] = x
      BY <3>1 DEF SegOwned
    <3>3. QED
      BY <3>1, <3>2
  <2>4. \A g, h \in DOMAIN lv2 : lv2[g] = lv2[h] => g = h
    BY <1>2, <1>3
  <2>5. QED
    BY <2>1, <2>2, <2>3, <2>4 DEF SegOwned
<1>5. /\ DOMAIN SegPayload(hd2, lv2) = DOMAIN lv2
      /\ \A h \in DOMAIN lv2 : SegPayload(hd2, lv2)[h] = hd2[lv2[h]].size - SegHeader
  BY <1>4, SegPayloads
<1> DEFINE f == SegPayload(hd, lv)
           g == SegPayload(hd2, lv2)
<1>6. /\ IsFiniteSet(DOMAIN f) /\ \A h \in DOMAIN f : f[h] \in Nat
      /\ id \in DOMAIN f /\ DOMAIN g = DOMAIN f \ {id}
      /\ \A h \in DOMAIN g : g[h] = f[h]
  BY <1>1, <1>3, <1>5
<1> HIDE DEF f, g
<1>7. /\ SumFunction(f) = SumFunction(g) + f[id]
      /\ SumFunction(g) \in Nat /\ f[id] \in Nat
  BY ONLY <1>6, SumLoses
<1>8. f[id] = z
  BY <1>1 DEF f
<1>9. /\ Cardinality(DOMAIN lv) \in Nat /\ Cardinality(DOMAIN lv) > 0
      /\ Cardinality(DOMAIN lv2) = Cardinality(DOMAIN lv) - 1
  <2>1. /\ IsFiniteSet(DOMAIN lv \ {id})
        /\ Cardinality(DOMAIN lv \ {id}) = Cardinality(DOMAIN lv) - 1
    BY <1>1, FS_RemoveElement
  <2>2. Cardinality(DOMAIN lv) \in Nat /\ Cardinality(DOMAIN lv \ {id}) \in Nat
    BY <1>1, <2>1, FS_CardinalityType
  <2>3. QED
    BY <2>1, <2>2
<1>10. QED
  BY <1>4, <1>7, <1>8, <1>9 DEF f, g

-----------------------------------------------------------------------------
(* The invariant of the segregated-fit strategy.                           *)
SegResults == {"ok", "size_too_large", "alignment_unsupported", "capacity_exceeded",
               "out_of_memory", "invalid_handle", "double_free"}

SegSupers(sb) == [s \in sb |-> s.size]

SegInv ==
  /\ SegBlocks(superblocks, header) /\ SegBins(header, bins)
  /\ SegOwned(header, live, next_id) /\ next_id <= SegregatedSetup.ids
  /\ total_bytes = SumFunction(SegSupers(superblocks))
  /\ total_bytes \in Nat /\ total_bytes <= SegregatedSetup.max_bytes
  /\ live_count = Cardinality(DOMAIN live)
  /\ live_bytes = SumFunction(SegPayload(header, live))
  /\ requested \in Nat /\ granted \in Nat
  /\ granted >= requested /\ granted >= live_bytes
  /\ result \in SegResults

LEMMA SegNone ==
  ASSUME NEW hd, hd = [x \in {} |-> 0], NEW lv, lv = [x \in {} |-> 0],
         NEW bs, bs = [i \in Segregated!Bin |-> <<>>], NEW m \in Nat
  PROVE  /\ SegBlocks({}, hd) /\ SegBins(hd, bs) /\ SegOwned(hd, lv, m)
         /\ SumFunction(SegSupers({})) = 0
         /\ SumFunction(SegPayload(hd, lv)) = 0
         /\ Cardinality(DOMAIN lv) = 0
<1>1. /\ DOMAIN hd = {} /\ DOMAIN lv = {} /\ Cardinality(DOMAIN lv) = 0 /\ IsFiniteSet(DOMAIN hd)
      /\ IsFiniteSet({})
  BY NoHandles
<1>2. SegBlocks({}, hd)
  BY <1>1 DEF SegBlocks, SegHeld, SegHeaders, SegCovers
<1>3. SegBins(hd, bs)
  <2>1. bs \in [Segregated!Bin -> Seq(Nat)]
    OBVIOUS
  <2>2. \A i \in Segregated!Bin : bs[i] = <<>>
    OBVIOUS
  <2>3. IsInjective(<<>>) /\ ToSet(<<>>) = {}
    BY DEF IsInjective, ToSet
  <2>4. \A i : SegFree(hd, i) = {}
    BY <1>1 DEF SegFree
  <2>5. QED
    BY <2>1, <2>2, <2>3, <2>4 DEF SegBins
<1>4. SegOwned(hd, lv, m)
  BY <1>1 DEF SegOwned
<1>5. SumFunction(SegSupers({})) = 0
  <2>1. DOMAIN SegSupers({}) = {}
    BY DEF SegSupers
  <2>2. QED
    BY <2>1, SumNone
<1>6. SumFunction(SegPayload(hd, lv)) = 0
  <2>1. DOMAIN SegPayload(hd, lv) = {}
    BY <1>1 DEF SegPayload
  <2>2. QED
    BY <2>1, SumNone
<1>7. QED
  BY <1>1, <1>2, <1>3, <1>4, <1>5, <1>6

LEMMA SegInit ==
  ASSUME Segregated!Assumptions, Segregated!Init
  PROVE  SegInv
<1>1. /\ superblocks = {} /\ header = [x \in {} |-> 0] /\ live = [x \in {} |-> 0]
      /\ bins = [i \in Segregated!Bin |-> <<>>]
      /\ next_id = 0 /\ total_bytes = 0 /\ live_count = 0 /\ live_bytes = 0
      /\ requested = 0 /\ granted = 0 /\ result = "ok"
  BY DEF Segregated!Init, Segregated!Empty
<1>2. /\ SegBlocks({}, header) /\ SegBins(header, bins) /\ SegOwned(header, live, 0)
      /\ SumFunction(SegSupers({})) = 0
      /\ SumFunction(SegPayload(header, live)) = 0
      /\ Cardinality(DOMAIN live) = 0
  BY <1>1, SegNone
<1>3. SegregatedSetup.ids \in Nat /\ SegregatedSetup.max_bytes \in Nat
  BY SegConstants
<1>4. QED
  BY <1>1, <1>2, <1>3 DEF SegInv, SegResults

LEMMA SegUnchanged ==
  ASSUME SegInv, result' \in SegResults,
         UNCHANGED <<superblocks, header, bins, live, next_id, total_bytes,
                     live_count, live_bytes, requested, granted>>
  PROVE  SegInv'
<1>1. /\ SegBlocks(superblocks, header)' /\ SegBins(header, bins)'
      /\ SegOwned(header, live, next_id)'
  BY DEF SegInv
<1>2. /\ SumFunction(SegSupers(superblocks))' = SumFunction(SegSupers(superblocks))
      /\ SumFunction(SegPayload(header, live))' = SumFunction(SegPayload(header, live))
  OBVIOUS
<1>3. QED
  BY <1>1, <1>2 DEF SegInv, SegResults

LEMMA SegStutter ==
  ASSUME SegInv, UNCHANGED Segregated!vars
  PROVE  SegInv'
<1>1. UNCHANGED <<superblocks, header, bins, live, next_id, total_bytes,
                  live_count, live_bytes, requested, granted, result>>
  BY DEF Segregated!vars, Segregated!heap, Segregated!gauges
<1>2. result \in SegResults
  BY DEF SegInv
<1>3. QED
  BY <1>1, <1>2, SegUnchanged

LEMMA SegFails ==
  ASSUME SegInv, NEW code \in SegResults, Segregated!Fails(code)
  PROVE  SegInv'
<1>1. /\ result' = code
      /\ UNCHANGED <<superblocks, header, bins, live, next_id, total_bytes,
                     live_count, live_bytes, requested, granted>>
  BY DEF Segregated!Fails, Segregated!heap, Segregated!gauges
<1>2. QED
  BY <1>1, SegUnchanged

-----------------------------------------------------------------------------
(* The block find_block() takes from the list of bin i.                    *)
SegFirst(hd, bs, i, n) == Segregated!SelectInSeq(bs[i], LAMBDA x : hd[x].size >= n)

LEMMA SegSearch ==
  ASSUME Segregated!Assumptions, NEW hd, NEW sb, SegBlocks(sb, hd), NEW bs, SegBins(hd, bs),
         NEW n \in Nat, Segregated!Serving(hd, bs, n) # {},
         NEW i, i = Segregated!Min(Segregated!Serving(hd, bs, n)),
         NEW k, k = SegFirst(hd, bs, i, n)
  PROVE  /\ i \in Segregated!Bin /\ k \in 1..Len(bs[i])
         /\ bs[i][k] \in DOMAIN hd /\ hd[bs[i][k]].size >= n /\ ~ hd[bs[i][k]].busy
<1>1. Segregated!Bin \subseteq Nat
  BY SegBinIs
<1>2. /\ Segregated!Serving(hd, bs, n) \subseteq Segregated!Bin
      /\ \A j \in Segregated!Serving(hd, bs, n) : \E b \in ToSet(bs[j]) : hd[b].size >= n
  BY SegOps DEF Segregated!Serving
<1>3. i \in Segregated!Serving(hd, bs, n)
  <2>1. \E m \in Segregated!Serving(hd, bs, n) : \A y \in Segregated!Serving(hd, bs, n) : m <= y
    BY Zenon, <1>1, <1>2, NatMin
  <2>2. QED
    BY <2>1, SegOps DEF Min
<1>4. i \in Segregated!Bin /\ bs[i] \in Seq(Nat) /\ ToSet(bs[i]) = SegFree(hd, i)
  BY <1>2, <1>3 DEF SegBins
<1> DEFINE q == bs[i]
           I == {j \in 1..Len(q) : hd[q[j]].size >= n}
<1>5. k = IF I # {} THEN Min(I) ELSE 0
  BY SegOps DEF SegFirst, Segregated!SelectInSeq
<1>6. I # {} /\ I \subseteq Nat /\ I \subseteq 1..Len(q)
  <2>1. PICK b \in ToSet(q) : hd[b].size >= n
    BY <1>2, <1>3
  <2>2. PICK j \in 1..Len(q) : q[j] = b
    BY <1>4, <2>1, ListFacts
  <2>3. j \in I
    BY <2>1, <2>2
  <2>4. QED
    BY <2>3
<1>7. k \in I
  <2>1. \E m \in I : \A y \in I : m <= y
    BY Zenon, <1>6, NatMin
  <2>2. QED
    BY Zenon, <1>5, <1>6, <2>1 DEF Min
<1>8. k \in 1..Len(q) /\ hd[q[k]].size >= n
  BY <1>7
<1>9. q[k] \in SegFree(hd, i)
  BY <1>4, <1>8, ListFacts
<1>10. QED
  BY <1>4, <1>8, <1>9 DEF SegFree

(* A block is taken and published: what allocate() does once it has one.   *)
LEMMA SegTaken ==
  ASSUME Segregated!Assumptions, NEW sb, NEW hd, NEW bs,
         SegBlocks(sb, hd), SegBins(hd, bs), SegOwned(hd, live, next_id),
         NEW req \in SegregatedSetup.requests,
         Segregated!Serving(hd, bs, Segregated!Need(req)) # {},
         Segregated!Take(hd, bs, req)
  PROVE  /\ SegBlocks(sb, header') /\ SegBins(header', bins')
         /\ SegOwned(header', live', next_id')
         /\ next_id' = next_id + 1 /\ live_count' = live_count + 1 /\ result' = "ok"
         /\ requested' = requested + req.size
         /\ \E z \in Nat : /\ z >= req.size
                           /\ live_bytes' = live_bytes + z /\ granted' = granted + z
                           /\ SumFunction(SegPayload(header', live'))
                                = SumFunction(SegPayload(hd, live)) + z
         /\ Cardinality(DOMAIN live) \in Nat
         /\ Cardinality(DOMAIN live') = Cardinality(DOMAIN live) + 1
         /\ DOMAIN live' = DOMAIN live \cup {next_id + 1}
         /\ \A h \in DOMAIN live : live'[h] = live[h] /\ header'[live[h]] = hd[live[h]]
<1> DEFINE n == Segregated!Need(req)
<1>1. /\ n \in Nat /\ n >= SegLeast /\ n > SegHeader /\ req.size \in Nat
      /\ n >= SegHeader + req.size /\ SegHeader \in Nat /\ SegLeast \in Nat /\ SegLeast > 0
  BY SegNeeds, SegConstants
<1>2. PICK i : i = Segregated!Min(Segregated!Serving(hd, bs, n))
  OBVIOUS
<1>3. PICK k : k = SegFirst(hd, bs, i, n)
  OBVIOUS
<1>4. /\ i \in Segregated!Bin /\ k \in 1..Len(bs[i])
      /\ bs[i][k] \in DOMAIN hd /\ hd[bs[i][k]].size >= n /\ ~ hd[bs[i][k]].busy
  BY <1>1, <1>2, <1>3, SegSearch
<1>5. PICK b : b = bs[i][k]
  OBVIOUS
<1> DEFINE rest == hd[b].size - n
           split == rest >= SegLeast
           z == IF split THEN n ELSE hd[b].size
           id == next_id + 1
<1>6. /\ bins' = IF split THEN [[bs EXCEPT ![i] = RemoveAt(@, k)]
                                  EXCEPT ![Segregated!BinOf(rest)] = Append(@, b + n)]
                 ELSE [bs EXCEPT ![i] = RemoveAt(@, k)]
      /\ header' = [x \in DOMAIN hd \cup (IF split THEN {b + n} ELSE {}) |->
                      IF x = b THEN [size |-> z, busy |-> TRUE]
                      ELSE IF split /\ x = b + n THEN [size |-> rest, busy |-> FALSE]
                      ELSE hd[x]]
      /\ live' = [h \in DOMAIN live \cup {id} |-> IF h = id THEN b ELSE live[h]]
      /\ next_id' = id /\ live_count' = live_count + 1
      /\ live_bytes' = live_bytes + z - SegHeader
      /\ requested' = requested + req.size
      /\ granted' = granted + z - SegHeader /\ result' = "ok"
  BY Zenon, <1>2, <1>3, <1>5, SegOps DEF Segregated!Take, Segregated!WorthSplitting, SegHeader, SegLeast, SegFirst
<1> HIDE DEF n
<1>7. /\ b \in DOMAIN hd /\ b \in Nat /\ hd[b].size \in Nat /\ hd[b].size >= n /\ ~ hd[b].busy
      /\ hd[b].size >= SegLeast /\ hd[b] \in [size : Nat, busy : BOOLEAN]
  BY <1>4, <1>5 DEF SegBlocks, SegHeaders
<1>8. /\ rest \in Nat /\ z \in Nat /\ z >= n /\ z - SegHeader \in Nat /\ z - SegHeader >= req.size
      /\ z > SegHeader
  BY <1>1, <1>7
<1>9. /\ DOMAIN live' = DOMAIN live \cup {id} /\ live'[id] = b
      /\ id \notin DOMAIN live /\ \A h \in DOMAIN live : live'[h] = live[h]
  <2>1. id \notin DOMAIN live
    BY <1>1, SegPayloads
  <2>2. QED
    BY <1>6, <2>1
(* Taken whole, and what is split off then.                                *)
<1> DEFINE whole == [hd EXCEPT ![b] = [size |-> hd[b].size, busy |-> TRUE]]
<1>10. /\ DOMAIN whole = DOMAIN hd /\ whole[b] = [size |-> hd[b].size, busy |-> TRUE]
       /\ whole[b].size = hd[b].size /\ whole[b].busy
       /\ \A x \in DOMAIN hd : x # b => whole[x] = hd[x]
  BY <1>7
<1> HIDE DEF whole
<1>11. SegBins(whole, Unfiled(bs, i, k))
  <2>1. whole[bs[i][k]].busy /\ \A x \in DOMAIN hd : x # bs[i][k] => whole[x] = hd[x]
    BY <1>5, <1>10
  <2>2. QED
    BY <1>4, <1>10, <2>1, SegUnfiled
<1>12. /\ SegBlocks(sb, header') /\ SegBins(header', bins')
       /\ DOMAIN hd \subseteq DOMAIN header'
       /\ header'[b].busy /\ header'[b].size = z
       /\ \A x \in DOMAIN hd \ {b} : header'[x] = hd[x]
       /\ \A x \in DOMAIN header' : x \notin DOMAIN hd => ~ header'[x].busy
  <2>1. CASE ~ split
    <3>1. z = hd[b].size
      BY <2>1
    <3>2. /\ DOMAIN header' = DOMAIN hd
          /\ \A x \in DOMAIN hd : header'[x] = IF x = b THEN [size |-> z, busy |-> TRUE] ELSE hd[x]
      BY Zenon, <1>6, <2>1
    <3> HIDE DEF z
    <3>3. \A x \in DOMAIN hd : header'[x] = whole[x]
      BY Zenon, <1>10, <3>1, <3>2
    <3>4. DOMAIN header' = DOMAIN whole
      BY <1>10, <3>2
    <3>5. bins' = Unfiled(bs, i, k)
      BY <1>6, <2>1 DEF Unfiled
    <3>6. \A x \in DOMAIN hd : /\ header'[x] \in [size : Nat, busy : BOOLEAN]
                               /\ header'[x].size = hd[x].size
      <4>1. \A x \in DOMAIN hd : hd[x] \in [size : Nat, busy : BOOLEAN]
        BY DEF SegBlocks, SegHeaders
      <4>2. header'[b] = [size |-> z, busy |-> TRUE]
        BY <1>7, <3>2
      <4>3. header'[b] \in [size : Nat, busy : BOOLEAN] /\ header'[b].size = hd[b].size
        BY <1>8, <3>1, <4>2
      <4>4. \A x \in DOMAIN hd : x # b => header'[x] = hd[x]
        BY <3>2
      <4>5. QED
        BY <4>1, <4>3, <4>4
    <3>7. SegBlocks(sb, header')
      BY <3>2, <3>6, SegMarked
    <3>8. \A j : SegFree(header', j) = SegFree(whole, j)
      BY <1>10, <3>3, <3>4 DEF SegFree
    <3>9. SegBins(header', bins')
      BY <1>11, <3>5, <3>8 DEF SegBins
    <3>10. QED
      BY <1>7, <3>2, <3>7, <3>9
  <2>2. CASE split
    <3> DEFINE c == b + n
    <3>1. z = n
      BY <2>2
    <3>2. DOMAIN header' = DOMAIN hd \cup {c}
      BY <1>6, <2>2
    <3>3. \A x \in DOMAIN hd \cup {c} :
            header'[x] = IF x = b THEN [size |-> n, busy |-> TRUE]
                         ELSE IF x = c THEN [size |-> rest, busy |-> FALSE] ELSE hd[x]
      BY Zenon, <1>6, <2>2
    <3>4. c # b /\ c \in Nat
      BY <1>1, <1>7
    <3>5. bins' = Filed(Unfiled(bs, i, k), Segregated!BinOf(rest), c)
      BY <1>6, <2>2 DEF Filed, Unfiled
    <3> HIDE DEF rest, z
    <3>6. /\ header'[b] = [size |-> n, busy |-> TRUE]
          /\ header'[c] = [size |-> rest, busy |-> FALSE]
      BY Zenon, <1>7, <3>3, <3>4
    <3>7. /\ header'[b] \in [size : Nat, busy : BOOLEAN] /\ header'[b].size = n /\ header'[b].busy
          /\ header'[c] \in [size : Nat, busy : BOOLEAN] /\ header'[c].size = rest
          /\ ~ header'[c].busy
      BY <1>1, <1>8, <3>6
    <3>8. n + rest = hd[b].size /\ rest >= SegLeast
      BY <1>1, <1>7, <2>2 DEF rest
    <3>9. PICK hd2 : hd2 = header'
      OBVIOUS
    <3> HIDE DEF split
    <3>10. SegBlocks(sb, hd2) /\ c \notin DOMAIN hd
      <4> HIDE DEF c
      <4>1. DOMAIN hd2 = DOMAIN hd \cup {c}
        BY <3>2, <3>9
      <4>2. \A x \in DOMAIN hd \ {b} : x # c => hd2[x] = hd[x]
        BY <3>3, <3>9
      <4>3. \A x \in DOMAIN hd : x # c
        <5>1. \A x \in DOMAIN hd : /\ x \in Nat /\ hd[x].size \in Nat /\ hd[x].size > 0
                                   /\ x = b \/ x + hd[x].size <= b \/ b + hd[b].size <= x
          BY <1>7 DEF SegBlocks, SegHeaders
        <5>2. c = b + n /\ b < c /\ c < b + hd[b].size
          <6>1. n > 0 /\ rest > 0 /\ rest \in Nat
            BY <1>1, <1>8, <3>8
          <6>2. QED
            BY <1>1, <1>7, <3>8, <6>1 DEF c
        <5>3. QED
          BY <1>7, <5>1, <5>2
      <4>4. /\ \A x \in DOMAIN hd \ {b} : hd2[x] = hd[x]
            /\ DOMAIN hd2 = DOMAIN hd \cup {b + n}
            /\ hd2[b] \in [size : Nat, busy : BOOLEAN] /\ hd2[b].size = n
            /\ hd2[b + n] \in [size : Nat, busy : BOOLEAN] /\ hd2[b + n].size = rest
            /\ n \in Nat /\ rest \in Nat /\ n >= SegLeast
        BY <1>1, <1>8, <3>7, <3>9, <4>1, <4>2, <4>3 DEF c
      <4>5. SegBlocks(sb, hd2)
        BY <1>1, <1>7, <3>8, <4>4, SegSplit
      <4>6. QED
        BY <4>3, <4>5
    <3>11. \A x \in DOMAIN hd \ {b} : hd2[x] = hd[x]
      BY <3>3, <3>9, <3>10
    <3>12. SegBins(hd2, Filed(Unfiled(bs, i, k), Segregated!BinOf(rest), c))
      <4>1. /\ c \notin DOMAIN whole /\ DOMAIN hd2 = DOMAIN whole \cup {c}
            /\ ~ hd2[c].busy /\ hd2[c].size = rest
        BY <1>10, <3>2, <3>7, <3>9, <3>10
      <4>2. \A x \in DOMAIN whole : x # c => /\ hd2[x].busy = whole[x].busy
                                             /\ ~ whole[x].busy => hd2[x] = whole[x]
        BY Zenon, <1>10, <3>7, <3>9, <3>11
      <4>3. Segregated!BinOf(rest) \in Segregated!Bin
        BY <1>8, SegBinIs
      <4> HIDE DEF c
      <4>4. QED
        BY <1>11, <3>4, <4>1, <4>2, <4>3, SegFiled
    <3>13. SegBlocks(sb, header') /\ SegBins(header', bins')
      BY <3>5, <3>9, <3>10, <3>12
    <3>14. \A x \in DOMAIN header' : x \notin DOMAIN hd => ~ header'[x].busy
      BY <3>2, <3>7
    <3>15. QED
      BY <3>1, <3>2, <3>7, <3>9, <3>11, <3>13, <3>14
  <2>3. QED
    BY <2>1, <2>2
<1> HIDE DEF z, split, rest
<1>13. /\ SegOwned(header', live', id)
       /\ SumFunction(SegPayload(header', live'))
            = SumFunction(SegPayload(hd, live)) + (header'[b].size - SegHeader)
       /\ Cardinality(DOMAIN live) \in Nat
       /\ Cardinality(DOMAIN live') = Cardinality(DOMAIN live) + 1
  <2>1. PICK hd2 : hd2 = header'
    OBVIOUS
  <2>2. PICK lv2 : lv2 = live'
    OBVIOUS
  <2>3. /\ DOMAIN hd \subseteq DOMAIN hd2 /\ b \in DOMAIN hd /\ ~ hd[b].busy
        /\ hd2[b].busy /\ hd2[b].size \in Nat /\ hd2[b].size > SegHeader
        /\ \A x \in DOMAIN hd \ {b} : hd2[x] = hd[x]
        /\ \A x \in DOMAIN hd2 : x \notin DOMAIN hd => ~ hd2[x].busy
    BY <1>7, <1>8, <1>12, <2>1
  <2>4. /\ DOMAIN lv2 = DOMAIN live \cup {id} /\ lv2[id] = b
        /\ \A h \in DOMAIN live : lv2[h] = live[h]
        /\ id = next_id + 1
        /\ SegOwned(hd, live, next_id) /\ SegHeader \in Nat
    BY <1>1, <1>9, <2>2
  <2> HIDE DEF id
  <2>5. /\ SegOwned(hd2, lv2, id)
        /\ SumFunction(SegPayload(hd2, lv2))
             = SumFunction(SegPayload(hd, live)) + (hd2[b].size - SegHeader)
        /\ Cardinality(DOMAIN live) \in Nat
        /\ Cardinality(DOMAIN lv2) = Cardinality(DOMAIN live) + 1
    BY ONLY <2>3, <2>4, SegOwns
  <2>6. QED
    BY <2>1, <2>2, <2>5
<1>14. \A h \in DOMAIN live : header'[live[h]] = hd[live[h]]
  BY <1>7, <1>12 DEF SegOwned
<1>15. \E y \in Nat : /\ y >= req.size
                      /\ live_bytes' = live_bytes + y /\ granted' = granted + y
                      /\ SumFunction(SegPayload(header', live'))
                           = SumFunction(SegPayload(hd, live)) + y
  BY Zenon, <1>6, <1>8, <1>12, <1>13
<1>16. QED
  BY Zenon, <1>6, <1>9, <1>12, <1>13, <1>14, <1>15

-----------------------------------------------------------------------------
(* What a step does to the handles and the blocks behind them.             *)
SegAdds ==
  /\ next_id' = next_id + 1 /\ next_id' \in 1..SegregatedSetup.ids
  /\ DOMAIN live' = DOMAIN live \cup {next_id + 1}
  /\ \A h \in DOMAIN live : live'[h] = live[h] /\ header'[live[h]] = header[live[h]]

SegStays ==
  /\ next_id' = next_id /\ live' = live
  /\ \A h \in DOMAIN live : header'[live[h]] = header[live[h]]

SegDrops(h) ==
  /\ next_id' = next_id /\ h \in DOMAIN live /\ DOMAIN live' = DOMAIN live \ {h}
  /\ \A g \in DOMAIN live' : live'[g] = live[g] /\ header'[live[g]] = header[live[g]]

LEMMA SegAllocate ==
  ASSUME Segregated!Assumptions, SegInv, NEW req \in SegregatedSetup.requests,
         Segregated!Allocate(req)
  PROVE  SegInv' /\ SegAdds
<1>1. /\ SegBlocks(superblocks, header) /\ SegBins(header, bins)
      /\ SegOwned(header, live, next_id)
      /\ Segregated!Serving(header, bins, Segregated!Need(req)) # {}
      /\ Segregated!Take(header, bins, req)
      /\ superblocks' = superblocks /\ total_bytes' = total_bytes
      /\ next_id < SegregatedSetup.ids
  BY DEF SegInv, Segregated!Allocate, Segregated!Found
<1>2. /\ SegBlocks(superblocks, header') /\ SegBins(header', bins')
      /\ SegOwned(header', live', next_id')
      /\ next_id' = next_id + 1 /\ live_count' = live_count + 1 /\ result' = "ok"
      /\ requested' = requested + req.size
      /\ \E z \in Nat : /\ z >= req.size
                        /\ live_bytes' = live_bytes + z /\ granted' = granted + z
                        /\ SumFunction(SegPayload(header', live'))
                             = SumFunction(SegPayload(header, live)) + z
      /\ Cardinality(DOMAIN live') = Cardinality(DOMAIN live) + 1
      /\ DOMAIN live' = DOMAIN live \cup {next_id + 1}
      /\ \A h \in DOMAIN live : live'[h] = live[h] /\ header'[live[h]] = header[live[h]]
  BY <1>1, SegTaken
<1>3. next_id \in Nat /\ SegregatedSetup.ids \in Nat /\ req.size \in Nat /\ SegHeader \in Nat
  BY <1>1, SegConstants, SegNeeds DEF SegOwned
<1>4. SegAdds
  BY <1>1, <1>2, <1>3 DEF SegAdds
<1>5. PICK z \in Nat : /\ z >= req.size
                       /\ live_bytes' = live_bytes + z /\ granted' = granted + z
                       /\ SumFunction(SegPayload(header', live'))
                            = SumFunction(SegPayload(header, live)) + z
  BY <1>2
<1>6. SumFunction(SegPayload(header, live)) \in Nat
  BY <1>1, <1>3, SegPayloads
<1>7. /\ live_bytes' = SumFunction(SegPayload(header', live'))
      /\ requested' \in Nat /\ granted' \in Nat
      /\ granted' >= requested' /\ granted' >= live_bytes'
  BY <1>2, <1>3, <1>5, <1>6 DEF SegInv
<1>8. SegInv'
  BY <1>1, <1>2, <1>3, <1>7 DEF SegInv, SegResults
<1>9. QED
  BY <1>4, <1>8

LEMMA SegAllocateGrow ==
  ASSUME Segregated!Assumptions, SegInv, NEW req \in SegregatedSetup.requests,
         Segregated!AllocateGrow(req)
  PROVE  SegInv' /\ (SegAdds \/ SegStays)
<1>1. PICK size : size = Segregated!GrowthFor(req)
  OBVIOUS
<1>2. /\ SegBlocks(superblocks, header) /\ SegBins(header, bins)
      /\ SegOwned(header, live, next_id)
  BY DEF SegInv
<1>3. /\ size \in Nat /\ size >= SegLeast /\ SegLeast \in Nat /\ SegLeast > 0
      /\ SegPlaces \subseteq Nat /\ SegHeader \in Nat /\ req.size \in Nat
      /\ SegregatedSetup.max_bytes \in Nat /\ SegregatedSetup.ids \in Nat
  BY <1>1, SegGrowth, SegNeeds, SegConstants
<1>4. PICK b \in SegPlaces :
        /\ Segregated!Vacant(b, size)
        /\ superblocks' = superblocks \cup {[base |-> b, size |-> size]}
        /\ LET hd == [x \in DOMAIN header \cup {b} |->
                        IF x = b THEN [size |-> size, busy |-> FALSE] ELSE header[x]]
               bs == [bins EXCEPT ![Segregated!BinOf(size)] = Append(@, b)]
           IN IF Segregated!Serving(hd, bs, Segregated!Need(req)) # {}
              THEN Segregated!Take(hd, bs, req)
              ELSE /\ header' = hd /\ bins' = bs /\ result' = "out_of_memory"
                   /\ UNCHANGED <<live, next_id, Segregated!gauges>>
  BY Zenon, <1>1 DEF Segregated!AllocateGrow, SegPlaces
<1>5. /\ next_id < SegregatedSetup.ids /\ total_bytes' = total_bytes + size
      /\ total_bytes + size <= SegregatedSetup.max_bytes
  BY <1>1 DEF Segregated!AllocateGrow, Segregated!MayGrow
<1>6. PICK hd : hd = [x \in DOMAIN header \cup {b} |->
                        IF x = b THEN [size |-> size, busy |-> FALSE] ELSE header[x]]
  BY Zenon
<1>7. PICK bs : bs = Filed(bins, Segregated!BinOf(size), b)
  OBVIOUS
<1>8. bs = [bins EXCEPT ![Segregated!BinOf(size)] = Append(@, b)]
  BY <1>7 DEF Filed
<1>9. \/ /\ Segregated!Serving(hd, bs, Segregated!Need(req)) # {}
         /\ Segregated!Take(hd, bs, req)
      \/ /\ header' = hd /\ bins' = bs /\ result' = "out_of_memory"
         /\ UNCHANGED <<live, next_id, live_count, live_bytes, requested, granted>>
  BY Zenon, <1>4, <1>6, <1>8 DEF Segregated!gauges
<1>10. b \in Nat /\ \A s \in superblocks : b + size <= s.base \/ s.base + s.size <= b
  BY <1>3, <1>4 DEF Segregated!Vacant
<1>11. PICK new : new = [base |-> b, size |-> size]
  BY Zenon
<1>12. new.base = b /\ new.size = size /\ superblocks' = superblocks \cup {new}
  BY <1>4, <1>11
<1>13. /\ DOMAIN hd = DOMAIN header \cup {b} /\ hd[b] = [size |-> size, busy |-> FALSE]
       /\ \A x \in DOMAIN header : x # b => hd[x] = header[x]
  BY <1>6
<1>14. hd[b] \in [size : Nat, busy : BOOLEAN] /\ hd[b].size = size /\ ~ hd[b].busy
  BY <1>3, <1>13
<1>15. /\ SegBlocks(superblocks \cup {new}, hd)
       /\ b \notin DOMAIN header /\ new \notin superblocks
  <2>1. /\ SegBlocks(superblocks, header)
        /\ b \in Nat /\ b \in SegPlaces /\ size \in Nat /\ size >= SegLeast
        /\ SegLeast \in Nat /\ SegLeast > 0
        /\ \A s \in superblocks : b + size <= s.base \/ s.base + s.size <= b
        /\ new.base = b /\ new.size = size
        /\ DOMAIN hd = DOMAIN header \cup {b}
        /\ hd[b] \in [size : Nat, busy : BOOLEAN] /\ hd[b].size = size
        /\ \A x \in DOMAIN header : x # b => hd[x] = header[x]
    BY <1>2, <1>3, <1>4, <1>10, <1>12, <1>13, <1>14
  <2>2. QED
    BY ONLY <2>1, SegAdded
<1>16. SegBlocks(superblocks', hd)
  BY <1>12, <1>15
<1>17. SegBins(hd, bs)
  <2>1. PICK i : i = Segregated!BinOf(size)
    OBVIOUS
  <2>2. i \in Segregated!Bin
    BY <1>3, <2>1, SegBinIs
  <2>3. /\ \A x \in DOMAIN header : x # b => /\ hd[x].busy = header[x].busy
                                             /\ ~ header[x].busy => hd[x] = header[x]
        /\ b \in DOMAIN header => header[b].busy
        /\ Segregated!BinOf(hd[b].size) = i
    BY <1>13, <1>14, <1>15, <2>1
  <2>4. SegBins(hd, Filed(bins, i, b))
    BY <1>2, <1>10, <1>13, <1>14, <2>2, <2>3, SegFiled
  <2>5. QED
    BY <1>7, <2>1, <2>4
<1>18. SegOwned(hd, live, next_id) /\ SegPayload(hd, live) = SegPayload(header, live)
  <2>1. /\ DOMAIN header \subseteq DOMAIN hd
        /\ \A x \in DOMAIN header : hd[x] = header[x]
        /\ \A x \in DOMAIN hd : x \notin DOMAIN header => ~ hd[x].busy
    BY <1>13, <1>14, <1>15
  <2>2. QED
    BY <1>2, <2>1, SegKeeps
<1>19. \A h \in DOMAIN live : live[h] \in DOMAIN header /\ hd[live[h]] = header[live[h]]
  BY <1>2, <1>13, <1>15 DEF SegOwned
<1>20. /\ total_bytes' = SumFunction(SegSupers(superblocks'))
       /\ total_bytes' \in Nat /\ total_bytes' <= SegregatedSetup.max_bytes
  <2>1. PICK f : f = SegSupers(superblocks)
    OBVIOUS
  <2>2. PICK g : g = SegSupers(superblocks')
    OBVIOUS
  <2>3. /\ IsFiniteSet(superblocks) /\ \A s \in superblocks : s.size \in Nat
    BY <1>2 DEF SegBlocks, SegHeld
  <2>4. /\ IsFiniteSet(DOMAIN f) /\ \A s \in DOMAIN f : f[s] \in Nat
        /\ new \notin DOMAIN f /\ DOMAIN g = DOMAIN f \cup {new}
        /\ g[new] \in Nat /\ g[new] = size
        /\ \A s \in DOMAIN f : g[s] = f[s]
    BY <1>3, <1>12, <1>15, <2>1, <2>2, <2>3 DEF SegSupers
  <2>5. /\ SumFunction(g) = SumFunction(f) + g[new] /\ SumFunction(f) \in Nat
    BY ONLY <2>4, SumGains
  <2>6. total_bytes = SumFunction(f)
    BY <2>1 DEF SegInv
  <2>7. QED
    BY <1>3, <1>5, <2>2, <2>4, <2>5, <2>6
<1>21. next_id \in Nat /\ SumFunction(SegPayload(header, live)) \in Nat
  <2>1. next_id \in Nat
    BY <1>2 DEF SegOwned
  <2>2. QED
    BY <1>2, <1>3, <2>1, SegPayloads
<1>22. CASE /\ Segregated!Serving(hd, bs, Segregated!Need(req)) # {}
            /\ Segregated!Take(hd, bs, req)
  <2>1. PICK sb : sb = superblocks'
    OBVIOUS
  <2>2. SegBlocks(sb, hd)
    BY <1>16, <2>1
  <2>3. /\ SegBlocks(sb, header') /\ SegBins(header', bins')
        /\ SegOwned(header', live', next_id')
        /\ next_id' = next_id + 1 /\ live_count' = live_count + 1 /\ result' = "ok"
        /\ requested' = requested + req.size
        /\ \E z \in Nat : /\ z >= req.size
                          /\ live_bytes' = live_bytes + z /\ granted' = granted + z
                          /\ SumFunction(SegPayload(header', live'))
                               = SumFunction(SegPayload(hd, live)) + z
        /\ Cardinality(DOMAIN live') = Cardinality(DOMAIN live) + 1
        /\ DOMAIN live' = DOMAIN live \cup {next_id + 1}
        /\ \A h \in DOMAIN live : live'[h] = live[h] /\ header'[live[h]] = hd[live[h]]
    BY <1>17, <1>18, <1>22, <2>2, SegTaken
  <2>4. SegAdds
    BY <1>3, <1>5, <1>19, <1>21, <2>3 DEF SegAdds
  <2>5. PICK z \in Nat : /\ z >= req.size
                         /\ live_bytes' = live_bytes + z /\ granted' = granted + z
                         /\ SumFunction(SegPayload(header', live'))
                              = SumFunction(SegPayload(header, live)) + z
    BY <1>18, <2>3
  <2>6. /\ live_bytes' = SumFunction(SegPayload(header', live'))
        /\ requested' \in Nat /\ granted' \in Nat
        /\ granted' >= requested' /\ granted' >= live_bytes'
    BY <1>3, <1>21, <2>3, <2>5 DEF SegInv
  <2>7. next_id' <= SegregatedSetup.ids
    BY <1>3, <1>5, <1>21, <2>3
  <2>8. live_count' = Cardinality(DOMAIN live')
    BY <2>3 DEF SegInv
  <2>9. SegInv'
    BY <1>20, <2>1, <2>3, <2>6, <2>7, <2>8 DEF SegInv, SegResults
  <2>10. QED
    BY <2>4, <2>9
<1>23. CASE /\ header' = hd /\ bins' = bs /\ result' = "out_of_memory"
            /\ UNCHANGED <<live, next_id, live_count, live_bytes, requested, granted>>
  <2>1. SegStays
    BY <1>19, <1>23 DEF SegStays
  <2>2. /\ SegBlocks(superblocks', header') /\ SegBins(header', bins')
        /\ SegOwned(header', live', next_id')
    BY <1>16, <1>17, <1>18, <1>23
  <2>3. SumFunction(SegPayload(header', live')) = SumFunction(SegPayload(header, live))
    BY <1>18, <1>23
  <2>4. /\ live_bytes' = SumFunction(SegPayload(header', live'))
        /\ live_count' = Cardinality(DOMAIN live')
        /\ requested' \in Nat /\ granted' \in Nat /\ next_id' <= SegregatedSetup.ids
        /\ granted' >= requested' /\ granted' >= live_bytes'
    BY <1>23, <2>3 DEF SegInv
  <2>5. SegInv'
    BY <1>20, <1>23, <2>2, <2>4 DEF SegInv, SegResults
  <2>6. QED
    BY <2>1, <2>5
<1>24. QED
  BY <1>9, <1>22, <1>23

LEMMA SegFreed ==
  ASSUME Segregated!Assumptions, SegInv, NEW h, Segregated!Free(h)
  PROVE  SegInv' /\ SegDrops(h)
<1>1. PICK b : b = live[h]
  OBVIOUS
<1>2. /\ SegBlocks(superblocks, header) /\ SegBins(header, bins)
      /\ SegOwned(header, live, next_id)
  BY DEF SegInv
<1>3. PICK z : z = header[b].size - SegHeader
  OBVIOUS
<1>4. /\ h \in DOMAIN live /\ header[b].busy
      /\ header' = [header EXCEPT ![b].busy = FALSE]
      /\ bins' = Filed(bins, Segregated!BinOf(header[b].size), b)
      /\ live_bytes' = IF live_bytes >= z THEN live_bytes - z ELSE live_bytes
      /\ live' = [g \in DOMAIN live \ {h} |-> live[g]]
      /\ live_count' = IF live_count > 0 THEN live_count - 1 ELSE live_count
      /\ result' = "ok"
      /\ UNCHANGED <<superblocks, total_bytes, next_id, requested, granted>>
  BY <1>1, <1>3 DEF Segregated!Free, Filed, SegHeader
<1>5. b \in DOMAIN header
  BY <1>1, <1>2, <1>4 DEF SegOwned
<1>6. /\ \A x \in DOMAIN header : header[x] \in [size : Nat, busy : BOOLEAN]
      /\ b \in Nat /\ header[b].size \in Nat
  BY <1>2, <1>5 DEF SegBlocks, SegHeaders
<1>7. PICK hd : hd = header'
  OBVIOUS
<1>8. /\ DOMAIN hd = DOMAIN header
      /\ hd[b] \in [size : Nat, busy : BOOLEAN] /\ hd[b].size = header[b].size /\ ~ hd[b].busy
      /\ \A x \in DOMAIN header : x # b => hd[x] = header[x]
  <2>1. hd = [header EXCEPT ![b] = [header[b] EXCEPT !.busy = FALSE]]
    BY <1>4, <1>7
  <2>2. header[b] \in [size : Nat, busy : BOOLEAN]
    BY <1>5, <1>6
  <2>3. /\ [header[b] EXCEPT !.busy = FALSE] \in [size : Nat, busy : BOOLEAN]
        /\ [header[b] EXCEPT !.busy = FALSE].size = header[b].size
        /\ ~ [header[b] EXCEPT !.busy = FALSE].busy
    BY Zenon, <2>2
  <2>4. hd[b] = [header[b] EXCEPT !.busy = FALSE]
    BY <1>5, <2>1
  <2>5. DOMAIN hd = DOMAIN header /\ \A x \in DOMAIN header : x # b => hd[x] = header[x]
    BY <2>1
  <2>6. QED
    BY <2>3, <2>4, <2>5
<1>9. SegBlocks(superblocks, hd)
  <2>1. \A x \in DOMAIN header : /\ hd[x] \in [size : Nat, busy : BOOLEAN]
                                 /\ hd[x].size = header[x].size
    BY <1>6, <1>8
  <2>2. QED
    BY <1>2, <1>8, <2>1, SegMarked
<1>10. SegBins(hd, bins')
  <2>1. PICK i : i = Segregated!BinOf(header[b].size)
    OBVIOUS
  <2>2. i \in Segregated!Bin
    BY <1>6, <2>1, SegBinIs
  <2>3. /\ \A x \in DOMAIN header : x # b => /\ hd[x].busy = header[x].busy
                                             /\ ~ header[x].busy => hd[x] = header[x]
        /\ b \in DOMAIN header => header[b].busy
        /\ Segregated!BinOf(hd[b].size) = i
        /\ DOMAIN hd = DOMAIN header \cup {b} /\ ~ hd[b].busy
    BY Zenon, <1>4, <1>5, <1>8, <2>1
  <2>4. SegBins(hd, Filed(bins, i, b))
    BY <1>2, <1>6, <2>2, <2>3, SegFiled
  <2>5. QED
    BY <1>4, <2>1, <2>4
<1>11. PICK lv : lv = live'
  OBVIOUS
<1>12. /\ SegOwned(hd, lv, next_id)
       /\ SumFunction(SegPayload(header, live)) = SumFunction(SegPayload(hd, lv)) + z
       /\ z \in Nat /\ SumFunction(SegPayload(hd, lv)) \in Nat
       /\ Cardinality(DOMAIN live) \in Nat /\ Cardinality(DOMAIN live) > 0
       /\ Cardinality(DOMAIN lv) = Cardinality(DOMAIN live) - 1
  <2>1. SegReturned(header, hd, live, lv, next_id, h, b, z)
    BY <1>1, <1>2, <1>3, <1>4, <1>8, <1>11, SegConstants DEF SegReturned
  <2>2. /\ SegOwned(hd, lv, next_id)
        /\ SumFunction(SegPayload(header, live))
             = SumFunction(SegPayload(hd, lv)) + z
        /\ z \in Nat
        /\ SumFunction(SegPayload(hd, lv)) \in Nat
        /\ Cardinality(DOMAIN live) \in Nat /\ Cardinality(DOMAIN live) > 0
        /\ Cardinality(DOMAIN lv) = Cardinality(DOMAIN live) - 1
    BY ONLY <2>1, SegDisowns
  <2>3. QED
    BY <2>2
<1>13. /\ live_bytes' = SumFunction(SegPayload(hd, lv)) /\ live_count' = Cardinality(DOMAIN lv)
       /\ live_bytes' <= live_bytes
  BY <1>4, <1>12 DEF SegInv
<1>14. /\ granted' >= requested' /\ granted' >= live_bytes'
  BY <1>4, <1>12, <1>13 DEF SegInv
<1>15. SegInv'
  <2>1. /\ SegBlocks(superblocks', header') /\ SegBins(header', bins')
        /\ SegOwned(header', live', next_id')
    BY <1>4, <1>7, <1>9, <1>10, <1>11, <1>12
  <2>2. /\ live_bytes' = SumFunction(SegPayload(header', live'))
        /\ live_count' = Cardinality(DOMAIN live')
    BY <1>7, <1>11, <1>13
  <2>3. SumFunction(SegSupers(superblocks')) = SumFunction(SegSupers(superblocks))
    BY <1>4
  <2>4. /\ total_bytes' = SumFunction(SegSupers(superblocks'))
        /\ total_bytes' \in Nat /\ total_bytes' <= SegregatedSetup.max_bytes
        /\ requested' \in Nat /\ granted' \in Nat /\ next_id' <= SegregatedSetup.ids
    BY <1>4, <2>3 DEF SegInv
  <2>5. QED
    BY <1>4, <1>14, <2>1, <2>2, <2>4 DEF SegInv, SegResults
<1>16. SegDrops(h)
  <2>1. \A g \in DOMAIN live' : g \in DOMAIN live /\ live'[g] = live[g] /\ g # h
    BY <1>4
  <2>2. \A g \in DOMAIN live' : live[g] \in DOMAIN header /\ live[g] # b
    BY <1>1, <1>2, <1>4, <2>1 DEF SegOwned
  <2>3. \A g \in DOMAIN live' : header'[live[g]] = header[live[g]]
    BY <1>7, <1>8, <2>2
  <2>4. QED
    BY <1>4, <2>1, <2>3 DEF SegDrops
<1>17. QED
  BY <1>15, <1>16

LEMMA SegReleased ==
  ASSUME Segregated!Assumptions, SegInv, Segregated!ReleaseAll
  PROVE  SegInv' /\ live' = [x \in {} |-> 0] /\ next_id' = next_id
<1>1. /\ superblocks' = {} /\ header' = [x \in {} |-> 0] /\ live' = [x \in {} |-> 0]
      /\ bins' = [i \in Segregated!Bin |-> <<>>]
      /\ total_bytes' = 0 /\ live_count' = 0 /\ live_bytes' = 0 /\ result' = "ok"
      /\ UNCHANGED <<next_id, requested, granted>>
  BY DEF Segregated!ReleaseAll, Segregated!Empty
<1>2. next_id \in Nat
  BY DEF SegInv, SegOwned
<1>3. PICK hd : hd = header'
  OBVIOUS
<1>4. PICK lv : lv = live'
  OBVIOUS
<1>5. PICK bs : bs = bins'
  OBVIOUS
<1>6. /\ SegBlocks({}, hd) /\ SegBins(hd, bs) /\ SegOwned(hd, lv, next_id)
      /\ SumFunction(SegSupers({})) = 0
      /\ SumFunction(SegPayload(hd, lv)) = 0
      /\ Cardinality(DOMAIN lv) = 0
  BY <1>1, <1>2, <1>3, <1>4, <1>5, SegNone
<1>7. /\ SegBlocks(superblocks', header') /\ SegBins(header', bins')
      /\ SegOwned(header', live', next_id')
      /\ SumFunction(SegSupers(superblocks')) = 0
      /\ SumFunction(SegPayload(header', live')) = 0
      /\ Cardinality(DOMAIN live') = 0
  BY <1>1, <1>3, <1>4, <1>5, <1>6
<1>8. SegregatedSetup.max_bytes \in Nat
  BY SegConstants
<1>9. SegInv'
  BY <1>1, <1>7, <1>8 DEF SegInv, SegResults
<1>10. QED
  BY <1>1, <1>9

LEMMA SegRejected ==
  ASSUME SegInv,
         \/ \E req \in SegregatedSetup.requests : \/ Segregated!AllocateRejected(req)
                                                  \/ Segregated!AllocateExhausted(req)
         \/ \E h : Segregated!FreeRefused(h)
  PROVE  SegInv' /\ SegStays
<1>1. \E code \in SegResults : Segregated!Fails(code)
  <2>1. {"size_too_large", "alignment_unsupported", "ok", "capacity_exceeded", "invalid_handle",
         "double_free"} \subseteq SegResults
    BY DEF SegResults
  <2>2. ASSUME NEW req, Segregated!AllocateRejected(req)
        PROVE  \E code \in SegResults : Segregated!Fails(code)
    BY <2>1, <2>2 DEF Segregated!AllocateRejected, Segregated!Admission
  <2>3. ASSUME NEW req, Segregated!AllocateExhausted(req)
        PROVE  \E code \in SegResults : Segregated!Fails(code)
    BY <2>1, <2>3 DEF Segregated!AllocateExhausted
  <2>4. ASSUME NEW h, Segregated!FreeRefused(h)
        PROVE  \E code \in SegResults : Segregated!Fails(code)
    BY <2>1, <2>4 DEF Segregated!FreeRefused
  <2>5. QED
    BY <2>2, <2>3, <2>4
<1>2. PICK code \in SegResults : Segregated!Fails(code)
  BY <1>1
<1>3. SegInv'
  BY <1>2, SegFails
<1>4. SegStays
  BY <1>2 DEF Segregated!Fails, Segregated!heap, SegStays
<1>5. QED
  BY <1>3, <1>4

LEMMA SegNext ==
  ASSUME Segregated!Assumptions, SegInv, Segregated!Next
  PROVE  /\ SegInv'
         /\ SegAdds \/ SegStays \/ (\E h : SegDrops(h))
              \/ (live' = [x \in {} |-> 0] /\ next_id' = next_id)
<1>1. CASE \E req \in SegregatedSetup.requests : \/ Segregated!AllocateRejected(req)
                                                 \/ Segregated!AllocateExhausted(req)
  BY <1>1, SegRejected
<1>2. CASE \E req \in SegregatedSetup.requests : Segregated!Allocate(req)
  BY <1>2, SegAllocate
<1>3. CASE \E req \in SegregatedSetup.requests : Segregated!AllocateGrow(req)
  BY <1>3, SegAllocateGrow
<1>4. CASE \E h : Segregated!FreeRefused(h)
  BY <1>4, SegRejected
<1>5. CASE \E h : Segregated!Free(h)
  BY <1>5, SegFreed
<1>6. CASE Segregated!ReleaseAll
  BY <1>6, SegReleased
<1>7. QED
  BY <1>1, <1>2, <1>3, <1>4, <1>5, <1>6 DEF Segregated!Next

LEMMA SegHandles ==
  ASSUME Segregated!Assumptions, SegInv
  PROVE  /\ next_id \in Nat /\ DOMAIN live \subseteq 1..next_id /\ SegHeader \in Nat
         /\ \A h \in DOMAIN live : /\ live[h] \in DOMAIN header /\ live[h] \in Nat
                                   /\ header[live[h]].size \in Nat
                                   /\ header[live[h]].size > SegHeader
         /\ \A g, h \in DOMAIN live : live[g] = live[h] => g = h
<1>1. SegHeader \in Nat
  BY SegConstants
<1>2. \A b \in DOMAIN header : b \in Nat
  BY DEF SegInv, SegBlocks, SegHeaders
<1>3. QED
  BY <1>1, <1>2 DEF SegInv, SegOwned

LEMMA SegExtentsHeld ==
  ASSUME Segregated!Assumptions, SegInv
  PROVE  Held(Segregated!extents, next_id)
<1>1. /\ next_id \in Nat /\ DOMAIN live \subseteq 1..next_id /\ SegHeader \in Nat
      /\ \A h \in DOMAIN live : /\ live[h] \in DOMAIN header /\ live[h] \in Nat
                                /\ header[live[h]].size \in Nat
                                /\ header[live[h]].size > SegHeader
      /\ \A g, h \in DOMAIN live : live[g] = live[h] => g = h
  BY SegHandles
<1>2. /\ DOMAIN Segregated!extents = DOMAIN live
      /\ \A h \in DOMAIN live : Segregated!extents[h]
           = [addr |-> live[h] + SegHeader, size |-> header[live[h]].size - SegHeader]
  BY DEF Segregated!extents, SegHeader
<1>3. ASSUME NEW g \in DOMAIN live, NEW h \in DOMAIN live, g # h
      PROVE  Contract!Apart(Segregated!extents[g], Segregated!extents[h])
  <2>1. \/ live[g] + header[live[g]].size <= live[h]
        \/ live[h] + header[live[h]].size <= live[g]
    BY <1>1, <1>3 DEF SegInv, SegBlocks, SegHeaders
  <2>2. \/ (live[g] + SegHeader) + (header[live[g]].size - SegHeader) <= live[h] + SegHeader
        \/ (live[h] + SegHeader) + (header[live[h]].size - SegHeader) <= live[g] + SegHeader
    BY <1>1, <2>1
  <2>3. QED
    BY <1>2, <2>2, ApartAt
<1>4. \A h \in DOMAIN live : Segregated!extents[h] \in Contract!Extent
  <2>1. \A h \in DOMAIN live : /\ live[h] + SegHeader \in Nat
                               /\ header[live[h]].size - SegHeader \in Nat \ {0}
    BY <1>1
  <2>2. QED
    BY <1>2, <2>1, ExtentAt
<1>5. QED
  BY <1>1, <1>2, <1>3, <1>4 DEF Held

LEMMA SegSteps ==
  ASSUME Segregated!Assumptions, SegInv, Segregated!Next
  PROVE  /\ Steps(Segregated!extents, Segregated!extents', next_id, next_id')
         /\ next_id' = next_id \/ next_id' \in 1..SegregatedSetup.ids
<1> DEFINE e == Segregated!extents
           f == Segregated!extents'
           x(b, r) == [addr |-> b + SegHeader, size |-> r.size - SegHeader]
<1>1. /\ DOMAIN e = DOMAIN live /\ \A h \in DOMAIN live : e[h] = x(live[h], header[live[h]])
      /\ DOMAIN f = DOMAIN live'
      /\ \A h \in DOMAIN live' : f[h] = x(live'[h], header'[live'[h]])
      /\ f = [h \in DOMAIN f |-> f[h]]
      /\ e = [h \in DOMAIN e |-> e[h]]
  BY DEF Segregated!extents, SegHeader
<1>2. SegAdds \/ SegStays \/ (\E h : SegDrops(h))
        \/ (live' = [h \in {} |-> 0] /\ next_id' = next_id)
  BY SegNext
<1> HIDE DEF e, f, x
<1>3. ASSUME SegAdds
      PROVE  Adds(e, f, next_id, next_id') /\ next_id' \in 1..SegregatedSetup.ids
  BY <1>1, <1>3 DEF SegAdds, Adds
<1>4. ASSUME SegStays
      PROVE  f = e /\ next_id' = next_id
  <2>1. DOMAIN f = DOMAIN e /\ next_id' = next_id
    BY <1>1, <1>4 DEF SegStays
  <2>2. \A h \in DOMAIN e : f[h] = e[h]
    BY <1>1, <1>4 DEF SegStays
  <2>3. QED
    BY <1>1, <2>1, <2>2
<1>5. ASSUME NEW h, SegDrops(h)
      PROVE  Drops(e, f, h) /\ h \in DOMAIN e /\ next_id' = next_id
  BY <1>1, <1>5 DEF SegDrops, Drops
<1>6. ASSUME live' = [h \in {} |-> 0]
      PROVE  Clears(f)
  BY <1>1, <1>6 DEF Clears
<1>7. QED
  BY <1>2, <1>3, <1>4, <1>5, <1>6 DEF Steps, e, f

(* The search: a bin below the first searched has no block that is large   *)
(* enough.                                                                 *)
LEMMA SegSearchComplete ==
  ASSUME Segregated!Assumptions, SegInv
  PROVE  Segregated!SearchComplete
<1>1. SUFFICES ASSUME NEW req \in SegregatedSetup.requests,
                      Segregated!Need(req) <= SegregatedSetup.superblock_size,
                      NEW b \in DOMAIN header, ~ header[b].busy,
                      header[b].size >= Segregated!Need(req)
               PROVE  Segregated!Serving(header, bins, Segregated!Need(req)) # {}
  BY DEF Segregated!SearchComplete, Segregated!Found
<1>2. PICK n : n = Segregated!Need(req)
  OBVIOUS
<1>3. n \in Nat /\ header[b].size \in Nat /\ n <= header[b].size
  BY <1>1, <1>2, SegNeeds DEF SegInv, SegBlocks, SegHeaders
<1>4. PICK i : i = Segregated!BinOf(header[b].size)
  OBVIOUS
<1>5. i \in Segregated!Bin /\ Segregated!Bin \subseteq Nat /\ Segregated!CeilLog2(n) <= i
  BY <1>1, <1>2, <1>3, <1>4, SegBinIs
<1>6. b \in ToSet(bins[i])
  BY <1>1, <1>4, <1>5 DEF SegInv, SegBins, SegFree
<1>7. Segregated!CeilLog2(n) \in Nat
  BY <1>3, SegBinsRise
<1>8. i >= Segregated!FirstBin(n)
  BY <1>5, <1>7 DEF Segregated!FirstBin
<1>9. i \in Segregated!Serving(header, bins, n)
  BY <1>1, <1>2, <1>5, <1>6, <1>8, SegOps DEF Segregated!Serving
<1>10. QED
  BY <1>2, <1>9

LEMMA SegTiles ==
  ASSUME Segregated!Assumptions, SegInv
  PROVE  Segregated!BlocksTile
<1>1. SegBlocks(superblocks, header)
  BY DEF SegInv
<1>2. ASSUME NEW s \in superblocks
      PROVE  /\ s.base \in SegWithin(s, header)
             /\ \A b \in SegWithin(s, header) : \/ b + header[b].size \in SegWithin(s, header)
                                                \/ b + header[b].size = s.base + s.size
             /\ SumFunction([b \in SegWithin(s, header) |-> header[b].size]) = s.size
  <2>1. /\ s.base \in DOMAIN header /\ s.base \in Nat /\ s.size \in Nat /\ s.size > 0
        /\ SumFunction(SegSizes(s, header)) = s.size
    BY <1>1 DEF SegBlocks, SegHeld, SegCovers
  <2>2. s.base \in SegWithin(s, header)
    BY <2>1 DEF SegWithin
  <2>3. ASSUME NEW b \in SegWithin(s, header), b + header[b].size # s.base + s.size
        PROVE  b + header[b].size \in SegWithin(s, header)
    <3>1. /\ b \in Nat /\ header[b].size \in Nat /\ header[b].size > 0
          /\ s.base <= b /\ b + header[b].size <= s.base + s.size
      BY <1>1, SegWhole
    <3>2. b + header[b].size \in DOMAIN header
      BY <1>1, <2>3 DEF SegBlocks, SegCovers
    <3>3. QED
      BY <2>1, <2>3, <3>1, <3>2 DEF SegWithin
  <2>4. QED
    BY <2>1, <2>2, <2>3 DEF SegSizes
<1>3. ASSUME NEW b \in DOMAIN header
      PROVE  /\ header[b].size >= SegLeast
             /\ \E s \in superblocks : s.base <= b /\ b < s.base + s.size
  <2>1. /\ b \in Nat /\ header[b].size \in Nat /\ header[b].size > 0
        /\ header[b].size >= SegLeast
    BY <1>1 DEF SegBlocks, SegHeaders
  <2>2. PICK s \in superblocks : s.base <= b /\ b + header[b].size <= s.base + s.size
    BY <1>1 DEF SegBlocks, SegCovers
  <2>3. s.base \in Nat /\ s.size \in Nat
    BY <1>1 DEF SegBlocks, SegHeld
  <2>4. b < s.base + s.size
    BY <2>1, <2>2, <2>3
  <2>5. QED
    BY <2>1, <2>2, <2>4
<1>4. QED
  BY <1>2, <1>3, SegOps DEF Segregated!BlocksTile, SegWithin, SegLeast

LEMMA SegBinsSound ==
  ASSUME Segregated!Assumptions, SegInv
  PROVE  Segregated!BinsHoldFree
<1>1. /\ bins \in [Segregated!Bin -> Seq(Nat)]
      /\ \A i \in Segregated!Bin : IsInjective(bins[i]) /\ ToSet(bins[i]) = SegFree(header, i)
  BY DEF SegInv, SegBins
<1>2. ASSUME NEW i \in Segregated!Bin, NEW j \in Segregated!Bin,
             NEW m \in DOMAIN bins[i], NEW n \in DOMAIN bins[j], bins[i][m] = bins[j][n]
      PROVE  i = j /\ m = n
  <2>1. bins[i][m] \in SegFree(header, i) /\ bins[j][n] \in SegFree(header, j)
    <3>1. bins[i][m] \in ToSet(bins[i]) /\ bins[j][n] \in ToSet(bins[j])
      BY DEF ToSet
    <3>2. QED
      BY <1>1, <3>1
  <2>2. i = j
    BY <1>2, <2>1 DEF SegFree
  <2>3. IsInjective(bins[i])
    BY <1>1
  <2>4. QED
    BY <1>2, <2>2, <2>3 DEF IsInjective
<1>3. \A i \in Segregated!Bin : \A b \in ToSet(bins[i]) :
        ~ header[b].busy /\ Segregated!BinOf(header[b].size) = i
  BY <1>1 DEF SegFree
<1>4. {b \in DOMAIN header : ~ header[b].busy} = UNION {ToSet(bins[i]) : i \in Segregated!Bin}
  <2>1. ASSUME NEW b \in DOMAIN header, ~ header[b].busy
        PROVE  \E i \in Segregated!Bin : b \in ToSet(bins[i])
    <3>1. header[b].size \in Nat
      BY DEF SegInv, SegBlocks, SegHeaders
    <3>2. Segregated!BinOf(header[b].size) \in Segregated!Bin
      BY <3>1, SegBinIs
    <3>3. b \in SegFree(header, Segregated!BinOf(header[b].size))
      BY <2>1 DEF SegFree
    <3>4. QED
      BY <1>1, <3>2, <3>3
  <2>2. \A i \in Segregated!Bin : \A b \in ToSet(bins[i]) :
          b \in DOMAIN header /\ ~ header[b].busy
    BY <1>1 DEF SegFree
  <2>3. QED
    BY <2>1, <2>2
<1>5. {b \in DOMAIN header : header[b].busy} = {live[h] : h \in DOMAIN live}
  BY DEF SegInv, SegOwned
<1>6. \A g, h \in DOMAIN live : live[g] = live[h] => g = h
  BY DEF SegInv, SegOwned
<1>7. QED
  BY <1>2, <1>3, <1>4, <1>5, <1>6, SegOps DEF Segregated!BinsHoldFree

(* What the runs check of segregated fit.                                  *)
LEMMA SegSound ==
  ASSUME Segregated!Assumptions, SegInv
  PROVE  Segregated!TypeOK /\ Segregated!Accounting
<1>1. /\ SegBlocks(superblocks, header) /\ SegBins(header, bins)
      /\ SegOwned(header, live, next_id) /\ next_id <= SegregatedSetup.ids
      /\ total_bytes = SumFunction(SegSupers(superblocks))
      /\ total_bytes \in Nat /\ total_bytes <= SegregatedSetup.max_bytes
      /\ live_count = Cardinality(DOMAIN live)
      /\ live_bytes = SumFunction(SegPayload(header, live))
      /\ requested \in Nat /\ granted \in Nat
      /\ granted >= requested /\ granted >= live_bytes
      /\ result \in SegResults
  BY DEF SegInv
<1>2. /\ next_id \in Nat /\ DOMAIN live \subseteq 1..next_id
      /\ SegregatedSetup.ids \in Nat /\ SegregatedSetup.max_bytes \in Nat
  BY SegHandles, SegConstants
<1>3. live_count \in Nat /\ live_bytes \in Nat
  <2>1. SegHeader \in Nat
    BY SegConstants
  <2>2. IsFiniteSet(DOMAIN live) /\ SumFunction(SegPayload(header, live)) \in Nat
    BY <1>1, <2>1, SegPayloads
  <2>3. QED
    BY <1>1, <2>2, FS_CardinalityType
<1>4. bins \in [Segregated!Bin -> Seq(DOMAIN header)]
  <2>1. /\ bins \in [Segregated!Bin -> Seq(Nat)]
        /\ \A i \in Segregated!Bin : ToSet(bins[i]) = SegFree(header, i)
    BY <1>1 DEF SegBins
  <2>2. ASSUME NEW i \in Segregated!Bin
        PROVE  bins[i] \in Seq(DOMAIN header)
    <3>1. bins[i] \in Seq(Nat) /\ ToSet(bins[i]) \subseteq DOMAIN header
      BY <2>1 DEF SegFree
    <3>2. Len(bins[i]) \in Nat /\ \A k \in 1..Len(bins[i]) : bins[i][k] \in DOMAIN header
      BY <3>1, ListFacts
    <3>3. QED
      BY <3>1, <3>2
  <2>3. QED
    BY <2>1, <2>2
<1>5. Segregated!TypeOK
  <2>1. \A s \in superblocks : s.base \in SegPlaces /\ s.size \in Nat
    BY <1>1 DEF SegBlocks, SegHeld
  <2>2. \A b \in DOMAIN header : b \in Nat /\ header[b] \in [size : Nat, busy : BOOLEAN]
    BY <1>1 DEF SegBlocks, SegHeaders
  <2>3. \A h \in DOMAIN live : live[h] \in DOMAIN header
    BY SegHandles
  <2>4. QED
    BY <1>1, <1>2, <1>3, <1>4, <2>1, <2>2, <2>3 DEF Segregated!TypeOK, SegPlaces, SegResults
<1>6. Segregated!Accounting
  <2>1. SegSupers(superblocks) = [s \in superblocks |-> s.size]
    BY DEF SegSupers
  <2>2. SegPayload(header, live)
          = [h \in DOMAIN live |-> header[live[h]].size - SegregatedSetup.header_size]
    BY DEF SegPayload, SegHeader
  <2>3. QED
    BY <1>1, <2>1, <2>2, SegOps DEF Segregated!Accounting
<1>7. QED
  BY <1>5, <1>6

-----------------------------------------------------------------------------
(* The strategy on the bench keeps its invariant; the others do not move.  *)
BenchInv ==
  /\ strategy \in Strategies
  /\ strategy = "slab" => SlabInv
  /\ strategy = "fixed_pool" => FixedInv
  /\ strategy = "size_class_pool" => ClassInv
  /\ strategy = "arena" => ArenaInv
  /\ strategy = "segregated_fit" => SegInv
  /\ strategy = "system" => HeapInv(SystemSetup)
  /\ strategy = "aligned" => HeapInv(AlignedSetup)
  /\ strategy = "cuda_direct" => DeviceInv(DirectSetup)
  /\ strategy = "cuda_pool" => DeviceInv(PoolSetup)
  /\ strategy = "pinned" => DeviceInv(PinnedSetup)

LEMMA BenchAssumed ==
  /\ Segregated!Assumptions
  /\ Heap(SystemSetup)!Assumptions /\ Heap(AlignedSetup)!Assumptions
  /\ Device(DirectSetup)!Assumptions /\ Device(PoolSetup)!Assumptions
  /\ Device(PinnedSetup)!Assumptions
BY StrategyAssumptions

LEMMA BenchNames ==
  ASSUME BenchInv
  PROVE  strategy \in {"slab", "fixed_pool", "size_class_pool", "arena", "segregated_fit",
                       "system", "aligned", "cuda_direct", "cuda_pool", "pinned"}
BY StrategyAssumptions DEF BenchInv

LEMMA BenchStarts ==
  ASSUME BenchInit
  PROVE  BenchInv
<1>1. SlabInv
  BY SlabInit DEF BenchInit
<1>2. FixedInv
  BY FixedInit DEF BenchInit
<1>3. ClassInv
  BY ClassInit DEF BenchInit
<1>4. ArenaInv
  BY ArenaInit DEF BenchInit
<1>5. SegInv
  BY BenchAssumed, SegInit DEF BenchInit
<1>6. HeapInv(SystemSetup) /\ HeapInv(AlignedSetup)
  <2>1. Heap(SystemSetup)!Init
    BY DEF BenchInit
  <2>2. Heap(AlignedSetup)!Init
    BY <2>1 DEF Heap!Init, Heap!Empty
  <2>3. QED
    BY <2>1, <2>2, BenchAssumed, HeapInit
<1>7. DeviceInv(DirectSetup) /\ DeviceInv(PoolSetup) /\ DeviceInv(PinnedSetup)
  <2>1. Device(DirectSetup)!Init
    BY DEF BenchInit
  <2>2. Device(PoolSetup)!Init /\ Device(PinnedSetup)!Init
    BY <2>1 DEF Device!Init, Device!Empty
  <2>3. QED
    BY <2>1, <2>2, BenchAssumed, DeviceInit
<1>8. QED
  BY <1>1, <1>2, <1>3, <1>4, <1>5, <1>6, <1>7 DEF BenchInit, BenchInv

(* Every step is a step of the strategy on the bench.                      *)
LEMMA BenchMoves ==
  ASSUME BenchNext
  PROVE  /\ strategy' = strategy
         /\ strategy = "slab" => Next
         /\ strategy = "fixed_pool" => Fixed!Next
         /\ strategy = "size_class_pool" => Class!Next
         /\ strategy = "arena" => Arena!Next
         /\ strategy = "segregated_fit" => Segregated!Next
         /\ strategy = "system" => Heap(SystemSetup)!Next
         /\ strategy = "aligned" => Heap(AlignedSetup)!Next
         /\ strategy = "cuda_direct" => Device(DirectSetup)!Next
         /\ strategy = "cuda_pool" => Device(PoolSetup)!Next
         /\ strategy = "pinned" => Device(PinnedSetup)!Next
<1>1. CASE SlabStep
  BY <1>1 DEF SlabStep, hosted
<1>2. CASE FixedStep
  BY <1>2 DEF FixedStep, hosted
<1>3. CASE ClassStep
  BY <1>3 DEF ClassStep, hosted
<1>4. CASE ArenaStep
  BY <1>4 DEF ArenaStep, hosted
<1>5. CASE SegregatedStep
  BY <1>5 DEF SegregatedStep, hosted
<1>6. CASE HeapStep
  BY <1>6 DEF HeapStep, hosted
<1>7. CASE DeviceStep
  BY <1>7 DEF DeviceStep
<1>8. QED
  BY <1>1, <1>2, <1>3, <1>4, <1>5, <1>6, <1>7 DEF BenchNext

LEMMA BenchRests ==
  ASSUME UNCHANGED bench
  PROVE  /\ strategy' = strategy /\ next_id' = next_id /\ result' = result
         /\ UNCHANGED vars /\ UNCHANGED Fixed!vars /\ UNCHANGED Class!vars
         /\ UNCHANGED Arena!vars /\ UNCHANGED Segregated!vars
         /\ \A s : UNCHANGED Heap(s)!vars /\ UNCHANGED Device(s)!vars
         /\ Owned' = Owned
<1>1. /\ strategy' = strategy
      /\ UNCHANGED <<driver, leaked, slabs, growth, recovered, live, next_id, total_bytes,
                     live_count, live_bytes, requested, granted, result>>
      /\ UNCHANGED <<free_list, total_slots, closed, class_blocks, class_free_list>>
      /\ UNCHANGED <<base, current, cap, superblocks, header, bins, blocks>>
  BY DEF bench, hosted, device_only, vars, handles, fixed_only, class_only, arena_only,
         segregated_only
<1>2. UNCHANGED vars /\ UNCHANGED Fixed!vars /\ UNCHANGED Class!vars
  BY <1>1 DEF vars, handles, Fixed!vars, Fixed!slots, Fixed!gauges, Class!vars, Class!backing,
              Class!gauges
<1>3. UNCHANGED Arena!vars /\ UNCHANGED Segregated!vars
  BY <1>1 DEF Arena!vars, Arena!region, Arena!gauges, Segregated!vars, Segregated!heap,
              Segregated!gauges
<1>4. ASSUME NEW s
      PROVE  UNCHANGED Heap(s)!vars /\ UNCHANGED Device(s)!vars
  BY <1>1 DEF Heap!vars, Heap!gauges, Device!vars, Device!gauges
<1>5. Owned' = Owned
  BY <1>1 DEF Owned, extents, Fixed!extents, Class!extents, Arena!extents, Segregated!extents,
              Heap!extents, Heap!AtLeastOne, Device!extents
<1>6. QED
  BY <1>1, <1>2, <1>3, <1>4, <1>5

LEMMA BenchKept ==
  ASSUME BenchInv, [BenchNext]_bench
  PROVE  BenchInv'
<1>1. /\ strategy' = strategy
      /\ strategy = "slab" => Next \/ UNCHANGED vars
      /\ strategy = "fixed_pool" => Fixed!Next \/ UNCHANGED Fixed!vars
      /\ strategy = "size_class_pool" => Class!Next \/ UNCHANGED Class!vars
      /\ strategy = "arena" => Arena!Next \/ UNCHANGED Arena!vars
      /\ strategy = "segregated_fit" => Segregated!Next \/ UNCHANGED Segregated!vars
      /\ strategy = "system" => Heap(SystemSetup)!Next \/ UNCHANGED Heap(SystemSetup)!vars
      /\ strategy = "aligned" => Heap(AlignedSetup)!Next \/ UNCHANGED Heap(AlignedSetup)!vars
      /\ strategy = "cuda_direct" => Device(DirectSetup)!Next \/ UNCHANGED Device(DirectSetup)!vars
      /\ strategy = "cuda_pool" => Device(PoolSetup)!Next \/ UNCHANGED Device(PoolSetup)!vars
      /\ strategy = "pinned" => Device(PinnedSetup)!Next \/ UNCHANGED Device(PinnedSetup)!vars
  BY BenchMoves, BenchRests
<1>2. strategy = "slab" => SlabInv'
  BY <1>1, BenchAssumed, SlabNext, SlabStutter DEF BenchInv
<1>3. strategy = "fixed_pool" => FixedInv'
  BY <1>1, BenchAssumed, FixedNext, FixedStutter DEF BenchInv
<1>4. strategy = "size_class_pool" => ClassInv'
  BY <1>1, BenchAssumed, ClassNext, ClassStutter DEF BenchInv
<1>5. strategy = "arena" => ArenaInv'
  BY <1>1, BenchAssumed, ArenaNext, ArenaStutter DEF BenchInv
<1>6. strategy = "segregated_fit" => SegInv'
  BY <1>1, BenchAssumed, SegNext, SegStutter DEF BenchInv
<1>7. strategy = "system" => HeapInv(SystemSetup)'
  BY <1>1, BenchAssumed, HeapNext, HeapStutter DEF BenchInv
<1>8. strategy = "aligned" => HeapInv(AlignedSetup)'
  BY <1>1, BenchAssumed, HeapNext, HeapStutter DEF BenchInv
<1>9. strategy = "cuda_direct" => DeviceInv(DirectSetup)'
  BY <1>1, BenchAssumed, DeviceNext, DeviceStutter DEF BenchInv
<1>10. strategy = "cuda_pool" => DeviceInv(PoolSetup)'
  BY <1>1, BenchAssumed, DeviceNext, DeviceStutter DEF BenchInv
<1>11. strategy = "pinned" => DeviceInv(PinnedSetup)'
  BY <1>1, BenchAssumed, DeviceNext, DeviceStutter DEF BenchInv
<1>12. QED
  BY <1>1, <1>2, <1>3, <1>4, <1>5, <1>6, <1>7, <1>8, <1>9, <1>10, <1>11 DEF BenchInv

(* In every reachable state the strategy on the bench satisfies its        *)
(* inductive invariant, from which the theorems below take what they say.  *)
THEOREM BenchInductive ==
  BenchSpec => []BenchInv
<1>1. BenchInit => BenchInv
  BY BenchStarts
<1>2. BenchInv /\ [BenchNext]_bench => BenchInv'
  BY BenchKept
<1>3. QED
  BY <1>1, <1>2, PTL DEF BenchSpec

-----------------------------------------------------------------------------
(* What every strategy reports, while it is on the bench.                  *)
LEMMA BenchReports ==
  ASSUME BenchInv
  PROVE  BenchAccounting
<1>1. strategy \in {"slab", "fixed_pool", "size_class_pool", "arena", "segregated_fit",
                    "system", "aligned", "cuda_direct", "cuda_pool", "pinned"}
  BY BenchNames
<1>2. strategy = "slab" => TypeOK /\ Accounting
  BY BenchAssumed, SlabSound DEF BenchInv
<1>3. strategy = "fixed_pool" => Fixed!TypeOK /\ Fixed!WithinCapacity
  BY BenchAssumed, FixedSound DEF BenchInv
<1>4. strategy = "size_class_pool" => Class!TypeOK /\ Class!Accounting
  BY BenchAssumed, ClassSound DEF BenchInv
<1>5. strategy = "arena" => Arena!TypeOK /\ Arena!Accounting
  BY BenchAssumed, ArenaSound DEF BenchInv
<1>6. strategy = "segregated_fit" => Segregated!TypeOK /\ Segregated!Accounting
  BY BenchAssumed, SegSound DEF BenchInv
<1>7. strategy = "system" => Heap(SystemSetup)!TypeOK /\ Heap(SystemSetup)!Accounting
  BY BenchAssumed, HeapSound DEF BenchInv
<1>8. strategy = "aligned" => Heap(AlignedSetup)!TypeOK /\ Heap(AlignedSetup)!Accounting
  BY BenchAssumed, HeapSound DEF BenchInv
<1>9. strategy = "cuda_direct" => Device(DirectSetup)!TypeOK /\ Device(DirectSetup)!Accounting
  BY BenchAssumed, DeviceSound DEF BenchInv
<1>10. strategy = "cuda_pool" => Device(PoolSetup)!TypeOK /\ Device(PoolSetup)!Accounting
  BY BenchAssumed, DeviceSound DEF BenchInv
<1>11. strategy = "pinned" => Device(PinnedSetup)!TypeOK /\ Device(PinnedSetup)!Accounting
  BY BenchAssumed, DeviceSound DEF BenchInv
<1>12. BenchTypeOK
  BY Zenon, <1>1, <1>2, <1>3, <1>4, <1>5, <1>6, <1>7, <1>8, <1>9, <1>10, <1>11 DEF BenchTypeOK
<1>13. QED
  BY Zenon, <1>1, <1>2, <1>3, <1>4, <1>5, <1>6, <1>7, <1>8, <1>9, <1>10, <1>11, <1>12 DEF BenchAccounting

(* What statistics() of each of the ten strategies reports is what is held *)
(* and what is live, within the limits of its configuration, and its state *)
(* is of its type: for every setup, and every order of the calls.          *)
THEOREM BenchAccountingHolds ==
  BenchSpec => []BenchAccounting
<1>1. BenchInv => BenchAccounting
  BY BenchReports
<1>2. QED
  BY <1>1, BenchInductive, PTL

(* Slab, fixed pool, size-class pool: no slot is lost or handed out twice, *)
(* and none leaves its class: each is free once or live once, in a page or *)
(* block that is held.                                                     *)
THEOREM BenchSlotsConservedHolds ==
  BenchSpec => []BenchSlotsConserved
<1>1. ASSUME BenchInv
      PROVE  BenchSlotsConserved
  <2>1. strategy = "slab" => SlotsConserved
    BY <1>1, SlabSound DEF BenchInv
  <2>2. strategy = "fixed_pool" => Fixed!SlotsConserved
    BY <1>1, FixedSound DEF BenchInv
  <2>3. strategy = "size_class_pool" => Class!SlotsStayInClass
    BY <1>1, ClassSound DEF BenchInv
  <2>4. QED
    BY <2>1, <2>2, <2>3 DEF BenchSlotsConserved
<1>2. QED
  BY <1>1, BenchInductive, PTL

(* Arena and segregated fit: allocations lie in the arena's blocks below   *)
(* its pointer; the blocks of segregated fit tile their superblocks, split *)
(* and given back in whatever order, and its bins hold exactly the free    *)
(* ones, so that free() never meets a block already marked free.           *)
THEOREM BenchBlocksTileHolds ==
  BenchSpec => []BenchBlocksTile
<1>1. ASSUME BenchInv
      PROVE  BenchBlocksTile
  <2>1. strategy = "arena" => Arena!InsideBlocks
    BY <1>1, ArenaSound DEF BenchInv
  <2>2. strategy = "segregated_fit" => Segregated!BlocksTile /\ Segregated!BinsHoldFree
    BY <1>1, BenchAssumed, SegTiles, SegBinsSound DEF BenchInv
  <2>3. QED
    BY <2>1, <2>2 DEF BenchBlocksTile
<1>2. QED
  BY <1>1, BenchInductive, PTL

(* The records of the system and aligned strategies state an alignment the *)
(* memory has, after any reallocate() too; the arena gives at least the    *)
(* weakest alignment of its block.                                         *)
THEOREM BenchAlignedHolds ==
  BenchSpec => []BenchAligned
<1>1. ASSUME BenchInv
      PROVE  BenchAligned
  <2>1. strategy = "arena" => Arena!AlignedToWeakest
    BY <1>1, ArenaSound DEF BenchInv
  <2>2. strategy = "system" => Heap(SystemSetup)!RecordsAligned
    BY <1>1, BenchAssumed, HeapSound DEF BenchInv
  <2>3. strategy = "aligned" => Heap(AlignedSetup)!RecordsAligned
    BY <1>1, BenchAssumed, HeapSound DEF BenchInv
  <2>4. QED
    BY <2>1, <2>2, <2>3 DEF BenchAligned
<1>2. QED
  BY <1>1, BenchInductive, PTL

(* Segregated fit: find_block() starts at the bin of the logarithm of the  *)
(* size and so skips bins; it skips no block that is large enough, for     *)
(* requests up to a superblock.                                            *)
THEOREM SegregatedSearchCompleteHolds ==
  BenchSpec => []SegregatedSearchComplete
<1>1. ASSUME BenchInv
      PROVE  SegregatedSearchComplete
  BY <1>1, BenchAssumed, SegSearchComplete DEF BenchInv, SegregatedSearchComplete
<1>2. QED
  BY <1>1, BenchInductive, PTL

(* Fixed pool: allocate() answers capacity_exceeded only when a further    *)
(* block would pass the capacity, or after shutdown().                     *)
THEOREM FixedRefusesOnlyWhenFullHolds ==
  BenchSpec => FixedRefusesOnlyWhenFull
<1>1. ASSUME BenchInv, [BenchNext]_bench
      PROVE  [strategy = "fixed_pool" /\ ~ closed /\ result' = "capacity_exceeded" =>
                Fixed!Full]_bench
  <2>1. CASE BenchNext
    <3>1. SUFFICES ASSUME strategy = "fixed_pool", ~ closed, result' = "capacity_exceeded"
                   PROVE  Fixed!Full
      OBVIOUS
    <3>2. FixedInv /\ Fixed!Next
      BY <1>1, <2>1, <3>1, BenchMoves DEF BenchInv
    <3>3. QED
      BY <3>1, <3>2, FixedRefuses
  <2>2. QED
    BY <1>1, <2>1
<1>2. QED
  BY <1>1, BenchInductive, PTL DEF BenchSpec, FixedRefusesOnlyWhenFull

-----------------------------------------------------------------------------
(* The contract.                                                           *)
LEMMA BenchHeld ==
  ASSUME BenchInv
  PROVE  Held(Owned, next_id)
<1>1. strategy \in {"slab", "fixed_pool", "size_class_pool", "arena", "segregated_fit",
                    "system", "aligned", "cuda_direct", "cuda_pool", "pinned"}
  BY BenchNames
<1>2. ASSUME strategy = "slab"
      PROVE  Owned = extents /\ Held(extents, next_id)
  BY <1>2, BenchAssumed, SlabHeld DEF BenchInv, Owned
<1>3. ASSUME strategy = "fixed_pool"
      PROVE  Owned = Fixed!extents /\ Held(Fixed!extents, next_id)
  BY <1>3, BenchAssumed, FixedHeld DEF BenchInv, Owned
<1>4. ASSUME strategy = "size_class_pool"
      PROVE  Owned = Class!extents /\ Held(Class!extents, next_id)
  BY <1>4, BenchAssumed, ClassHeld DEF BenchInv, Owned
<1>5. ASSUME strategy = "arena"
      PROVE  Owned = Arena!extents /\ Held(Arena!extents, next_id)
  BY <1>5, BenchAssumed, ArenaHeld DEF BenchInv, Owned
<1>6. ASSUME strategy = "segregated_fit"
      PROVE  Owned = Segregated!extents /\ Held(Segregated!extents, next_id)
  BY <1>6, BenchAssumed, SegExtentsHeld DEF BenchInv, Owned
<1>7. ASSUME strategy = "system"
      PROVE  Owned = Heap(SystemSetup)!extents /\ Held(Heap(SystemSetup)!extents, next_id)
  BY <1>7, BenchAssumed, HeapHeld DEF BenchInv, Owned
<1>8. ASSUME strategy = "aligned"
      PROVE  Owned = Heap(AlignedSetup)!extents /\ Held(Heap(AlignedSetup)!extents, next_id)
  BY <1>8, BenchAssumed, HeapHeld DEF BenchInv, Owned
<1>9. ASSUME strategy = "cuda_direct"
      PROVE  Owned = Device(DirectSetup)!extents /\ Held(Device(DirectSetup)!extents, next_id)
  BY <1>9, BenchAssumed, DeviceHeld DEF BenchInv, Owned
<1>10. ASSUME strategy = "cuda_pool"
      PROVE  Owned = Device(PoolSetup)!extents /\ Held(Device(PoolSetup)!extents, next_id)
  BY <1>10, BenchAssumed, DeviceHeld DEF BenchInv, Owned
<1>11. ASSUME strategy = "pinned"
      PROVE  Owned = Device(PinnedSetup)!extents /\ Held(Device(PinnedSetup)!extents, next_id)
  BY <1>11, BenchAssumed, DeviceHeld DEF BenchInv, Owned
<1>12. QED
  BY <1>1, <1>2, <1>3, <1>4, <1>5, <1>6, <1>7, <1>8, <1>9, <1>10, <1>11

LEMMA BenchSteps ==
  ASSUME BenchInv, BenchNext
  PROVE  /\ Steps(Owned, Owned', next_id, next_id')
         /\ next_id' = next_id \/ next_id' \in Ids
<1>1. strategy \in {"slab", "fixed_pool", "size_class_pool", "arena", "segregated_fit",
                    "system", "aligned", "cuda_direct", "cuda_pool", "pinned"}
  BY BenchNames
<1>2. strategy' = strategy
  BY BenchMoves
<1>3. \A n \in {MaxIds, FixedSetup.ids, ClassSetup.ids, ArenaSetup.ids, SegregatedSetup.ids,
                SystemSetup.ids, AlignedSetup.ids, DirectSetup.ids, PoolSetup.ids,
                PinnedSetup.ids} : 1..n \subseteq Ids
  BY DEF Ids
<1>4. ASSUME strategy = "slab"
      PROVE  /\ Steps(Owned, Owned', next_id, next_id')
             /\ next_id' = next_id \/ next_id' \in 1..MaxIds
  <2>1. Owned = extents /\ Owned' = extents'
    BY <1>2, <1>4 DEF Owned
  <2>2. SlabInv /\ Next
    BY <1>4, BenchMoves DEF BenchInv
  <2>3. /\ Steps(extents, extents', next_id, next_id')
        /\ next_id' = next_id \/ next_id' \in 1..MaxIds
    BY <2>2, BenchAssumed, SlabSteps
  <2>4. QED
    BY <2>1, <2>3
<1>5. ASSUME strategy = "fixed_pool"
      PROVE  /\ Steps(Owned, Owned', next_id, next_id')
             /\ next_id' = next_id \/ next_id' \in 1..FixedSetup.ids
  <2>1. Owned = Fixed!extents /\ Owned' = Fixed!extents'
    BY <1>2, <1>5 DEF Owned
  <2>2. FixedInv /\ Fixed!Next
    BY <1>5, BenchMoves DEF BenchInv
  <2>3. /\ Steps(Fixed!extents, Fixed!extents', next_id, next_id')
        /\ next_id' = next_id \/ next_id' \in 1..FixedSetup.ids
    BY <2>2, BenchAssumed, FixedSteps
  <2>4. QED
    BY <2>1, <2>3
<1>6. ASSUME strategy = "size_class_pool"
      PROVE  /\ Steps(Owned, Owned', next_id, next_id')
             /\ next_id' = next_id \/ next_id' \in 1..ClassSetup.ids
  <2>1. Owned = Class!extents /\ Owned' = Class!extents'
    BY <1>2, <1>6 DEF Owned
  <2>2. ClassInv /\ Class!Next
    BY <1>6, BenchMoves DEF BenchInv
  <2>3. /\ Steps(Class!extents, Class!extents', next_id, next_id')
        /\ next_id' = next_id \/ next_id' \in 1..ClassSetup.ids
    BY <2>2, BenchAssumed, ClassSteps
  <2>4. QED
    BY <2>1, <2>3
<1>7. ASSUME strategy = "arena"
      PROVE  /\ Steps(Owned, Owned', next_id, next_id')
             /\ next_id' = next_id \/ next_id' \in 1..ArenaSetup.ids
  <2>1. Owned = Arena!extents /\ Owned' = Arena!extents'
    BY <1>2, <1>7 DEF Owned
  <2>2. ArenaInv /\ Arena!Next
    BY <1>7, BenchMoves DEF BenchInv
  <2>3. /\ Steps(Arena!extents, Arena!extents', next_id, next_id')
        /\ next_id' = next_id \/ next_id' \in 1..ArenaSetup.ids
    BY <2>2, BenchAssumed, ArenaSteps
  <2>4. QED
    BY <2>1, <2>3
<1>8. ASSUME strategy = "segregated_fit"
      PROVE  /\ Steps(Owned, Owned', next_id, next_id')
             /\ next_id' = next_id \/ next_id' \in 1..SegregatedSetup.ids
  <2>1. Owned = Segregated!extents /\ Owned' = Segregated!extents'
    BY <1>2, <1>8 DEF Owned
  <2>2. SegInv /\ Segregated!Next
    BY <1>8, BenchMoves DEF BenchInv
  <2>3. /\ Steps(Segregated!extents, Segregated!extents', next_id, next_id')
        /\ next_id' = next_id \/ next_id' \in 1..SegregatedSetup.ids
    BY <2>2, BenchAssumed, SegSteps
  <2>4. QED
    BY <2>1, <2>3
<1>9. ASSUME strategy = "system"
      PROVE  /\ Steps(Owned, Owned', next_id, next_id')
             /\ next_id' = next_id \/ next_id' \in 1..SystemSetup.ids
  <2>1. Owned = Heap(SystemSetup)!extents /\ Owned' = Heap(SystemSetup)!extents'
    BY <1>2, <1>9 DEF Owned
  <2>2. HeapInv(SystemSetup) /\ Heap(SystemSetup)!Next
    BY <1>9, BenchMoves DEF BenchInv
  <2>3. /\ Steps(Heap(SystemSetup)!extents, Heap(SystemSetup)!extents', next_id, next_id')
        /\ next_id' = next_id \/ next_id' \in 1..SystemSetup.ids
    BY <2>2, BenchAssumed, HeapSteps
  <2>4. QED
    BY <2>1, <2>3
<1>10. ASSUME strategy = "aligned"
      PROVE  /\ Steps(Owned, Owned', next_id, next_id')
             /\ next_id' = next_id \/ next_id' \in 1..AlignedSetup.ids
  <2>1. Owned = Heap(AlignedSetup)!extents /\ Owned' = Heap(AlignedSetup)!extents'
    BY <1>2, <1>10 DEF Owned
  <2>2. HeapInv(AlignedSetup) /\ Heap(AlignedSetup)!Next
    BY <1>10, BenchMoves DEF BenchInv
  <2>3. /\ Steps(Heap(AlignedSetup)!extents, Heap(AlignedSetup)!extents', next_id, next_id')
        /\ next_id' = next_id \/ next_id' \in 1..AlignedSetup.ids
    BY <2>2, BenchAssumed, HeapSteps
  <2>4. QED
    BY <2>1, <2>3
<1>11. ASSUME strategy = "cuda_direct"
      PROVE  /\ Steps(Owned, Owned', next_id, next_id')
             /\ next_id' = next_id \/ next_id' \in 1..DirectSetup.ids
  <2>1. Owned = Device(DirectSetup)!extents /\ Owned' = Device(DirectSetup)!extents'
    BY <1>2, <1>11 DEF Owned
  <2>2. DeviceInv(DirectSetup) /\ Device(DirectSetup)!Next
    BY <1>11, BenchMoves DEF BenchInv
  <2>3. /\ Steps(Device(DirectSetup)!extents, Device(DirectSetup)!extents', next_id, next_id')
        /\ next_id' = next_id \/ next_id' \in 1..DirectSetup.ids
    BY <2>2, BenchAssumed, DeviceSteps
  <2>4. QED
    BY <2>1, <2>3
<1>12. ASSUME strategy = "cuda_pool"
      PROVE  /\ Steps(Owned, Owned', next_id, next_id')
             /\ next_id' = next_id \/ next_id' \in 1..PoolSetup.ids
  <2>1. Owned = Device(PoolSetup)!extents /\ Owned' = Device(PoolSetup)!extents'
    BY <1>2, <1>12 DEF Owned
  <2>2. DeviceInv(PoolSetup) /\ Device(PoolSetup)!Next
    BY <1>12, BenchMoves DEF BenchInv
  <2>3. /\ Steps(Device(PoolSetup)!extents, Device(PoolSetup)!extents', next_id, next_id')
        /\ next_id' = next_id \/ next_id' \in 1..PoolSetup.ids
    BY <2>2, BenchAssumed, DeviceSteps
  <2>4. QED
    BY <2>1, <2>3
<1>13. ASSUME strategy = "pinned"
      PROVE  /\ Steps(Owned, Owned', next_id, next_id')
             /\ next_id' = next_id \/ next_id' \in 1..PinnedSetup.ids
  <2>1. Owned = Device(PinnedSetup)!extents /\ Owned' = Device(PinnedSetup)!extents'
    BY <1>2, <1>13 DEF Owned
  <2>2. DeviceInv(PinnedSetup) /\ Device(PinnedSetup)!Next
    BY <1>13, BenchMoves DEF BenchInv
  <2>3. /\ Steps(Device(PinnedSetup)!extents, Device(PinnedSetup)!extents', next_id, next_id')
        /\ next_id' = next_id \/ next_id' \in 1..PinnedSetup.ids
    BY <2>2, BenchAssumed, DeviceSteps
  <2>4. QED
    BY <2>1, <2>3
<1>14. QED
  BY <1>1, <1>3, <1>4, <1>5, <1>6, <1>7, <1>8, <1>9, <1>10, <1>11, <1>12, <1>13

(* Each of the ten strategies implements the allocator contract: every     *)
(* handle it gives out is new, and its memory is its own until it is freed *)
(* or the strategy is reset.                                               *)
THEOREM BenchImplementsContract ==
  BenchSpec => EveryStrategyImplementsContract
<1>1. ASSUME BenchInit
      PROVE  Contract!Init
  <2>1. next_id = 0 /\ live = [x \in {} |-> 0]
    BY <1>1 DEF BenchInit, Init, Empty
  <2>2. strategy \in {"slab", "fixed_pool", "size_class_pool", "arena", "segregated_fit",
                      "system", "aligned", "cuda_direct", "cuda_pool", "pinned"}
    BY <1>1, BenchStarts, BenchNames
  <2>3. Owned = [h \in {} |-> {}]
    <3>1. DOMAIN live = {}
      BY <2>1
    <3>2. \A s : Heap(s)!extents = [h \in {} |-> {}] /\ Device(s)!extents = [h \in {} |-> {}]
      BY <3>1 DEF Heap!extents, Device!extents
    <3>3. /\ extents = [h \in {} |-> {}] /\ Fixed!extents = [h \in {} |-> {}]
          /\ Class!extents = [h \in {} |-> {}] /\ Arena!extents = [h \in {} |-> {}]
          /\ Segregated!extents = [h \in {} |-> {}]
      BY <3>1 DEF extents, Fixed!extents, Class!extents, Arena!extents, Segregated!extents
    <3>4. QED
      BY <2>2, <3>2, <3>3 DEF Owned
  <2>4. 1..next_id = {}
    BY <2>1
  <2>5. QED
    BY <2>3, <2>4 DEF Contract!Init
<1>2. ASSUME BenchInv, [BenchNext]_bench
      PROVE  [Contract!Next]_(Contract!cvars)
  <2>1. CASE UNCHANGED bench
    BY <2>1, BenchRests DEF Contract!cvars
  <2>2. CASE BenchNext
    <3>1. /\ Steps(Owned, Owned', next_id, next_id')
          /\ next_id' = next_id \/ next_id' \in Ids
      BY <1>2, <2>2, BenchSteps
    <3>2. Held(Owned, next_id)
      BY <1>2, BenchHeld
    <3>3. Held(Owned, next_id)'
      <4>1. BenchInv'
        BY <1>2, BenchKept
      <4>2. (BenchInv => Held(Owned, next_id))'
        BY BenchHeld, PTL
      <4>3. QED
        BY <4>1, <4>2
    <3>4. PICK e : e = Owned
      OBVIOUS
    <3>5. PICK f : f = Owned'
      OBVIOUS
    <3>6. PICK m : m = next_id
      OBVIOUS
    <3>7. PICK n : n = next_id'
      OBVIOUS
    <3>8. /\ Held(e, m) /\ Steps(e, f, m, n) /\ (n \in Ids \/ n = m)
      BY <3>1, <3>2, <3>4, <3>5, <3>6, <3>7
    <3>9. Held(f, n)
      BY <3>3, <3>5, <3>7
    <3>10. QED
      BY <3>4, <3>5, <3>6, <3>7, <3>8, <3>9, ContractKept
  <2>3. QED
    BY <1>2, <2>1, <2>2
<1>3. QED
  BY <1>1, <1>2, BenchInductive, PTL
     DEF BenchSpec, EveryStrategyImplementsContract, Contract!Spec
=============================================================================
