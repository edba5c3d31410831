-------------------------- MODULE SharedStateProofs --------------------------
(***************************************************************************)
(* Theorems of what several threads or processes change at once.           *)
(*                                                                         *)
(* EventLog, for every number of threads that emit, every set of sinks,    *)
(* calling back or not, every capacity and number of events.               *)
(* AllocatorRegistry, for every set of strategies, whatever ids they bring *)
(* along and whatever ids callers ask for.  RegionAllocator, for every     *)
(* number of processes, every size of region and header, every set of      *)
(* requests, and however often processes die and come again.               *)
(***************************************************************************)
EXTENDS EventLog, AllocatorRegistry, RegionAllocator, FiniteSetTheorems, TLAPS

-----------------------------------------------------------------------------
(* The event log.  Numbers are taken without the lock and recorded in      *)
(* another order, so everything rests on where the threads are: a number   *)
(* taken belongs to one emit() under way, or to none any more.             *)

Place == {"idle", "numbered", "recording", "recorded", "copying", "calling", "called back"}
Slot == [at : Place, id : Nat, whole : BOOLEAN, to : Sink \cup {NoSink}]
Word == [id : Nat, whole : BOOLEAN]

Typed ==
  /\ log_ids \in Nat /\ log_ids <= MaxEvents /\ log \in Seq(Nat)
  /\ dropped \in Nat /\ forgotten \in Nat
  /\ sink_since \in Nat /\ sink_since <= log_ids
  /\ sink \in Sink \cup {NoSink} /\ holder \in Emitter \cup {NoOne}
  /\ emit \in [Emitter -> Slot]
  /\ heard \in [Sink -> Seq(Word)]

(* Each emit() under way has a number of its own.                          *)
Numbered ==
  /\ \A i \in 1..Len(log) : log[i] \in 1..log_ids
  /\ \A s \in Sink : \A i \in 1..Len(heard[s]) : heard[s][i].id \in 1..log_ids
  /\ \A t \in Emitter : IF At(t, "idle") THEN emit[t] = Idle ELSE emit[t].id \in 1..log_ids
  /\ \A t, u \in Emitter :
       t # u /\ ~ At(t, "idle") /\ ~ At(u, "idle") => emit[t].id # emit[u].id

(* Before the sink has been called.                                        *)
Unheard(t) == ~ At(t, "idle") /\ ~ At(t, "called back")

(* What an emit() that has not recorded its event adds to Unrecorded.      *)
Waiting(t) == At(t, "numbered") \/ At(t, "recording")

(* The log has no number twice, and none of an event that still has its    *)
(* message.                                                                *)
Logged ==
  /\ Len(log) <= Capacity
  /\ \A i, j \in 1..Len(log) : i # j => log[i] # log[j]
  /\ \A t \in Emitter : Waiting(t) => emit[t].whole = TRUE
  /\ \A t \in Emitter : Unheard(t) /\ emit[t].whole = TRUE
       => \A i \in 1..Len(log) : log[i] # emit[t].id

(* No event is heard of twice, by whatever sinks, nor before its emit()    *)
(* calls the sink; with its message only if the log does not have it.      *)
Hearing ==
  /\ \A r, s \in Sink : \A i \in 1..Len(heard[r]), j \in 1..Len(heard[s]) :
       r # s \/ i # j => heard[r][i].id # heard[s][j].id
  /\ \A s \in Sink : \A i \in 1..Len(heard[s]) :
       /\ \A t \in Emitter : Unheard(t) => emit[t].id # heard[s][i].id
       /\ heard[s][i].whole = TRUE => \A j \in 1..Len(log) : log[j] # heard[s][i].id

HasHeard(s, n) == \E i \in 1..Len(heard[s]) : heard[s][i].id = n

(* An emit() that began after the sink was set calls that sink, and a sink *)
(* that stays has heard of what is no longer under way.                    *)
Reaching ==
  /\ \A t \in Emitter :
       (At(t, "calling") \/ At(t, "called back")) /\ emit[t].id > sink_since => emit[t].to = sink
  /\ \A t \in Emitter :
       At(t, "called back") => emit[t].to \in Sink /\ HasHeard(emit[t].to, emit[t].id)
  /\ sink \in Sink =>
       \A n \in Nat : sink_since < n /\ n <= log_ids =>
         HasHeard(sink, n) \/ \E t \in Emitter : ~ At(t, "idle") /\ emit[t].id = n

Counted ==
  /\ IsFiniteSet(Unrecorded)
  /\ Len(log) + dropped + forgotten + Cardinality(Unrecorded) = log_ids

IInv == Typed /\ Numbered /\ Logged /\ Hearing /\ Reaching /\ Counted

-----------------------------------------------------------------------------
LEMMA IdleSlot == Idle \in Slot /\ Idle.at = "idle" /\ Idle.whole /\ Idle.id = 0
BY DEF Idle, Slot, Place

LEMMA SlotNumbered ==
  ASSUME NEW slot \in Slot, NEW n \in Nat
  PROVE  [slot EXCEPT !.at = "numbered", !.id = n] \in Slot
BY DEF Slot, Place

LEMMA InitIInv == LogAssumptions /\ LogInit => IInv
<1> SUFFICES ASSUME LogAssumptions, LogInit PROVE IInv
  OBVIOUS
<1>1. \A t \in Emitter : emit[t] = Idle /\ At(t, "idle")
  BY DEF LogInit, Idle, At
<1>2. Typed
  BY IdleSlot DEF Typed, LogInit, Word, LogAssumptions
<1>3. Unrecorded = {}
  BY <1>1 DEF Unrecorded, At, Idle
<1>4. Counted
  BY <1>3, FS_EmptySet DEF Counted, LogInit
<1>5. /\ log = <<>> /\ Len(log) = 0 /\ log_ids = 0 /\ sink_since = 0
      /\ sink = NoSink /\ NoSink \notin Sink
      /\ \A s \in Sink : heard[s] = <<>> /\ Len(heard[s]) = 0
  BY DEF LogInit, LogAssumptions
<1>6. \A t \in Emitter :
        ~ Unheard(t) /\ ~ Waiting(t) /\ ~ At(t, "calling") /\ ~ At(t, "called back")
  BY <1>1 DEF Unheard, Waiting, At, Idle
<1>7. Numbered
  BY <1>1, <1>5 DEF Numbered
<1>8. /\ \A i \in 1..Len(log) : FALSE
      /\ \A s \in Sink : \A i \in 1..Len(heard[s]) : FALSE
  BY <1>5
<1>9. Logged
  <2>1. Len(log) <= Capacity
    BY <1>5 DEF LogAssumptions
  <2>2. \A i, j \in 1..Len(log) : i # j => log[i] # log[j]
    BY <1>8
  <2>3. \A t \in Emitter : Waiting(t) => emit[t].whole = TRUE
    BY <1>6
  <2>4. \A t \in Emitter : Unheard(t) /\ emit[t].whole = TRUE
           => \A i \in 1..Len(log) : log[i] # emit[t].id
    BY <1>6
  <2>5. QED
    BY <2>1, <2>2, <2>3, <2>4 DEF Logged
<1>10. Hearing
  BY <1>8 DEF Hearing
<1>11. Reaching
  BY <1>5, <1>6 DEF Reaching
<1>12. QED
  BY <1>2, <1>4, <1>7, <1>9, <1>10, <1>11 DEF IInv

LEMMA HeardFacts ==
  ASSUME Typed, NEW s \in Sink
  PROVE  /\ Len(heard[s]) \in Nat
         /\ \A i \in 1..Len(heard[s]) :
              heard[s][i] \in Word /\ heard[s][i].id \in Nat /\ heard[s][i].whole \in BOOLEAN
<1>1. heard[s] \in Seq(Word)
  BY DEF Typed
<1>2. \A i \in 1..Len(heard[s]) : heard[s][i] \in Word
  BY <1>1
<1>3. QED
  BY <1>1, <1>2 DEF Word

LEMMA SameUnrecorded ==
  ASSUME \A u \in Emitter : Waiting(u)' <=> Waiting(u),
         \A u \in Emitter : Waiting(u) => emit'[u].id = emit[u].id
  PROVE  Unrecorded' = Unrecorded
BY DEF Unrecorded, Waiting

(* A step of thread t that leaves numbers, log and sink alone.             *)
LEMMA SlotChanged ==
  ASSUME Typed, NEW t \in Emitter, NEW slot, emit' = [emit EXCEPT ![t] = slot]
  PROVE  emit'[t] = slot /\ \A u \in Emitter : u # t => emit'[u] = emit[u]
BY DEF Typed

LEMMA TakeNumberStep ==
  ASSUME LogAssumptions, IInv, NEW t \in Emitter, TakeNumber(t)
  PROVE  IInv'
<1> DEFINE slot == [Idle EXCEPT !.at = "numbered", !.id = log_ids + 1]
<1>1. /\ log_ids' = log_ids + 1 /\ log_ids \in Nat /\ log_ids < MaxEvents /\ MaxEvents \in Nat
      /\ emit' = [emit EXCEPT ![t] = slot]
      /\ UNCHANGED <<log, dropped, sink, holder, forgotten, heard, sink_since>>
  BY DEF TakeNumber, IInv, Typed, LogAssumptions
<1>2. /\ slot.at = "numbered" /\ slot.id = log_ids + 1 /\ slot.whole = TRUE /\ slot.to = NoSink
      /\ slot \in Slot
  <2>1. slot.at = "numbered" /\ slot.id = log_ids + 1 /\ slot.whole = TRUE /\ slot.to = NoSink
    BY <1>1 DEF Idle
  <2>2. Idle \in Slot /\ log_ids + 1 \in Nat
    BY <1>1, IdleSlot
  <2>3. slot \in Slot
    BY <2>2, SlotNumbered
  <2>4. QED
    BY <2>1, <2>3
<1> HIDE DEF slot
<1>3. emit'[t] = slot /\ \A u \in Emitter : u # t => emit'[u] = emit[u]
  BY <1>1, SlotChanged DEF IInv
<1>4. At(t, "idle")
  BY DEF TakeNumber
<1>5. Typed'
  <2>1. /\ log_ids' \in Nat /\ log_ids' <= MaxEvents /\ sink_since <= log_ids'
    BY <1>1 DEF IInv, Typed
  <2>2. emit' \in [Emitter -> Slot]
    BY <1>1, <1>2 DEF IInv, Typed
  <2>3. holder' = holder
    BY <1>1
  <2>4. QED
    BY <1>1, <2>1, <2>2, <2>3 DEF IInv, Typed
<1>6. Numbered'
  <2>1. \A u \in Emitter : ~ At(u, "idle")' => emit'[u].id \in 1..log_ids'
    BY <1>1, <1>2, <1>3 DEF IInv, Numbered, At
  <2>2. \A u \in Emitter : At(u, "idle")' => emit'[u] = Idle
    BY <1>2, <1>3 DEF IInv, Numbered, At
  <2>3. \A u, v \in Emitter :
          u # v /\ ~ At(u, "idle")' /\ ~ At(v, "idle")' => emit'[u].id # emit'[v].id
    BY <1>1, <1>2, <1>3 DEF IInv, Numbered, At
  <2>4. QED
    BY <1>1, <2>1, <2>2, <2>3 DEF IInv, Numbered, At, Typed
<1>7. Logged'
  <2>1. \A i \in 1..Len(log) : log[i] # log_ids + 1
    BY <1>1 DEF IInv, Numbered
  <2>2. \A u \in Emitter : u # t => Unheard(u)' = Unheard(u) /\ Waiting(u)' = Waiting(u)
    BY <1>3 DEF Unheard, Waiting, At
  <2>3. QED
    BY <1>1, <1>2, <1>3, <2>1, <2>2 DEF IInv, Logged
<1>8. Hearing'
  <2>1. ASSUME NEW s \in Sink, NEW i \in 1..Len(heard[s]), NEW u \in Emitter, Unheard(u)'
        PROVE  emit'[u].id # heard[s][i].id
    <3>1. heard[s][i].id # log_ids + 1
      BY <1>1 DEF IInv, Numbered
    <3>2. CASE u = t
      BY <1>2, <1>3, <3>1, <3>2
    <3>3. CASE u # t
      <4>1. Unheard(u) /\ emit'[u] = emit[u]
        BY <1>3, <2>1, <3>3 DEF Unheard, At
      <4>2. QED
        BY <4>1 DEF IInv, Hearing
    <3>4. QED
      BY <3>2, <3>3
  <2>2. QED
    BY <1>1, <2>1 DEF IInv, Hearing
<1>9. Reaching'
  <2>1. ASSUME sink \in Sink, NEW n \in Nat, sink_since < n, n <= log_ids + 1, ~ HasHeard(sink, n)
        PROVE  \E u \in Emitter : ~ At(u, "idle")' /\ emit'[u].id = n
    <3>1. CASE n = log_ids + 1
      BY <1>2, <1>3, <3>1 DEF At
    <3>2. CASE n <= log_ids
      <4>1. PICK u \in Emitter : ~ At(u, "idle") /\ emit[u].id = n
        BY <2>1, <3>2 DEF IInv, Reaching
      <4>2. QED
        BY <1>3, <1>4, <4>1 DEF At
    <3>3. QED
      BY <1>1, <2>1, <3>1, <3>2
  <2>2. \A u \in Emitter : (At(u, "calling") \/ At(u, "called back"))' =>
          (At(u, "calling") \/ At(u, "called back")) /\ emit'[u] = emit[u]
    BY <1>2, <1>3 DEF At
  <2>3. \A r \in Sink, n \in Nat : HasHeard(r, n)' <=> HasHeard(r, n)
    BY <1>1 DEF HasHeard
  <2>4. \A u \in Emitter : At(u, "called back")' => At(u, "called back") /\ emit'[u] = emit[u]
    BY <1>2, <1>3 DEF At
  <2>5. \A u \in Emitter : emit[u].id \in Nat
    BY DEF IInv, Typed, Slot
  <2>6. QED
    BY <1>1, <2>1, <2>2, <2>3, <2>4, <2>5 DEF IInv, Reaching
<1>10. Counted'
  <2>1. Unrecorded' = Unrecorded \cup {log_ids + 1}
    BY <1>2, <1>3, <1>4 DEF Unrecorded, At
  <2>2. log_ids + 1 \notin Unrecorded
    BY <1>1 DEF Unrecorded, IInv, Numbered, At
  <2>3. QED
    <3>1. /\ IsFiniteSet(Unrecorded) /\ Cardinality(Unrecorded) \in Nat
          /\ Len(log) + dropped + forgotten + Cardinality(Unrecorded) = log_ids
      BY FS_CardinalityType DEF IInv, Counted
    <3>2. /\ IsFiniteSet(Unrecorded')
          /\ Cardinality(Unrecorded') = Cardinality(Unrecorded) + 1
      BY <2>1, <2>2, <3>1, FS_AddElement
    <3>3. Len(log) \in Nat /\ dropped \in Nat /\ forgotten \in Nat
      BY DEF IInv, Typed
    <3>4. QED
      BY <1>1, <3>1, <3>2, <3>3 DEF Counted
<1>11. QED
  BY <1>5, <1>6, <1>7, <1>8, <1>9, <1>10 DEF IInv

(* A step of emit() that records nothing and calls nobody, or of clear():  *)
(* the log is as before or empty.                                          *)
Quiet ==
  /\ UNCHANGED <<log_ids, sink, heard, sink_since>>
  /\ holder' \in Emitter \cup {NoOne} /\ dropped' \in Nat /\ forgotten' \in Nat
  /\ log' = log \/ log' = <<>>
  /\ Len(log') + dropped' + forgotten' = Len(log) + dropped + forgotten

(* What becomes of an emit() in such a step.                               *)
Onward(u) ==
  /\ emit'[u].at # "idle" => emit[u].at # "idle" /\ emit'[u].id = emit[u].id
  /\ emit'[u].at = "idle" => emit'[u] = Idle
  /\ Unheard(u)' => Unheard(u) /\ emit'[u].whole = emit[u].whole
  /\ Waiting(u)' <=> Waiting(u)
  /\ emit'[u].at \in {"calling", "called back"} /\ emit[u].id > sink_since => emit'[u].to = sink
  /\ emit'[u].at = "called back" => emit'[u] = emit[u]
  /\ emit'[u].at = "idle" /\ emit[u].at # "idle" =>
       emit[u].id <= sink_since \/ sink \notin Sink \/ HasHeard(sink, emit[u].id)

LEMMA QuietStep ==
  ASSUME LogAssumptions, IInv, Quiet, emit' \in [Emitter -> Slot], \A u \in Emitter : Onward(u)
  PROVE  IInv'
<1>1. \A u \in Emitter : emit[u].id \in Nat /\ emit'[u].id \in Nat
  BY DEF IInv, Typed, Slot
<1>2. Len(log) \in Nat /\ Len(log') \in Nat /\ Len(log') <= Len(log) /\ log' \in Seq(Nat)
  <2>1. log \in Seq(Nat) /\ Len(log) \in Nat
    BY DEF IInv, Typed
  <2>2. <<>> \in Seq(Nat) /\ Len(<<>>) = 0
    OBVIOUS
  <2>3. CASE log' = log
    BY <2>1, <2>3
  <2>4. CASE log' = <<>>
    BY <2>1, <2>2, <2>4
  <2>5. QED
    BY <2>3, <2>4 DEF Quiet
<1>3. \A i \in 1..Len(log') : i \in 1..Len(log) /\ log'[i] = log[i]
  BY <1>2 DEF Quiet
<1>4. Typed'
  BY <1>2 DEF IInv, Typed, Quiet
<1>5. Numbered'
  <2>1. \A i \in 1..Len(log') : log'[i] \in 1..log_ids
    BY <1>3 DEF IInv, Numbered
  <2>2. \A u \in Emitter : IF emit'[u].at = "idle" THEN emit'[u] = Idle
                                                   ELSE emit'[u].id \in 1..log_ids
    BY DEF IInv, Numbered, Onward, At
  <2>3. ASSUME NEW u \in Emitter, NEW v \in Emitter, u # v,
               emit'[u].at # "idle", emit'[v].at # "idle"
        PROVE  emit'[u].id # emit'[v].id
    <3>1. emit[u].at # "idle" /\ emit'[u].id = emit[u].id
      BY <2>3 DEF Onward
    <3>2. emit[v].at # "idle" /\ emit'[v].id = emit[v].id
      BY <2>3 DEF Onward
    <3>3. QED
      BY <2>3, <3>1, <3>2 DEF IInv, Numbered, At
  <2>4. QED
    BY <2>1, <2>2, <2>3 DEF IInv, Numbered, Quiet, At
<1>6. Logged'
  <2>1. \A u \in Emitter : Waiting(u)' => emit'[u].whole = TRUE
    BY DEF IInv, Logged, Onward, Unheard, Waiting, At
  <2>2. ASSUME NEW u \in Emitter, Unheard(u)', emit'[u].whole = TRUE, NEW i \in 1..Len(log')
        PROVE  log'[i] # emit'[u].id
    <3>1. Unheard(u) /\ emit[u].whole = TRUE /\ emit'[u].id = emit[u].id
      BY <2>2 DEF Onward, Unheard, At
    <3>2. QED
      BY <1>3, <2>2, <3>1 DEF IInv, Logged
  <2>3. Len(log') <= Capacity
    BY <1>2 DEF IInv, Logged, LogAssumptions
  <2>4. \A i, j \in 1..Len(log') : i # j => log'[i] # log'[j]
    BY <1>3 DEF IInv, Logged
  <2>5. QED
    BY <2>1, <2>2, <2>3, <2>4 DEF Logged
<1>7. Hearing'
  <2>1. heard' = heard
    BY DEF Quiet
  <2>2. ASSUME NEW r \in Sink, NEW i \in 1..Len(heard[r]), NEW u \in Emitter, Unheard(u)'
        PROVE  emit'[u].id # heard[r][i].id
    <3>1. Unheard(u) /\ emit'[u].id = emit[u].id
      BY <2>2 DEF Onward, Unheard, At
    <3>2. QED
      BY <3>1 DEF IInv, Hearing
  <2>3. ASSUME NEW r \in Sink, NEW i \in 1..Len(heard[r]), heard[r][i].whole = TRUE,
               NEW j \in 1..Len(log')
        PROVE  log'[j] # heard[r][i].id
    BY <1>3, <2>3 DEF IInv, Hearing
  <2>4. \A r, q \in Sink : \A i \in 1..Len(heard[r]), j \in 1..Len(heard[q]) :
          r # q \/ i # j => heard[r][i].id # heard[q][j].id
    BY DEF IInv, Hearing
  <2>5. \A r \in Sink : \A i \in 1..Len(heard[r]) :
          /\ \A u \in Emitter : Unheard(u)' => emit'[u].id # heard[r][i].id
          /\ heard[r][i].whole = TRUE => \A j \in 1..Len(log') : log'[j] # heard[r][i].id
    BY <2>2, <2>3
  <2>6. QED
    BY SMTT(60), <2>1, <2>4, <2>5 DEF Hearing
<1>8. Reaching'
  <2>1. ASSUME NEW u \in Emitter, emit'[u].at \in {"calling", "called back"},
               emit'[u].id > sink_since
        PROVE  emit'[u].to = sink
    BY <2>1 DEF Onward
  <2>2. ASSUME NEW u \in Emitter, emit'[u].at = "called back"
        PROVE  emit'[u].to \in Sink /\ HasHeard(emit'[u].to, emit'[u].id)
    BY <2>2 DEF Onward, IInv, Reaching, At
  <2>3. ASSUME sink \in Sink, NEW n \in Nat, sink_since < n, n <= log_ids, ~ HasHeard(sink, n)
        PROVE  \E u \in Emitter : emit'[u].at # "idle" /\ emit'[u].id = n
    <3>1. PICK u \in Emitter : emit[u].at # "idle" /\ emit[u].id = n
      BY <2>3 DEF IInv, Reaching, At
    <3>2. ~ HasHeard(sink, emit[u].id)
      BY <2>3, <3>1
    <3>3. sink_since \in Nat /\ ~ emit[u].id <= sink_since
      BY <2>3, <3>1 DEF IInv, Typed
    <3>4. emit'[u].at # "idle"
      BY <2>3, <3>1, <3>2, <3>3 DEF Onward
    <3>5. QED
      BY <3>1, <3>4 DEF Onward
  <2>4. UNCHANGED <<log_ids, sink, heard, sink_since>>
    BY DEF Quiet
  <2>5. (\A u \in Emitter :
          (At(u, "calling") \/ At(u, "called back")) /\ emit[u].id > sink_since
            => emit[u].to = sink)'
    BY <2>1, <2>4 DEF At
  <2>6. (\A u \in Emitter :
          At(u, "called back") => emit[u].to \in Sink /\ HasHeard(emit[u].to, emit[u].id))'
    BY <2>2, <2>4 DEF At, HasHeard
  <2>7. (sink \in Sink =>
          \A n \in Nat : sink_since < n /\ n <= log_ids =>
            HasHeard(sink, n) \/ \E u \in Emitter : ~ At(u, "idle") /\ emit[u].id = n)'
    BY <2>3, <2>4 DEF At, HasHeard
  <2>8. QED
    BY <2>5, <2>6, <2>7 DEF Reaching
<1>9. Counted'
  <2>1. \A u \in Emitter : Waiting(u) => emit'[u].id = emit[u].id
    BY DEF Onward, Waiting, At
  <2>2. Unrecorded' = Unrecorded
    BY <2>1, SameUnrecorded DEF Onward
  <2>3. QED
    BY <2>2 DEF IInv, Counted, Quiet
<1>10. QED
  BY <1>4, <1>5, <1>6, <1>7, <1>8, <1>9 DEF IInv

(* The steps of emit() between recording and calling, and clear().         *)
LEMMA QuietSteps ==
  ASSUME LogAssumptions, IInv, NEW t \in Emitter,
         Lock(t) \/ CopySink(t) \/ CallNoSink(t) \/ SinkClears(t)
  PROVE  IInv'
<1>1. emit \in [Emitter -> Slot] /\ sink \in Sink \cup {NoSink} /\ NoSink \notin Sink
  BY DEF IInv, Typed, LogAssumptions
<1>2. \A u \in Emitter : emit'[u] = emit[u] => Onward(u)
  BY DEF Onward, Unheard, Waiting, At, IInv, Numbered, Reaching
<1>3. CASE Lock(t)
  <2>1. PICK place \in Place :
          /\ emit' = [emit EXCEPT ![t].at = place]
          /\ \/ At(t, "numbered") /\ place = "recording"
             \/ At(t, "recorded") /\ place = "copying"
    BY <1>3 DEF Lock, Goes, Place
  <2>2. emit' \in [Emitter -> Slot] /\ \A u \in Emitter : u # t => emit'[u] = emit[u]
    BY <1>1, <2>1 DEF Slot
  <2>3. emit'[t].at = place /\ emit'[t].id = emit[t].id /\ emit'[t].whole = emit[t].whole
    BY <1>1, <2>1 DEF Slot
  <2>4. Onward(t)
    BY <2>1, <2>3 DEF Onward, Unheard, Waiting, At
  <2>5. Quiet
    BY <1>3 DEF Quiet, Lock, IInv, Typed
  <2>6. QED
    BY <1>2, <2>2, <2>4, <2>5, QuietStep
<1>4. CASE CopySink(t)
  <2>1. emit' = [emit EXCEPT ![t].at = "calling", ![t].to = sink]
    BY <1>4 DEF CopySink
  <2>2. emit' \in [Emitter -> Slot] /\ \A u \in Emitter : u # t => emit'[u] = emit[u]
    BY ZenonT(60), <1>1, <2>1 DEF Slot, Place
  <2>3. /\ emit'[t].at = "calling" /\ emit'[t].to = sink
        /\ emit'[t].id = emit[t].id /\ emit'[t].whole = emit[t].whole
    BY <1>1, <2>1 DEF Slot
  <2>4. Onward(t)
    BY <1>4, <2>3 DEF CopySink, Onward, Unheard, Waiting, At
  <2>5. Quiet
    BY <1>4 DEF Quiet, CopySink, IInv, Typed
  <2>6. QED
    BY <1>2, <2>2, <2>4, <2>5, QuietStep
<1>5. ASSUME Return(t)
      PROVE  /\ emit' \in [Emitter -> Slot] /\ emit'[t] = Idle
             /\ \A u \in Emitter : u # t => emit'[u] = emit[u]
             /\ holder' \in Emitter \cup {NoOne}
  BY <1>1, <1>5, IdleSlot DEF Return, IInv, Typed
<1>6. sink_since \in Nat /\ emit[t].id \in Nat
  BY DEF IInv, Typed, Slot
<1>7. CASE CallNoSink(t)
  <2>1. At(t, "calling") /\ emit[t].to = NoSink /\ Return(t)
    BY <1>7 DEF CallNoSink
  <2>2. emit[t].id <= sink_since \/ sink \notin Sink
    <3>1. emit[t].id > sink_since => NoSink = sink
      BY <2>1 DEF IInv, Reaching, At
    <3>2. QED
      BY <1>1, <1>6, <3>1
  <2>3. Onward(t)
    BY <1>5, <2>1, <2>2, IdleSlot DEF Onward, Unheard, Waiting, At
  <2>4. Quiet
    BY <1>5, <1>7, <2>1 DEF Quiet, CallNoSink, IInv, Typed
  <2>5. QED
    BY <1>2, <1>5, <2>1, <2>3, <2>4, QuietStep
<1>8. CASE SinkClears(t)
  <2>1. At(t, "called back") /\ Erase /\ Return(t)
    BY <1>8 DEF SinkClears
  <2>2. emit[t].id <= sink_since \/ HasHeard(sink, emit[t].id)
    <3>1. emit[t].id > sink_since => emit[t].to = sink
      BY <2>1 DEF IInv, Reaching, At
    <3>2. HasHeard(emit[t].to, emit[t].id)
      BY <2>1 DEF IInv, Reaching, At
    <3>3. QED
      BY <1>6, <3>1, <3>2
  <2>3. Onward(t)
    BY <1>5, <2>1, <2>2, IdleSlot DEF Onward, Unheard, Waiting, At
  <2>4. Quiet
    <3>1. Len(log) \in Nat /\ dropped \in Nat /\ forgotten \in Nat /\ Len(<<>>) = 0
      BY DEF IInv, Typed
    <3>2. log' = <<>> /\ dropped' = 0 /\ forgotten' = forgotten + Len(log) + dropped
      BY <2>1 DEF Erase
    <3>3. UNCHANGED <<log_ids, sink, heard, sink_since>>
      BY <1>8 DEF SinkClears
    <3>4. forgotten' \in Nat /\ dropped' \in Nat /\ Len(log') = 0
      BY <3>1, <3>2
    <3>5. Len(log') + dropped' + forgotten' = Len(log) + dropped + forgotten
      BY <3>1, <3>2, <3>4
    <3>6. QED
      BY <1>5, <2>1, <3>2, <3>3, <3>4, <3>5 DEF Quiet
  <2>5. QED
    BY <1>2, <1>5, <2>1, <2>3, <2>4, QuietStep
<1>9. QED
  BY <1>3, <1>4, <1>7, <1>8

LEMMA ClearStep ==
  ASSUME LogAssumptions, IInv, Clear
  PROVE  IInv'
<1>1. emit' = emit /\ emit \in [Emitter -> Slot]
  BY DEF Clear, IInv, Typed
<1>2. \A u \in Emitter : Onward(u)
  BY <1>1 DEF Onward, Unheard, Waiting, At, IInv, Numbered, Reaching
<1>3. Quiet
  BY DEF Quiet, Clear, Erase, IInv, Typed
<1>4. QED
  BY <1>1, <1>2, <1>3, QuietStep

LEMMA SetSinkStep ==
  ASSUME LogAssumptions, IInv, NEW s \in Sink \cup {NoSink}, SetSink(s)
  PROVE  IInv'
<1>1. /\ sink' = s /\ sink_since' = log_ids
      /\ UNCHANGED <<log_ids, log, dropped, holder, emit, forgotten, heard>>
  BY DEF SetSink
<1>2. Typed'
  BY <1>1 DEF IInv, Typed
<1>3. Numbered'
  BY <1>1 DEF IInv, Numbered, At
<1>4. Logged'
  BY <1>1 DEF IInv, Logged, Unheard, Waiting, At
<1>5. Hearing'
  <2>1. \A r, q \in Sink : \A i \in 1..Len(heard[r]), j \in 1..Len(heard[q]) :
          r # q \/ i # j => heard[r][i].id # heard[q][j].id
    BY DEF IInv, Hearing
  <2>2. \A r \in Sink : \A i \in 1..Len(heard[r]) :
          /\ \A u \in Emitter : Unheard(u) => emit[u].id # heard[r][i].id
          /\ heard[r][i].whole = TRUE => \A j \in 1..Len(log) : log[j] # heard[r][i].id
    BY DEF IInv, Hearing
  <2>3. \A u \in Emitter : Unheard(u)' = Unheard(u)
    BY <1>1 DEF Unheard, At
  <2>4. QED
    BY <1>1, <2>1, <2>2, <2>3 DEF Hearing
<1>6. Reaching'
  <2>1. \A u \in Emitter : emit[u].at # "idle" => ~ emit[u].id > log_ids
    BY DEF IInv, Typed, Numbered, At
  <2>2. (\A u \in Emitter :
          (At(u, "calling") \/ At(u, "called back")) /\ emit[u].id > sink_since
            => emit[u].to = sink)'
    BY <1>1, <2>1 DEF At
  <2>3. (\A u \in Emitter :
          At(u, "called back") => emit[u].to \in Sink /\ HasHeard(emit[u].to, emit[u].id))'
    BY <1>1 DEF At, HasHeard, IInv, Reaching
  <2>4. \A n \in Nat : ~ (sink_since' < n /\ n <= log_ids')
    BY <1>1 DEF IInv, Typed
  <2>5. QED
    BY <2>2, <2>3, <2>4 DEF Reaching
<1>7. Counted'
  BY <1>1 DEF IInv, Counted, Unrecorded, At
<1>8. QED
  BY <1>2, <1>3, <1>4, <1>5, <1>6, <1>7 DEF IInv

LEMMA RecordStep ==
  ASSUME LogAssumptions, IInv, NEW t \in Emitter, Record(t)
  PROVE  IInv'
<1> DEFINE n == emit[t].id
<1>1. /\ emit[t].at = "recording" /\ holder' = NoOne
      /\ emit' = [emit EXCEPT ![t].at = "recorded", ![t].whole = ~ HasRoom]
      /\ UNCHANGED <<log_ids, sink, forgotten, heard, sink_since>>
      /\ \/ HasRoom /\ log' = Append(log, n) /\ dropped' = dropped
         \/ ~ HasRoom /\ dropped' = dropped + 1 /\ log' = log
  BY DEF Record, At
<1>2. /\ emit \in [Emitter -> Slot] /\ n \in Nat /\ log \in Seq(Nat)
      /\ Len(log) \in Nat /\ dropped \in Nat
  BY DEF IInv, Typed, Slot
<1>3. emit' \in [Emitter -> Slot] /\ \A u \in Emitter : u # t => emit'[u] = emit[u]
  <2>1. "recorded" \in Place /\ (~ HasRoom) \in BOOLEAN
    BY DEF Place
  <2>2. QED
    BY ZenonT(60), <1>1, <1>2, <2>1 DEF Slot
<1>4. /\ emit'[t].at = "recorded" /\ emit'[t].id = n
      /\ emit'[t].whole = TRUE => ~ HasRoom
  BY <1>1, <1>2 DEF Slot
<1>5. /\ Len(log') \in Nat /\ log' \in Seq(Nat)
      /\ Len(log') + dropped' = Len(log) + dropped + 1
      /\ Len(log') = Len(log) \/ (Len(log') = Len(log) + 1 /\ HasRoom)
      /\ \A i \in 1..Len(log') : (i \in 1..Len(log) /\ log'[i] = log[i])
                                   \/ (i = Len(log) + 1 /\ log'[i] = n /\ HasRoom)
  <2>1. CASE log' = Append(log, n) /\ dropped' = dropped /\ HasRoom
    BY <1>2, <2>1
  <2>2. CASE log' = log /\ dropped' = dropped + 1
    BY <1>2, <2>2
  <2>3. QED
    BY <1>1, <2>1, <2>2
<1>6. emit[t].whole = TRUE /\ \A i \in 1..Len(log) : log[i] # n
  BY <1>1 DEF IInv, Logged, Waiting, Unheard, At
<1>7. n \in 1..log_ids /\ \A u \in Emitter : u # t /\ emit[u].at # "idle" => emit[u].id # n
  BY <1>1 DEF IInv, Numbered, At
<1> HIDE DEF n
<1>8. Typed'
  <2>1. dropped' \in Nat
    BY <1>1, <1>2
  <2>2. QED
    BY <1>1, <1>3, <1>5, <2>1 DEF IInv, Typed
<1>9. Numbered'
  <2>1. \A i \in 1..Len(log') : log'[i] \in 1..log_ids
    BY <1>5, <1>7 DEF IInv, Numbered
  <2>2. \A u \in Emitter : IF emit'[u].at = "idle" THEN emit'[u] = Idle
                                                   ELSE emit'[u].id \in 1..log_ids
    BY <1>3, <1>4, <1>7 DEF IInv, Numbered, At
  <2>3. ASSUME NEW u \in Emitter, NEW v \in Emitter, u # v,
               emit'[u].at # "idle", emit'[v].at # "idle"
        PROVE  emit'[u].id # emit'[v].id
    BY <1>1, <1>3, <1>4, <1>7, <2>3 DEF IInv, Numbered, At
  <2>4. QED
    BY <1>1, <2>1, <2>2, <2>3 DEF IInv, Numbered, At
<1>10. Logged'
  <2>1. Len(log') <= Capacity
    BY <1>2, <1>5 DEF HasRoom, IInv, Logged, LogAssumptions
  <2>2. \A i, j \in 1..Len(log') : i # j => log'[i] # log'[j]
    BY <1>5, <1>6 DEF IInv, Logged
  <2>3. ASSUME NEW u \in Emitter, Waiting(u)'
        PROVE  emit'[u].whole = TRUE
    BY <1>3, <1>4, <2>3 DEF IInv, Logged, Waiting, At
  <2>4. ASSUME NEW u \in Emitter, Unheard(u)', emit'[u].whole = TRUE, NEW i \in 1..Len(log')
        PROVE  log'[i] # emit'[u].id
    <3>1. CASE u = t
      BY <1>4, <1>5, <1>6, <2>4, <3>1
    <3>2. CASE u # t
      <4>1. Unheard(u) /\ emit'[u] = emit[u] /\ emit[u].id # n
        BY <1>3, <1>7, <2>4, <3>2 DEF Unheard, At
      <4>2. QED
        BY <1>5, <2>4, <4>1 DEF IInv, Logged
    <3>3. QED
      BY <3>1, <3>2
  <2>5. QED
    BY <2>1, <2>2, <2>3, <2>4 DEF Logged
<1>11. Hearing'
  <2>1. \A r \in Sink : \A i \in 1..Len(heard[r]) : n # heard[r][i].id
    BY <1>1 DEF IInv, Hearing, Unheard, At, n
  <2>2. ASSUME NEW r \in Sink, NEW i \in 1..Len(heard[r]), NEW u \in Emitter, Unheard(u)'
        PROVE  emit'[u].id # heard[r][i].id
    <3>1. Unheard(u) /\ emit'[u].id = emit[u].id
      BY <1>1, <1>3, <1>4, <2>2 DEF Unheard, At, n
    <3>2. QED
      BY <3>1 DEF IInv, Hearing
  <2>3. ASSUME NEW r \in Sink, NEW i \in 1..Len(heard[r]), heard[r][i].whole = TRUE,
               NEW j \in 1..Len(log')
        PROVE  log'[j] # heard[r][i].id
    BY <1>5, <2>1, <2>3 DEF IInv, Hearing
  <2>4. \A r, q \in Sink : \A i \in 1..Len(heard[r]), j \in 1..Len(heard[q]) :
          r # q \/ i # j => heard[r][i].id # heard[q][j].id
    BY DEF IInv, Hearing
  <2>5. \A r \in Sink : \A i \in 1..Len(heard[r]) :
          /\ \A u \in Emitter : Unheard(u)' => emit'[u].id # heard[r][i].id
          /\ heard[r][i].whole = TRUE => \A j \in 1..Len(log') : log'[j] # heard[r][i].id
    BY <2>2, <2>3
  <2>6. heard' = heard
    BY <1>1
  <2>7. QED
    BY <2>4, <2>5, <2>6 DEF Hearing
<1>12. Reaching'
  <2>1. \A u \in Emitter : emit'[u].at \in {"calling", "called back"} => emit'[u] = emit[u]
    BY <1>3, <1>4
  <2>2. \A u \in Emitter : emit[u].at # "idle" => emit'[u].at # "idle" /\ emit'[u].id = emit[u].id
    BY <1>3, <1>4 DEF n
  <2>3. UNCHANGED <<log_ids, sink, heard, sink_since>>
    BY <1>1
  <2>4. (\A u \in Emitter :
          (At(u, "calling") \/ At(u, "called back")) /\ emit[u].id > sink_since
            => emit[u].to = sink)'
    BY <2>1, <2>3 DEF At, IInv, Reaching
  <2>8. ASSUME NEW u \in Emitter, emit'[u].at = "called back"
        PROVE  emit'[u].to \in Sink /\ HasHeard(emit'[u].to, emit'[u].id)
    BY <2>1, <2>8 DEF IInv, Reaching, At
  <2>5. (\A u \in Emitter :
          At(u, "called back") => emit[u].to \in Sink /\ HasHeard(emit[u].to, emit[u].id))'
    BY <2>3, <2>8 DEF At, HasHeard
  <2>6. (sink \in Sink =>
          \A k \in Nat : sink_since < k /\ k <= log_ids =>
            HasHeard(sink, k) \/ \E u \in Emitter : ~ At(u, "idle") /\ emit[u].id = k)'
    BY <2>2, <2>3 DEF At, HasHeard, IInv, Reaching
  <2>7. QED
    BY <2>4, <2>5, <2>6 DEF Reaching
<1>13. Counted'
  <2>1. Unrecorded' = Unrecorded \ {n}
    BY <1>1, <1>3, <1>4, <1>7 DEF Unrecorded, At, n
  <2>2. n \in Unrecorded
    BY <1>1 DEF Unrecorded, At, n
  <2>3. /\ IsFiniteSet(Unrecorded) /\ Cardinality(Unrecorded) \in Nat
        /\ Len(log) + dropped + forgotten + Cardinality(Unrecorded) = log_ids
    BY FS_CardinalityType DEF IInv, Counted
  <2>4. /\ IsFiniteSet(Unrecorded')
        /\ Cardinality(Unrecorded') = Cardinality(Unrecorded) - 1
    BY <2>1, <2>2, <2>3, FS_RemoveElement
  <2>5. forgotten \in Nat /\ log_ids \in Nat /\ dropped' \in Nat
    BY <1>8 DEF IInv, Typed
  <2>6. Len(log') + dropped' + forgotten' + Cardinality(Unrecorded') = log_ids'
    BY <1>1, <1>2, <1>5, <2>3, <2>4, <2>5
  <2>7. QED
    BY <2>4, <2>6 DEF Counted
<1>14. QED
  BY <1>8, <1>9, <1>10, <1>11, <1>12, <1>13 DEF IInv

LEMMA CallSinkStep ==
  ASSUME LogAssumptions, IInv, NEW t \in Emitter, CallSink(t)
  PROVE  IInv'
<1> DEFINE n == emit[t].id
           r == emit[t].to
           word == [id |-> n, whole |-> emit[t].whole]
<1>1. /\ emit[t].at = "calling" /\ r \in Sink
      /\ heard' = [heard EXCEPT ![r] = Append(@, word)]
      /\ UNCHANGED <<log_ids, log, dropped, sink, forgotten, sink_since>>
  BY DEF CallSink, At, Hears
<1>2. emit \in [Emitter -> Slot] /\ n \in Nat /\ word \in Word /\ heard[r] \in Seq(Word)
  BY <1>1 DEF IInv, Typed, Slot, Word
<1>3. /\ emit' \in [Emitter -> Slot] /\ holder' \in Emitter \cup {NoOne}
      /\ \A u \in Emitter : u # t => emit'[u] = emit[u]
      /\ emit'[t] = Idle \/ (emit'[t].at = "called back" /\ emit'[t].id = n /\ emit'[t].to = r)
  <2>1. CASE Return(t)
    BY <1>2, <2>1, IdleSlot DEF Return, IInv, Typed
  <2>2. CASE Goes(t, "called back") /\ holder' = holder
    BY <1>2, <2>2 DEF Goes, Slot, Place, IInv, Typed
  <2>3. QED
    BY <2>1, <2>2 DEF CallSink
<1>4. /\ heard'[r] \in Seq(Word) /\ Len(heard'[r]) = Len(heard[r]) + 1 /\ Len(heard[r]) \in Nat
      /\ \A i \in 1..Len(heard'[r]) :
           (i \in 1..Len(heard[r]) /\ heard'[r][i] = heard[r][i])
             \/ (i = Len(heard[r]) + 1 /\ heard'[r][i] = word)
      /\ \A q \in Sink : q # r => heard'[q] = heard[q]
      /\ heard' \in [Sink -> Seq(Word)]
  <2>1. heard'[r] = Append(heard[r], word) /\ \A q \in Sink : q # r => heard'[q] = heard[q]
    BY <1>1 DEF IInv, Typed
  <2>2. Append(heard[r], word) \in Seq(Word)
    BY <1>2
  <2>3. heard' \in [Sink -> Seq(Word)]
    BY <1>1, <2>2 DEF IInv, Typed
  <2>4. QED
    BY <1>2, <2>1, <2>2, <2>3
<1>5. word.id = n /\ word.whole = emit[t].whole
  OBVIOUS
<1>6. n \in 1..log_ids /\ \A u \in Emitter : u # t /\ emit[u].at # "idle" => emit[u].id # n
  BY <1>1 DEF IInv, Numbered, At
<1>7. /\ \A q \in Sink : \A i \in 1..Len(heard[q]) : heard[q][i].id # n
      /\ emit[t].whole = TRUE => \A i \in 1..Len(log) : log[i] # n
  BY <1>1 DEF IInv, Hearing, Logged, Unheard, At
(* A word heard now was heard before, or is the new one.                   *)
<1>8. \A q \in Sink : \A i \in 1..Len(heard'[q]) :
        \/ i \in 1..Len(heard[q]) /\ heard'[q][i] = heard[q][i]
        \/ q = r /\ i = Len(heard[r]) + 1 /\ heard'[q][i] = word
  BY <1>4
<1> HIDE DEF n, r, word
<1>9. Typed'
  BY <1>1, <1>3, <1>4 DEF IInv, Typed
<1>10. Numbered'
  <2>1. \A q \in Sink : \A i \in 1..Len(heard'[q]) : heard'[q][i].id \in 1..log_ids
    BY <1>5, <1>6, <1>8 DEF IInv, Numbered
  <2>2. \A u \in Emitter : IF emit'[u].at = "idle" THEN emit'[u] = Idle
                                                   ELSE emit'[u].id \in 1..log_ids
    BY <1>3, <1>6, IdleSlot DEF IInv, Numbered, At
  <2>3. ASSUME NEW u \in Emitter, NEW v \in Emitter, u # v,
               emit'[u].at # "idle", emit'[v].at # "idle"
        PROVE  emit'[u].id # emit'[v].id
    BY ZenonT(60), <1>3, <1>6, <2>3, IdleSlot DEF IInv, Numbered, At
  <2>4. QED
    BY <1>1, <2>1, <2>2, <2>3 DEF IInv, Numbered, At
<1>11. \A u \in Emitter : /\ Unheard(u)' => u # t /\ Unheard(u) /\ emit'[u] = emit[u]
                          /\ Waiting(u)' => Waiting(u) /\ emit'[u] = emit[u]
  BY <1>3, IdleSlot DEF Unheard, Waiting, At
<1>12. Logged'
  <2>1. \A u \in Emitter : Waiting(u)' => emit'[u].whole = TRUE
    BY <1>11 DEF IInv, Logged
  <2>2. \A u \in Emitter : Unheard(u)' /\ emit'[u].whole = TRUE =>
          \A i \in 1..Len(log) : log[i] # emit'[u].id
    BY <1>11 DEF IInv, Logged
  <2>3. Len(log) <= Capacity /\ \A i, j \in 1..Len(log) : i # j => log[i] # log[j]
    BY DEF IInv, Logged
  <2>4. QED
    BY <1>1, <2>1, <2>2, <2>3 DEF Logged
<1>13. Hearing'
  <2>1. ASSUME NEW p \in Sink, NEW q \in Sink, NEW i \in 1..Len(heard'[p]), NEW j \in 1..Len(heard'[q]),
               p # q \/ i # j
        PROVE  heard'[p][i].id # heard'[q][j].id
    <3>1. CASE i \in 1..Len(heard[p]) /\ heard'[p][i] = heard[p][i]
      <4>1. CASE j \in 1..Len(heard[q]) /\ heard'[q][j] = heard[q][j]
        BY <2>1, <3>1, <4>1 DEF IInv, Hearing
      <4>2. CASE heard'[q][j] = word
        BY <1>5, <1>7, <3>1, <4>2
      <4>3. QED
        BY <1>8, <4>1, <4>2
    <3>2. CASE p = r /\ i = Len(heard[r]) + 1 /\ heard'[p][i] = word
      BY <1>5, <1>7, <1>8, <2>1, <3>2
    <3>3. QED
      BY <1>8, <3>1, <3>2
  <2>2. ASSUME NEW q \in Sink, NEW i \in 1..Len(heard'[q]), NEW u \in Emitter, Unheard(u)'
        PROVE  emit'[u].id # heard'[q][i].id
    <3>1. u # t /\ Unheard(u) /\ emit'[u] = emit[u]
      BY <1>11, <2>2
    <3>2. emit[u].id # n
      BY <1>6, <3>1 DEF Unheard, At
    <3>3. i \in 1..Len(heard[q]) => emit[u].id # heard[q][i].id
      BY <3>1 DEF IInv, Hearing
    <3>4. QED
      BY <1>5, <1>8, <3>1, <3>2, <3>3
  <2>3. ASSUME NEW q \in Sink, NEW i \in 1..Len(heard'[q]), heard'[q][i].whole = TRUE,
               NEW j \in 1..Len(log)
        PROVE  log[j] # heard'[q][i].id
    <3>1. CASE i \in 1..Len(heard[q]) /\ heard'[q][i] = heard[q][i]
      BY <2>3, <3>1 DEF IInv, Hearing
    <3>2. CASE heard'[q][i] = word
      BY <1>5, <1>7, <2>3, <3>2
    <3>3. QED
      BY <1>8, <3>1, <3>2
  <2>4. QED
    BY ZenonT(60), <1>1, <2>1, <2>2, <2>3 DEF Hearing
<1>14. \A q \in Sink, k \in Nat : HasHeard(q, k) => \E i \in 1..Len(heard'[q]) : heard'[q][i].id = k
  <2> SUFFICES ASSUME NEW q \in Sink, NEW k \in Nat, NEW i \in 1..Len(heard[q]), heard[q][i].id = k
               PROVE  \E j \in 1..Len(heard'[q]) : heard'[q][j].id = k
    BY DEF HasHeard
  <2>1. i \in 1..Len(heard'[q]) /\ heard'[q][i] = heard[q][i]
    BY <1>4
  <2>2. QED
    BY <2>1
<1>15. \E i \in 1..Len(heard'[r]) : heard'[r][i].id = n
  <2>1. Len(heard[r]) + 1 \in 1..Len(heard'[r]) /\ ~ Len(heard[r]) + 1 \in 1..Len(heard[r])
    BY <1>4
  <2>2. QED
    BY <1>1, <1>4, <1>5, <2>1
<1>16. Reaching'
  <2>1. n > sink_since => r = sink
    BY <1>1 DEF IInv, Reaching, At, n, r
  <2>2. ASSUME NEW u \in Emitter, emit'[u].at \in {"calling", "called back"},
               emit'[u].id > sink_since
        PROVE  emit'[u].to = sink
    BY <1>3, <2>1, <2>2, IdleSlot DEF IInv, Reaching, At
  <2>3. ASSUME NEW u \in Emitter, emit'[u].at = "called back"
        PROVE  /\ emit'[u].to \in Sink
               /\ \E i \in 1..Len(heard'[emit'[u].to]) : heard'[emit'[u].to][i].id = emit'[u].id
    <3>1. CASE u = t
      BY <1>1, <1>3, <1>15, <2>3, <3>1, IdleSlot
    <3>2. CASE u # t
      <4>1. /\ emit'[u] = emit[u] /\ emit[u].to \in Sink
            /\ HasHeard(emit[u].to, emit[u].id) /\ emit[u].id \in Nat
        BY <1>2, <1>3, <2>3, <3>2 DEF IInv, Reaching, At, Slot
      <4>2. QED
        BY <1>14, <4>1
    <3>3. QED
      BY <3>1, <3>2
  <2>4. ASSUME sink \in Sink, NEW k \in Nat, sink_since < k, k <= log_ids,
               ~ \E i \in 1..Len(heard'[sink]) : heard'[sink][i].id = k
        PROVE  \E u \in Emitter : emit'[u].at # "idle" /\ emit'[u].id = k
    <3>1. PICK u \in Emitter : emit[u].at # "idle" /\ emit[u].id = k
      BY <1>14, <2>4 DEF IInv, Reaching, At
    <3>2. u # t
      <4>1. n = k => n > sink_since
        BY <2>4 DEF IInv, Typed
      <4>2. QED
        BY <1>15, <2>1, <2>4, <3>1, <4>1 DEF n
    <3>3. QED
      BY <1>3, <3>1, <3>2
  <2>5. UNCHANGED <<log_ids, sink, sink_since>>
    BY <1>1
  <2>6. (\A u \in Emitter :
          (At(u, "calling") \/ At(u, "called back")) /\ emit[u].id > sink_since
            => emit[u].to = sink)'
    BY <2>2, <2>5 DEF At
  <2>7. (\A u \in Emitter :
          At(u, "called back") => emit[u].to \in Sink /\ HasHeard(emit[u].to, emit[u].id))'
    BY <2>3 DEF At, HasHeard
  <2>8. (sink \in Sink =>
          \A k \in Nat : sink_since < k /\ k <= log_ids =>
            HasHeard(sink, k) \/ \E u \in Emitter : ~ At(u, "idle") /\ emit[u].id = k)'
    BY <2>4, <2>5 DEF At, HasHeard
  <2>9. QED
    BY <2>6, <2>7, <2>8 DEF Reaching
<1>17. Counted'
  <2>1. \A u \in Emitter : Waiting(u)' <=> Waiting(u)
    BY <1>1, <1>3, IdleSlot DEF Waiting, At
  <2>2. \A u \in Emitter : Waiting(u) => emit'[u].id = emit[u].id
    BY <1>1, <1>3 DEF Waiting, At
  <2>3. Unrecorded' = Unrecorded
    BY <2>1, <2>2, SameUnrecorded
  <2>4. QED
    BY <1>1, <2>3 DEF IInv, Counted
<1>18. QED
  BY <1>9, <1>10, <1>12, <1>13, <1>16, <1>17 DEF IInv

LEMMA NextIInv == LogAssumptions /\ IInv /\ [LogNext]_lvars => IInv'
<1> SUFFICES ASSUME LogAssumptions, IInv, [LogNext]_lvars PROVE IInv'
  OBVIOUS
<1>1. CASE LogNext
  BY <1>1, TakeNumberStep, RecordStep, QuietSteps, CallSinkStep, SetSinkStep, ClearStep
     DEF LogNext, EmitStep
<1>2. CASE UNCHANGED lvars
  <2>1. \A u \in Emitter : Onward(u)
    BY <1>2 DEF lvars, Onward, Unheard, Waiting, At, IInv, Numbered, Reaching
  <2>2. Quiet /\ emit' \in [Emitter -> Slot]
    BY <1>2 DEF lvars, Quiet, IInv, Typed
  <2>3. QED
    BY <2>1, <2>2, QuietStep
<1>3. QED
  BY <1>1, <1>2

LEMMA EventInvariant ==
  ASSUME LogAssumptions
  PROVE  LogSpec => []IInv
<1>1. LogInit => IInv BY InitIInv
<1>2. IInv /\ [LogNext]_lvars => IInv' BY NextIInv
<1>3. QED BY <1>1, <1>2, PTL DEF LogSpec

-----------------------------------------------------------------------------
(* What the invariant says of the log.                                     *)

LEMMA EventTyped == IInv => LogTypeOK
<1> SUFFICES ASSUME IInv PROVE LogTypeOK
  OBVIOUS
<1>1. Len(log) \in Nat /\ Cardinality(Unrecorded) \in Nat
  BY FS_CardinalityType DEF IInv, Typed, Counted
<1>2. /\ log_ids \in Nat /\ log_ids <= MaxEvents /\ dropped \in Nat /\ forgotten \in Nat
      /\ Len(log) + dropped + forgotten + Cardinality(Unrecorded) = log_ids
      /\ sink_since \in Nat /\ sink_since <= log_ids
  BY DEF IInv, Typed, Counted
<1>3. {dropped, forgotten, sink_since} \subseteq 0..log_ids
  <2>1. dropped <= log_ids /\ forgotten <= log_ids
    BY <1>1, <1>2
  <2>2. QED
    BY <1>2, <2>1
<1>4. log \in Seq(1..log_ids)
  <2> DEFINE Numbers == 1..log_ids
  <2>1. log \in [1..Len(log) -> Nat] /\ \A i \in 1..Len(log) : log[i] \in Numbers
    BY DEF IInv, Typed, Numbered
  <2> HIDE DEF Numbers
  <2>2. log \in [1..Len(log) -> Numbers]
    BY <2>1
  <2>3. log \in Seq(Numbers)
    BY <1>1, <2>2
  <2>4. QED
    BY <2>3 DEF Numbers
<1>5. ASSUME NEW t \in Emitter
      PROVE  emit[t] \in [at : {"idle", "numbered", "recording", "recorded", "copying",
                                "calling", "called back"},
                          id : 0..log_ids, whole : BOOLEAN, to : Sink \cup {NoSink}]
  <2>1. emit[t] \in Slot
    BY DEF IInv, Typed
  <2>2. emit[t].id \in 0..log_ids
    BY <1>2, IdleSlot DEF IInv, Numbered
  <2>3. QED
    BY <2>1, <2>2 DEF Slot, Place
<1>6. log_ids \in 0..MaxEvents
  BY <1>2
<1>7. QED
  BY <1>3, <1>4, <1>5, <1>6 DEF LogTypeOK, IInv, Typed

(* No event is lost without a trace (EventsAccounted): emit() stores each  *)
(* event once or counts it as dropped, and clear() accounts for the rest,  *)
(* however many threads take numbers and locks in whatever order.          *)
THEOREM LogAccountsForEvents ==
  ASSUME LogAssumptions
  PROVE  LogSpec => []EventsAccounted
<1>1. IInv => EventsAccounted
  <2> SUFFICES ASSUME IInv PROVE EventsAccounted
    OBVIOUS
  <2>1. log \in Seq(Nat) /\ DOMAIN log = 1..Len(log)
    BY DEF IInv, Typed
  <2>2. IsInjective(log)
    BY <2>1 DEF IsInjective, IInv, Logged
  <2>3. Range(log) \cap Unrecorded = {}
    <3>1. ASSUME NEW t \in Emitter, Waiting(t), NEW i \in 1..Len(log)
          PROVE  log[i] # emit[t].id
      BY <3>1 DEF IInv, Logged, Waiting, Unheard, At
    <3>2. QED
      BY <2>1, <3>1 DEF Range, Unrecorded, Waiting
  <2>4. QED
    BY <2>2, <2>3, EventTyped DEF EventsAccounted, IInv, Logged, Counted
<1>2. QED BY <1>1, EventInvariant, PTL

(* A sink that stays hears of every event emitted since it was set, and no *)
(* sink of one twice or before it was recorded (SinkHearsEverything):      *)
(* emit() copies the sink under the lock and calls the copy outside it.    *)
THEOREM SinksHearEverything ==
  ASSUME LogAssumptions
  PROVE  LogSpec => []SinkHearsEverything
<1>1. IInv => SinkHearsEverything
  <2> SUFFICES ASSUME IInv PROVE SinkHearsEverything
    OBVIOUS
  <2>1. \A s \in Sink : DOMAIN heard[s] = 1..Len(heard[s]) /\ Len(heard[s]) \in Nat
    BY DEF IInv, Typed
  <2>2. log \in Seq(Nat) /\ DOMAIN log = 1..Len(log)
    BY DEF IInv, Typed
  <2>3. ASSUME NEW s \in Sink
        PROVE  Cardinality(HeardBy(s)) = Len(heard[s])
    <3> DEFINE f == [i \in 1..Len(heard[s]) |-> heard[s][i].id]
    <3>1. f \in Bijection(1..Len(heard[s]), HeardBy(s))
      <4>1. \A i, j \in 1..Len(heard[s]) : i # j => heard[s][i].id # heard[s][j].id
        BY DEF IInv, Hearing
      <4>2. QED
        BY <2>1, <4>1 DEF Bijection, Injection, Surjection, IsInjective, HeardBy
    <3>2. IsFiniteSet(1..Len(heard[s])) /\ Cardinality(1..Len(heard[s])) = Len(heard[s])
      BY <2>1, FS_Interval
    <3>3. QED
      BY <3>1, <3>2, FS_Bijection DEF ExistsBijection
  <2>4. ASSUME NEW s \in Sink
        PROVE  HeardBy(s) \cap Unrecorded = {}
    <3>1. ASSUME NEW t \in Emitter, Waiting(t), NEW i \in 1..Len(heard[s])
          PROVE  heard[s][i].id # emit[t].id
      BY <3>1 DEF IInv, Hearing, Waiting, Unheard, At
    <3>2. QED
      BY <2>1, <3>1 DEF HeardBy, Unrecorded, Waiting
  <2>5. ASSUME NEW s \in Sink, NEW r \in Sink \ {s}
        PROVE  HeardBy(s) \cap HeardBy(r) = {}
    BY <2>1 DEF HeardBy, IInv, Hearing
  <2>6. ASSUME NEW s \in Sink, NEW i \in DOMAIN heard[s], heard[s][i].whole
        PROVE  heard[s][i].id \notin Range(log)
    <3>1. heard[s][i].whole = TRUE
      BY <2>1, <2>6, HeardFacts DEF IInv
    <3>2. QED
      BY <2>1, <2>2, <3>1 DEF IInv, Hearing, Range
  <2>7. ASSUME sink \in Sink, NEW n \in (sink_since + 1)..log_ids
        PROVE  n \in HeardBy(sink) \cup UnderWay
    <3>1. n \in Nat /\ sink_since < n /\ n <= log_ids
      BY DEF IInv, Typed
    <3>2. CASE HasHeard(sink, n)
      BY <2>1, <2>7, <3>2 DEF HasHeard, HeardBy
    <3>3. CASE \E t \in Emitter : ~ At(t, "idle") /\ emit[t].id = n
      BY <3>3 DEF UnderWay
    <3>4. QED
      BY <2>7, <3>1, <3>2, <3>3 DEF IInv, Reaching
  <2>8. QED
    BY <2>3, <2>4, <2>5, <2>6, <2>7 DEF SinkHearsEverything
<1>2. QED BY <1>1, EventInvariant, PTL

-----------------------------------------------------------------------------
(* The registry.                                                           *)

(* A strategy is in the table once: it reports the id it is under.         *)
LEMMA RegisteredOnce ==
  ASSUME OwnsWhatLives, NEW a \in DOMAIN table, NEW b \in DOMAIN table,
         table[a] = table[b]
  PROVE  a = b
BY DEF OwnsWhatLives

(* emplace() of a strategy that is not registered, under an id it reports. *)
LEMMA EmplaceKeeps ==
  ASSUME OwnsWhatLives, NEW s \in Strategy, state[s] = "new", NEW id \in Nat \ {0},
         own_id' = [own_id EXCEPT ![s] = id], Emplace(s, id)
  PROVE  /\ DOMAIN table' \subseteq Nat \ {0} /\ Range(table') \subseteq Strategy
         /\ state' \in [Strategy -> {"new", "alive", "destroyed"}]
         /\ own_id' \in [Strategy -> Nat]
         /\ Range(table') = {t \in Strategy : state'[t] = "alive"}
         /\ \A x \in DOMAIN table' : own_id'[table'[x]] = x
<1>1. RegistryTypeOK BY DEF OwnsWhatLives
<1>2. s \notin Range(table) BY DEF OwnsWhatLives
<1>3. \A x \in DOMAIN table : table[x] \in Strategy /\ table[x] # s
  BY <1>1, <1>2 DEF RegistryTypeOK, Range
<1>4. \A t \in Strategy : own_id'[t] = IF t = s THEN id ELSE own_id[t]
  BY <1>1 DEF RegistryTypeOK
<1>5. CASE id \in DOMAIN table
  <2>1. table' = table /\ state' = [state EXCEPT ![s] = "destroyed"]
    BY <1>5 DEF Emplace
  <2>2. {t \in Strategy : state'[t] = "alive"} = {t \in Strategy : state[t] = "alive"}
    BY <2>1, <1>1 DEF RegistryTypeOK
  <2>3. QED
    BY <2>1, <2>2, <1>1, <1>3, <1>4 DEF RegistryTypeOK, OwnsWhatLives
<1>6. CASE id \notin DOMAIN table
  <2>1. /\ DOMAIN table' = DOMAIN table \cup {id} /\ table'[id] = s
        /\ \A x \in DOMAIN table : table'[x] = table[x]
    BY <1>6 DEF Emplace
  <2>2. /\ state' \in [Strategy -> {"new", "alive", "destroyed"}]
        /\ \A t \in Strategy : state'[t] = IF t = s THEN "alive" ELSE state[t]
    BY <1>6, <1>1 DEF Emplace, RegistryTypeOK
  <2>3. Range(table') = Range(table) \cup {s}
    BY <2>1 DEF Range
  <2>4. Range(table') = {t \in Strategy : state'[t] = "alive"}
    BY <2>2, <2>3 DEF OwnsWhatLives
  <2>5. \A x \in DOMAIN table' : own_id'[table'[x]] = x
    BY <2>1, <1>3, <1>4 DEF OwnsWhatLives
  <2>6. QED
    BY <2>1, <2>2, <2>3, <2>4, <2>5, <1>1 DEF RegistryTypeOK
<1>7. QED BY <1>5, <1>6

(* unregister() and clear(): what leaves the table is destroyed, and       *)
(* nothing else is.                                                        *)
LEMMA TakeOutKeeps ==
  ASSUME OwnsWhatLives, NEW gone \in SUBSET DOMAIN table, TakeOut(gone)
  PROVE  OwnsWhatLives'
<1>1. RegistryTypeOK BY DEF OwnsWhatLives
<1>2. /\ DOMAIN table' = DOMAIN table \ gone
      /\ \A x \in DOMAIN table \ gone : table'[x] = table[x]
  BY DEF TakeOut, Restrict
<1>3. /\ state' \in [Strategy -> {"new", "alive", "destroyed"}]
      /\ \A t \in Strategy :
           state'[t] = IF \E id \in gone : table[id] = t THEN "destroyed" ELSE state[t]
  BY <1>1 DEF TakeOut, RegistryTypeOK
<1>4. own_id' = own_id /\ ids' = ids /\ returned' = returned
  BY DEF TakeOut
<1>5. RegistryTypeOK'
  BY <1>1, <1>2, <1>3, <1>4 DEF RegistryTypeOK, Range
<1>6. \A t \in Strategy : t \in Range(table') <=> state'[t] = "alive"
  <2> TAKE t \in Strategy
  <2>1. t \in Range(table) <=> state[t] = "alive"
    BY DEF OwnsWhatLives
  <2>2. CASE \E id \in gone : table[id] = t
    <3>1. PICK id \in gone : table[id] = t BY <2>2
    <3>2. \A x \in DOMAIN table : table[x] = t => x = id
      BY <3>1, RegisteredOnce
    <3>3. t \notin Range(table')
      BY <3>1, <3>2, <1>2 DEF Range
    <3>4. QED BY <3>3, <2>2, <1>3
  <2>3. CASE ~ \E id \in gone : table[id] = t
    <3>1. t \in Range(table') <=> t \in Range(table)
      BY <2>3, <1>2 DEF Range
    <3>2. QED BY <3>1, <2>1, <2>3, <1>3
  <2>4. QED BY <2>2, <2>3
<1>7. Range(table') = {t \in Strategy : state'[t] = "alive"}
  BY <1>5, <1>6 DEF RegistryTypeOK
<1>8. \A x \in DOMAIN table' : own_id'[table'[x]] = x
  BY <1>2, <1>4 DEF OwnsWhatLives
<1>9. QED BY <1>5, <1>7, <1>8 DEF OwnsWhatLives

-----------------------------------------------------------------------------
(* The registry owns exactly the strategies that are alive, each under the *)
(* id the strategy reports (OwnsWhatLives): the invariant is inductive.    *)
LEMMA OwnsInit ==
  ASSUME RegistryAssumptions, RegistryInit
  PROVE  OwnsWhatLives
BY DEF RegistryAssumptions, RegistryInit, OwnsWhatLives, RegistryTypeOK, Range

LEMMA OwnsStep ==
  ASSUME RegistryAssumptions, OwnsWhatLives, [RegistryNext]_rvars
  PROVE  OwnsWhatLives'
<1>1. RegistryTypeOK BY DEF OwnsWhatLives
<1>2. ASSUME NEW s \in Strategy, RegisterAllocator(s)
      PROVE  OwnsWhatLives'
  <2> DEFINE id == IF own_id[s] = 0 THEN ids + 1 ELSE own_id[s]
  <2>1. id \in Nat \ {0} /\ ids' \in Nat
    BY <1>1, <1>2 DEF RegistryTypeOK, RegisterAllocator
  <2>2. /\ state[s] = "new" /\ Emplace(s, id)
        /\ own_id' = [own_id EXCEPT ![s] = id] /\ returned' = [returned EXCEPT ![s] = id]
    BY <1>2 DEF RegisterAllocator
  <2>3. returned' \in [Strategy -> Nat]
    BY <1>1, <2>1, <2>2 DEF RegistryTypeOK
  <2> HIDE DEF id
  <2>4. QED BY <2>1, <2>2, <2>3, EmplaceKeeps DEF OwnsWhatLives, RegistryTypeOK
<1>3. ASSUME NEW s \in Strategy, NEW id \in RequestedIds, RegisterAllocatorAt(s, id)
      PROVE  OwnsWhatLives'
  <2>1. id \in Nat \ {0}
    BY <1>3 DEF RegistryAssumptions, RegisterAllocatorAt
  <2>2. /\ state[s] = "new" /\ Emplace(s, id)
        /\ own_id' = [own_id EXCEPT ![s] = id] /\ ids' = ids /\ returned' = returned
    BY <1>3 DEF RegisterAllocatorAt
  <2>3. QED BY <1>1, <2>1, <2>2, EmplaceKeeps DEF OwnsWhatLives, RegistryTypeOK
<1>4. ASSUME NEW s \in Strategy, NEW id \in RequestedIds, RegisterAllocatorRefused(s, id)
      PROVE  OwnsWhatLives'
  <2>1. /\ state[s] = "new" /\ state' = [state EXCEPT ![s] = "destroyed"]
        /\ UNCHANGED <<table, ids, own_id, returned>>
    BY <1>4 DEF RegisterAllocatorRefused
  <2>2. {t \in Strategy : state'[t] = "alive"} = {t \in Strategy : state[t] = "alive"}
    BY <2>1, <1>1 DEF RegistryTypeOK
  <2>3. RegistryTypeOK'
    BY <2>1, <1>1 DEF RegistryTypeOK
  <2>4. QED BY <2>1, <2>2, <2>3 DEF OwnsWhatLives
<1>5. ASSUME NEW id \in DOMAIN table, Unregister(id)
      PROVE  OwnsWhatLives'
  BY <1>5, TakeOutKeeps DEF Unregister
<1>6. CASE ClearRegistry
  BY <1>6, TakeOutKeeps DEF ClearRegistry
<1>7. CASE UNCHANGED rvars
  BY <1>7 DEF rvars, OwnsWhatLives, RegistryTypeOK
<1>8. QED BY <1>2, <1>3, <1>4, <1>5, <1>6, <1>7 DEF RegistryNext

(* The registry owns exactly the strategies that are alive, each under the *)
(* id it reports, after any sequence of register_allocator(),              *)
(* register_allocator_at(), unregister() and clear().                      *)
THEOREM RegistryOwnsWhatLives ==
  ASSUME RegistryAssumptions
  PROVE  RegistrySpec => []OwnsWhatLives
<1>1. RegistryInit => OwnsWhatLives BY OwnsInit
<1>2. OwnsWhatLives /\ [RegistryNext]_rvars => OwnsWhatLives'
  BY OwnsStep
<1>3. QED BY <1>1, <1>2, PTL DEF RegistrySpec

-----------------------------------------------------------------------------
(* A strategy alive is destroyed only in a step that takes its id out of   *)
(* the table, never by the registration of another one                     *)
(* (DiesOnlyUnregistered), whatever ids collide.                           *)
LEMMA DeathStep ==
  ASSUME OwnsWhatLives, RegistryNext, NEW s \in Strategy,
         state[s] = "alive", state'[s] = "destroyed"
  PROVE  \E id \in DOMAIN table \ DOMAIN table' : table[id] = s
<1>1. state \in [Strategy -> {"new", "alive", "destroyed"}]
  BY DEF OwnsWhatLives, RegistryTypeOK
<1>2. ASSUME NEW t \in Strategy, NEW id, state[t] = "new", Emplace(t, id)
      PROVE  FALSE
  BY <1>1, <1>2 DEF Emplace
<1>3. ASSUME NEW t \in Strategy, NEW id \in RequestedIds, RegisterAllocatorRefused(t, id)
      PROVE  FALSE
  BY <1>1, <1>3 DEF RegisterAllocatorRefused
<1>4. ASSUME NEW gone \in SUBSET DOMAIN table, TakeOut(gone)
      PROVE  \E id \in DOMAIN table \ DOMAIN table' : table[id] = s
  <2>1. PICK id \in gone : table[id] = s
    BY <1>1, <1>4 DEF TakeOut
  <2>2. DOMAIN table' = DOMAIN table \ gone
    BY <1>4 DEF TakeOut, Restrict
  <2>3. QED BY <2>1, <2>2
<1>5. QED
  BY <1>2, <1>3, <1>4
  DEF RegistryNext, RegisterAllocator, RegisterAllocatorAt, Unregister, ClearRegistry

(* A strategy that is registered dies only in unregister() or clear(), for *)
(* every choice of ids: the pointer find() gave out is good until then.    *)
THEOREM RegistryDiesOnlyUnregistered ==
  ASSUME RegistryAssumptions
  PROVE  RegistrySpec => DiesOnlyUnregistered
<1> DEFINE Dies == \A s \in Strategy :
                     state[s] = "alive" /\ state'[s] = "destroyed"
                       => \E id \in DOMAIN table \ DOMAIN table' : table[id] = s
<1>1. OwnsWhatLives /\ [RegistryNext]_rvars => [Dies]_rvars
  BY DeathStep
<1>2. QED
  BY <1>1, RegistryOwnsWhatLives, PTL DEF RegistrySpec, DiesOnlyUnregistered

-----------------------------------------------------------------------------
(* Regions.                                                                *)

Region == [magic : BOOLEAN, offset : 0..Total, size : 0..Total, next : 0..Total]
Piece == [offset : 0..Total, size : 1..Total]
Setting == {"mapped", "marked"}

Types ==
  /\ object = None \/ object \in Region
  /\ announced = None \/ announced \in Piece
  /\ phase \in [Process -> {"outside", "mapped", "marked", "attached", "reserving",
                            "publishing", "left"}]
  /\ cur \in [Process -> Nat] /\ asked \in [Process -> Request \cup {None}]
  /\ DOMAIN live = Process
  /\ \A p \in Process : \E n \in Nat : live[p] \in [1..n -> Piece]
  /\ lives \in [Process -> 1..MaxLives]
  /\ past \subseteq Piece /\ early \in BOOLEAN

(* Who is where: only processes that have the region open own anything,    *)
(* only the creator sets it up, and what a process that swaps the pointer  *)
(* reserves has room.                                                      *)
Standing ==
  /\ \A p \in Process : Inside(p) => object # None
  /\ \A p \in Process : ~ Inside(p) => DOMAIN live[p] = {}
  /\ object = None => past = {}
  /\ \A p \in Openers : phase[p] \notin Setting \cup {"publishing"}
  /\ \A p \in Process : phase[p] = "reserving" =>
       asked[p] \in Request /\ cur[p] + Reserved(asked[p]) <= Total

(* A header is still being set up and nobody has looked at it, or it is    *)
(* whole and all that was given out lies between it and the bump pointer.  *)
SetUp ==
  /\ object.next = 0 /\ Owned = {}
  /\ \A p \in Process : Inside(p) => p = Creator /\ phase[p] \in Setting
InUse ==
  /\ HeaderSize <= object.next /\ phase[Creator] \notin Setting
  /\ \A e \in Owned : HeaderSize <= e.offset /\ e.offset + e.size <= object.next
Whole == ~ early /\ object # None => SetUp \/ InUse

Parted ==
  ~ early =>
    /\ \A e, f \in Owned : e # f => Apart(e, f)
    /\ \A x, y \in Extents : x # y => Extent(x) # Extent(y)
    /\ \A x \in Extents : Extent(x) \notin past

(* A file has no announcements; a name is not used again, so that          *)
(* whoever opens it after the announcement finds a header that is whole.   *)
Announcing ==
  /\ FileBacked =>
       announced = None /\ phase[Creator] # "publishing" /\ (object # None => object.size = 0)
  /\ ~ FileBacked =>
       /\ ~ early
       /\ object # None => \E p \in Process : Inside(p)
       /\ announced # None =>
            phase[Creator] \in {"attached", "reserving", "publishing", "left"}
  /\ phase[Creator] \in Setting => object.size = 0
  /\ phase[Creator] = "publishing" =>
       /\ cur[Creator] \in DOMAIN live[Creator]
       /\ object.offset = live[Creator][cur[Creator]].offset
  /\ phase[Creator] \in {"attached", "reserving"} /\ object.size > 0 =>
       \E h \in DOMAIN live[Creator] :
         live[Creator][h] = [offset |-> object.offset, size |-> object.size]
  /\ announced # None /\ phase[Creator] # "left" =>
       \E h \in DOMAIN live[Creator] : live[Creator][h] = announced
  /\ announced # None /\ phase[Creator] = "left" /\ object # None => announced \in past

RInv == Types /\ Standing /\ Whole /\ Parted /\ Announcing

-----------------------------------------------------------------------------
(* The constants.                                                          *)

LEMMA Constants ==
  ASSUME Assumptions
  PROVE  /\ Creator \in Process /\ Creator \notin Openers
         /\ \A p \in Process : p = Creator \/ p \in Openers
         /\ HeaderSize \in Nat /\ HeaderSize > 0 /\ Total \in Nat /\ HeaderSize < Total
         /\ MaxLives \in Nat /\ MaxLives > 0 /\ (FileBacked \/ MaxLives = 1)
         /\ FileBacked \in BOOLEAN
         /\ None \notin Region /\ None \notin Piece /\ None \notin Request
BY DEF Assumptions, Process, Region, Piece

(* A multiple of a that is reached by adding a - 1 is at least n.          *)
LEMMA RoundedUp ==
  ASSUME NEW n \in Nat, NEW a \in Nat \ {0}
  PROVE  /\ ((n + a - 1) \div a) * a \in Nat
         /\ ((n + a - 1) \div a) * a >= n
<1> DEFINE m == n + a - 1
           q == m \div a
<1>1. m \in Nat /\ a > 0 BY DEF m
<1>2. q \in Nat /\ m = a * q + (m % a) /\ m % a \in 0..(a - 1)
  BY <1>1 DEF q
<1>3. q * a = a * q /\ q * a \in Nat
  BY <1>2
<1>4. q * a >= n
  BY <1>1, <1>2, <1>3 DEF m
<1>5. QED BY <1>3, <1>4 DEF m, q

(* A request takes at least one byte, and at least what it asks for.       *)
LEMMA ReservedFacts ==
  ASSUME Assumptions, NEW req \in Request
  PROVE  /\ Reserved(req) \in Nat /\ AtLeastOne(req.size) \in Nat
         /\ AtLeastOne(req.size) >= 1 /\ Reserved(req) >= AtLeastOne(req.size)
<1> DEFINE a == IF AlignOf(req) > Grain THEN AlignOf(req) ELSE Grain
<1>1. req.size \in Nat /\ req.alignment \in Nat /\ Grain \in Nat \ {0}
  BY DEF Assumptions
<1>2. a \in Nat \ {0}
  BY <1>1 DEF AlignOf
<1>3. AtLeastOne(req.size) \in Nat /\ AtLeastOne(req.size) >= 1
  BY <1>1 DEF AtLeastOne
<1>4. Reserved(req) = ((AtLeastOne(req.size) + a - 1) \div a) * a
  BY DEF Reserved
<1> HIDE DEF a
<1>5. QED BY <1>2, <1>3, <1>4, RoundedUp

-----------------------------------------------------------------------------
LEMMA RegionInit ==
  ASSUME Assumptions, Init
  PROVE  RInv
<1>1. /\ object = None /\ announced = None /\ past = {} /\ early = FALSE
      /\ phase = [p \in Process |-> "outside"]
      /\ live = [p \in Process |-> Empty] /\ DOMAIN Empty = {}
      /\ lives = [p \in Process |-> 1]
      /\ cur = [p \in Process |-> 0] /\ asked = [p \in Process |-> None]
  BY DEF Init, Empty
<1>2. Empty \in [1..0 -> Piece]
  BY DEF Empty
<1>3. Types
  <2>1. \A p \in Process : \E n \in Nat : live[p] \in [1..n -> Piece]
    <3> SUFFICES ASSUME NEW p \in Process PROVE \E n \in Nat : live[p] \in [1..n -> Piece]
      OBVIOUS
    <3>1. live[p] = Empty BY <1>1
    <3>2. live[p] \in [1..0 -> Piece] BY <1>2, <3>1
    <3>3. QED BY <3>2
  <2>2. lives \in [Process -> 1..MaxLives] BY <1>1, Constants
  <2>3. /\ phase \in [Process -> {"outside", "mapped", "marked", "attached", "reserving",
                               "publishing", "left"}]
        /\ cur \in [Process -> Nat] /\ asked \in [Process -> Request \cup {None}]
    BY <1>1
  <2>4. QED BY <1>1, <2>1, <2>2, <2>3 DEF Types
<1>4. Standing
  BY <1>1, Constants DEF Standing, Inside, Setting, Process
<1>5. Owned = {} /\ Extents = {}
  BY <1>1 DEF Owned, Extents
<1>6. Whole /\ Parted
  BY <1>1, <1>5 DEF Whole, Parted
<1>7. Announcing
  BY <1>1, Constants DEF Announcing, Setting
<1>8. QED BY <1>3, <1>4, <1>6, <1>7 DEF RInv

(* Nothing changes but the answer to the caller.                           *)
LEMMA AnswerOnly ==
  ASSUME RInv,
         UNCHANGED <<object, announced, phase, cur, asked, live, lives, past, early>>
  PROVE  RInv'
<1>1. Types' /\ Standing'
  BY DEF RInv, Types, Standing, Inside
<1>2. Owned' = Owned /\ Extents' = Extents
  BY DEF Owned, Extents, Extent
<1>3. Whole'
  BY <1>2 DEF RInv, Whole, SetUp, InUse, Inside
<1>4. Parted'
  BY <1>2 DEF RInv, Parted, Extent
<1>5. Announcing'
  BY DEF RInv, Announcing, Inside
<1>6. QED BY <1>1, <1>3, <1>4, <1>5 DEF RInv

LEMMA SamePhase ==
  ASSUME RInv, NEW p \in Process, NEW ph, NEW code, phase[p] = ph, Becomes(p, ph, code)
  PROVE  phase' = phase
BY DEF RInv, Types, Becomes

(* What nobody gained, lost or discarded.                                  *)
LEMMA SameOwned ==
  ASSUME live' = live, past' = past
  PROVE  Owned' = Owned /\ Extents' = Extents /\ \A x \in Extents : Extent(x)' = Extent(x)
BY DEF Owned, Extents, Extent

LEMMA SameParted ==
  ASSUME RInv, live' = live, past' = past, early' = early \/ early'
  PROVE  Parted'
<1>1. early \in BOOLEAN /\ (~ early' => ~ early)
  BY DEF RInv, Types
<1>2. QED BY <1>1, SameOwned DEF RInv, Parted, Extent

-----------------------------------------------------------------------------
(* Construction.                                                           *)

LEMMA CreateKeeps ==
  ASSUME Assumptions, RInv, CreateMapping
  PROVE  RInv'
<1>1. Types /\ Standing /\ Announcing BY DEF RInv
<1>2. /\ phase[Creator] = "outside" /\ phase' = [phase EXCEPT ![Creator] = "mapped"]
      /\ \A p \in Process : ~ Inside(p)
      /\ object' = [magic |-> FALSE, offset |-> 0, size |-> 0, next |-> 0]
      /\ past' = {} /\ early' = FALSE
      /\ announced' = announced /\ live' = live /\ lives' = lives
      /\ cur' = cur /\ asked' = asked
  BY DEF CreateMapping, Becomes, locals
<1>3. object' \in Region /\ object' # None
  <2>1. object' \in Region
    <3>1. 0 \in 0..Total BY Constants
    <3>2. QED BY <1>2, <3>1 DEF Region
  <2>2. QED BY <2>1, Constants
<1>4. /\ phase'[Creator] = "mapped"
      /\ \A p \in Process : p # Creator => phase'[p] = phase[p]
  BY <1>1, <1>2, Constants DEF Types
<1>5. Types'
  BY <1>1, <1>2, <1>3 DEF Types
<1>6. \A p \in Process : DOMAIN live[p] = {}
  BY <1>1, <1>2 DEF Standing
<1>7. Standing'
  BY <1>1, <1>2, <1>3, <1>4, <1>6, Constants DEF Standing, Inside
<1>8. Owned' = {} /\ Extents' = {}
  BY <1>2, <1>6 DEF Owned, Extents
<1>9. SetUp'
  BY <1>2, <1>4, <1>8 DEF SetUp, Inside, Setting
<1>10. announced = None
  BY <1>1, <1>2, Constants DEF Announcing
<1>11. Announcing'
  BY <1>2, <1>4, <1>10, Constants DEF Announcing, Inside, Setting
<1>12. QED BY <1>5, <1>7, <1>8, <1>9, <1>11 DEF RInv, Whole, Parted

LEMMA WriteMagicKeeps ==
  ASSUME Assumptions, RInv, WriteMagic
  PROVE  RInv'
<1>1. Types /\ Standing /\ Whole /\ Announcing BY DEF RInv
<1>2. /\ phase[Creator] = "mapped" /\ phase' = [phase EXCEPT ![Creator] = "marked"]
      /\ object' = [object EXCEPT !.magic = TRUE]
      /\ announced' = announced /\ live' = live /\ lives' = lives /\ past' = past
      /\ early' = early /\ cur' = cur /\ asked' = asked
  BY DEF WriteMagic, Becomes, locals, history
<1>3. object \in Region /\ object # None
  BY <1>1, <1>2, Constants DEF Standing, Inside, Types
<1>4. /\ object' \in Region /\ object' # None /\ object'.next = object.next
      /\ object'.offset = object.offset /\ object'.size = object.size
  BY <1>2, <1>3, Constants DEF Region
<1>5. /\ phase'[Creator] = "marked"
      /\ \A p \in Process : p # Creator => phase'[p] = phase[p]
  BY <1>1, <1>2, Constants DEF Types
<1>6. Types'
  BY <1>1, <1>2, <1>4 DEF Types
<1>7. Standing'
  BY <1>1, <1>2, <1>4, <1>5, Constants DEF Standing, Inside
<1>8. Whole'
  <2>1. ~ InUse BY <1>2 DEF InUse, Setting
  <2>2. SetUp => SetUp'
    BY <1>2, <1>4, <1>5, SameOwned DEF SetUp, Inside, Setting
  <2>3. QED BY <1>1, <1>2, <1>3, <2>1, <2>2 DEF Whole
<1>9. Parted'
  BY <1>2, SameParted
<1>10. Announcing'
  <2>1. announced = None \/ FileBacked
    BY <1>1, <1>2, Constants DEF Announcing
  <2>2. \E p \in Process : Inside(p)'
    BY <1>5, Constants DEF Inside
  <2>3. announced = None /\ object.size = 0
    BY <1>1, <1>2, <2>1 DEF Announcing, Setting
  <2>4. QED
    BY <1>1, <1>2, <1>4, <1>5, <2>2, <2>3, Constants DEF Announcing, Setting
<1>11. QED BY <1>6, <1>7, <1>8, <1>9, <1>10 DEF RInv

LEMMA WriteNextKeeps ==
  ASSUME Assumptions, RInv, WriteNext
  PROVE  RInv'
<1>1. Types /\ Standing /\ Whole /\ Announcing BY DEF RInv
<1>2. /\ phase[Creator] = "marked" /\ phase' = [phase EXCEPT ![Creator] = "attached"]
      /\ object' = [object EXCEPT !.next = HeaderSize]
      /\ announced' = announced /\ live' = live /\ lives' = lives /\ past' = past
      /\ early' = early /\ cur' = cur /\ asked' = asked
  BY DEF WriteNext, Becomes, locals, history
<1>3. object \in Region /\ object # None
  BY <1>1, <1>2, Constants DEF Standing, Inside, Types
<1>4. /\ object' \in Region /\ object' # None /\ object'.next = HeaderSize
      /\ object'.offset = object.offset /\ object'.size = object.size
  BY <1>2, <1>3, Constants DEF Region
<1>5. /\ phase'[Creator] = "attached"
      /\ \A p \in Process : p # Creator => phase'[p] = phase[p]
  BY <1>1, <1>2, Constants DEF Types
<1>6. Types'
  BY <1>1, <1>2, <1>4 DEF Types
<1>7. Standing'
  BY <1>1, <1>2, <1>4, <1>5, Constants DEF Standing, Inside
<1>8. Whole'
  <2>1. ~ InUse BY <1>2 DEF InUse, Setting
  <2>2. SetUp => InUse'
    <3>1. SetUp => Owned' = {}
      BY <1>2, SameOwned DEF SetUp
    <3>2. HeaderSize <= object'.next
      BY <1>4, Constants
    <3>3. QED BY <1>5, <3>1, <3>2 DEF InUse, Setting
  <2>3. QED BY <1>1, <1>2, <1>3, <2>1, <2>2 DEF Whole
<1>9. Parted'
  BY <1>2, SameParted
<1>10. Announcing'
  <2>1. announced = None \/ FileBacked
    BY <1>1, <1>2, Constants DEF Announcing
  <2>2. \E p \in Process : Inside(p)'
    BY <1>5, Constants DEF Inside
  <2>3. announced = None /\ object.size = 0
    BY <1>1, <1>2, <2>1 DEF Announcing, Setting
  <2>4. QED
    BY <1>1, <1>2, <1>4, <1>5, <2>2, <2>3, Constants DEF Announcing, Setting
<1>11. QED BY <1>6, <1>7, <1>8, <1>9, <1>10 DEF RInv

(* An opener that finds no bump pointer makes the header one opened early; *)
(* behind an announcement there is always one.                             *)
LEMMA OpenKeeps ==
  ASSUME Assumptions, RInv, NEW p \in Openers, Open(p)
  PROVE  RInv'
<1>1. Types /\ Standing /\ Whole /\ Announcing BY DEF RInv
<1>2. /\ phase[p] = "outside" /\ phase' = [phase EXCEPT ![p] = "attached"]
      /\ FileBacked \/ announced # None
      /\ object # None /\ early' = (early \/ object.next < HeaderSize)
      /\ object' = object /\ announced' = announced /\ live' = live /\ lives' = lives
      /\ past' = past /\ cur' = cur /\ asked' = asked
  BY DEF Open, MayLook, Becomes, locals
<1>3. p \in Process /\ p # Creator
  BY Constants DEF Process
<1>4. /\ phase'[p] = "attached" /\ \A q \in Process : q # p => phase'[q] = phase[q]
      /\ phase'[Creator] = phase[Creator]
  BY <1>1, <1>2, <1>3, Constants DEF Types
<1>5. object.next \in Nat
  BY <1>1, <1>2, Constants DEF Types, Region
<1>6. Types'
  BY <1>1, <1>2, <1>3 DEF Types
<1>7. Standing'
  BY <1>1, <1>2, <1>3, <1>4, Constants DEF Standing, Inside, Setting
<1>8. SetUp => object.next < HeaderSize
  BY Constants DEF SetUp
<1>9. Whole'
  <2>1. ~ early' => InUse
    BY <1>1, <1>2, <1>8 DEF Whole, Types
  <2>2. InUse => InUse'
    BY <1>2, <1>4, SameOwned DEF InUse
  <2>3. QED BY <2>1, <2>2 DEF Whole
<1>10. Parted'
  BY <1>1, <1>2, SameOwned DEF RInv, Parted, Extent, Types
<1>11. ~ FileBacked => ~ early'
  <2>1. ASSUME ~ FileBacked PROVE ~ early /\ ~ (object.next < HeaderSize)
    <3>1. ~ early /\ phase[Creator] \notin Setting
      BY <1>1, <1>2, <2>1 DEF Announcing, Setting
    <3>2. ~ SetUp
      <4>1. PICK q \in Process : Inside(q)
        BY <1>1, <1>2, <2>1 DEF Announcing
      <4>2. QED BY <4>1, <3>1 DEF SetUp
    <3>3. QED BY <1>1, <1>2, <1>5, <3>1, <3>2, Constants DEF Whole, InUse
  <2>2. QED BY <1>2, <2>1
<1>12. \E q \in Process : Inside(q)'
  BY <1>3, <1>4 DEF Inside
<1>13. Announcing'
  BY <1>1, <1>2, <1>4, <1>11, <1>12 DEF Announcing, Inside
<1>14. QED BY <1>6, <1>7, <1>9, <1>10, <1>13 DEF RInv

-----------------------------------------------------------------------------
(* Allocation.                                                             *)

(* A process that reads the pointer, for the first time or again, gives up *)
(* or holds a value that leaves room for the request.                      *)
LEMMA ReadNextKeeps ==
  ASSUME Assumptions, RInv, NEW p \in Process, NEW req \in Request,
         phase[p] \in {"attached", "reserving"}, ReadNext(p, req),
         UNCHANGED <<object, announced, live, lives, past, early>>
  PROVE  RInv'
<1>1. Types /\ Standing /\ Whole /\ Announcing BY DEF RInv
<1>2. object # None /\ object \in Region /\ object.next \in Nat
  <2>1. object # None
    BY <1>1 DEF Standing, Inside
  <2>2. object \in Region
    BY <1>1, <2>1 DEF Types
  <2>3. QED BY <2>1, <2>2, Constants DEF Region
<1>3. /\ \A q \in Process : q # p => phase'[q] = phase[q] /\ cur'[q] = cur[q] /\ asked'[q] = asked[q]
      /\ phase'[p] \in {"attached", "reserving"}
      /\ phase'[p] = "reserving" => cur'[p] = object.next /\ asked'[p] = req /\ Fits(object.next, req)
      /\ phase' \in [Process -> {"outside", "mapped", "marked", "attached", "reserving",
                                 "publishing", "left"}]
      /\ cur' \in [Process -> Nat] /\ asked' \in [Process -> Request \cup {None}]
  <2> phase \in [Process -> {"outside", "mapped", "marked", "attached", "reserving",
                             "publishing", "left"}]
      /\ cur \in [Process -> Nat] /\ asked \in [Process -> Request \cup {None}]
    BY <1>1 DEF Types
  <2>1. CASE Fits(object.next, req)
    BY <1>2, <2>1 DEF ReadNext, Becomes
  <2>2. CASE ~ Fits(object.next, req)
    BY <2>2 DEF ReadNext, Becomes, Forget
  <2>3. QED BY <2>1, <2>2
<1>4. Types'
  BY <1>1, <1>3 DEF Types
<1>5. /\ \A q \in Process : (Inside(q)' <=> Inside(q))
      /\ \A q \in Process : phase'[q] \in Setting \cup {"publishing"} => phase'[q] = phase[q] /\ q # p
      /\ phase'[Creator] \in Setting <=> phase[Creator] \in Setting
  BY <1>3, Constants DEF Inside, Setting
<1>6. Standing'
  <2>1. \A q \in Process : phase'[q] = "reserving" =>
          asked'[q] \in Request /\ cur'[q] + Reserved(asked'[q]) <= Total
    BY <1>1, <1>3 DEF Standing, Fits
  <2>2. \A q \in Openers : phase'[q] \notin Setting \cup {"publishing"}
    BY <1>1, <1>5, Constants DEF Standing, Process
  <2>3. QED BY <1>1, <1>5, <2>1, <2>2 DEF Standing
<1>7. Owned' = Owned BY SameOwned
<1>8. Whole'
  <2>1. SetUp => SetUp'
    BY <1>3, <1>5, <1>7 DEF SetUp, Inside, Setting
  <2>2. InUse => InUse'
    BY <1>5, <1>7 DEF InUse
  <2>3. QED BY <1>1, <2>1, <2>2 DEF Whole
<1>9. Parted' BY SameParted
<1>10. Announcing'
  <2>1. /\ phase'[Creator] = "publishing" => phase[Creator] = "publishing" /\ cur'[Creator] = cur[Creator]
        /\ phase'[Creator] \in {"attached", "reserving"} =>
             phase[Creator] \in {"attached", "reserving"}
        /\ (phase'[Creator] = "left") = (phase[Creator] = "left")
        /\ phase[Creator] \in {"attached", "reserving", "publishing", "left"} =>
             phase'[Creator] \in {"attached", "reserving", "publishing", "left"}
    BY <1>3, <1>5, Constants
  <2>2. (\E q \in Process : Inside(q)) => \E q \in Process : Inside(q)'
    BY <1>5
  <2>3. QED BY <1>1, <1>5, <2>1, <2>2 DEF Announcing
<1>11. QED BY <1>4, <1>6, <1>8, <1>9, <1>10 DEF RInv

LEMMA AllocateKeeps ==
  ASSUME Assumptions, RInv, NEW p \in Process, NEW req \in Request, Allocate(p, req)
  PROVE  RInv'
BY ReadNextKeeps DEF Allocate, history

LEMMA RetryKeeps ==
  ASSUME Assumptions, RInv, NEW p \in Process, Retry(p)
  PROVE  RInv'
<1>1. asked[p] \in Request BY DEF RInv, Standing, Retry
<1>2. QED BY <1>1, ReadNextKeeps DEF Retry, history

(* What a swap that succeeds gives out: the bytes from where the pointer   *)
(* stands, under an id that is new.                                        *)
Given(p) == [offset |-> cur[p], size |-> AtLeastOne(asked[p].size)]

LEMMA ReserveGives ==
  ASSUME Assumptions, RInv, NEW p \in Process, Reserve(p)
  PROVE  \E n \in Nat :
           /\ DOMAIN live[p] = 1..n /\ live'[p] \in [1..(n + 1) -> Piece]
           /\ live'[p][n + 1] = Given(p)
           /\ \A h \in 1..n : live'[p][h] = live[p][h]
           /\ Given(p) \in Piece
           /\ DOMAIN live' = Process /\ \A q \in Process : q # p => live'[q] = live[q]
<1>1. Types /\ Standing BY DEF RInv
<1>2. PICK n \in Nat : live[p] \in [1..n -> Piece]
  BY <1>1 DEF Types
<1>3. DOMAIN live[p] = 1..n BY <1>2
<1>4. Cardinality(1..n) = n
  BY <1>2, FS_Interval
<1>5. /\ phase[p] = "reserving" /\ asked[p] \in Request /\ cur[p] \in Nat
      /\ cur[p] + Reserved(asked[p]) <= Total
  BY <1>1 DEF Standing, Types, Reserve
<1>6. Given(p) \in Piece
  <2>1. /\ Reserved(asked[p]) \in Nat /\ AtLeastOne(asked[p].size) \in Nat
        /\ AtLeastOne(asked[p].size) >= 1 /\ Reserved(asked[p]) >= AtLeastOne(asked[p].size)
    BY <1>5, ReservedFacts
  <2>2. cur[p] \in 0..Total /\ AtLeastOne(asked[p].size) \in 1..Total
    BY <1>5, <2>1, Constants
  <2>3. QED BY <2>2 DEF Given, Piece
<1>7. live' = [live EXCEPT ![p] =
                 [h \in 1..n \cup {n + 1} |-> IF h = n + 1 THEN Given(p) ELSE live[p][h]]]
  BY <1>3, <1>4 DEF Reserve, Given
<1>8. 1..n \cup {n + 1} = 1..(n + 1) /\ n + 1 \notin 1..n
  BY <1>2
<1>9. live'[p] = [h \in 1..(n + 1) |-> IF h = n + 1 THEN Given(p) ELSE live[p][h]]
  BY <1>1, <1>7, <1>8 DEF Types
<1>10. live'[p] \in [1..(n + 1) -> Piece]
  BY <1>2, <1>6, <1>8, <1>9
<1>11. DOMAIN live' = Process /\ \A q \in Process : q # p => live'[q] = live[q]
  BY <1>1, <1>7 DEF Types
<1>12. live'[p][n + 1] = Given(p) /\ \A h \in 1..n : live'[p][h] = live[p][h]
  BY <1>2, <1>8, <1>9
<1>13. QED BY <1>2, <1>3, <1>6, <1>10, <1>11, <1>12

(* The pointer was where it is now, so what is given out begins where all  *)
(* that was given out before ends.                                         *)
LEMMA ReserveKeeps ==
  ASSUME Assumptions, RInv, NEW p \in Process, Reserve(p)
  PROVE  RInv'
<1>1. Types /\ Standing /\ Whole /\ Parted /\ Announcing BY DEF RInv
<1>2. PICK n \in Nat :
           /\ DOMAIN live[p] = 1..n /\ live'[p] \in [1..(n + 1) -> Piece]
           /\ live'[p][n + 1] = Given(p)
           /\ \A h \in 1..n : live'[p][h] = live[p][h]
           /\ Given(p) \in Piece
           /\ DOMAIN live' = Process /\ \A q \in Process : q # p => live'[q] = live[q]
  BY ReserveGives
<1>3. /\ phase[p] = "reserving" /\ object.next = cur[p]
      /\ object' = [object EXCEPT !.next = cur[p] + Reserved(asked[p])]
      /\ phase' = [phase EXCEPT ![p] = "attached"]
      /\ cur' = [cur EXCEPT ![p] = 0] /\ asked' = [asked EXCEPT ![p] = None]
      /\ announced' = announced /\ lives' = lives /\ past' = past /\ early' = early
  BY DEF Reserve, Unmoved, Becomes, Forget, history
<1>4. object # None /\ object \in Region
  <2>1. object # None BY <1>1, <1>3 DEF Standing, Inside
  <2>2. QED BY <1>1, <2>1 DEF Types
<1>5. /\ asked[p] \in Request /\ cur[p] \in Nat /\ cur[p] + Reserved(asked[p]) <= Total
  BY <1>1, <1>3 DEF Standing, Types
<1>6. /\ Reserved(asked[p]) \in Nat /\ AtLeastOne(asked[p].size) \in Nat
      /\ AtLeastOne(asked[p].size) >= 1 /\ Reserved(asked[p]) >= AtLeastOne(asked[p].size)
  BY <1>5, ReservedFacts
<1>7. /\ object' \in Region /\ object' # None
      /\ object'.next = cur[p] + Reserved(asked[p])
      /\ object'.offset = object.offset /\ object'.size = object.size
  <2>1. cur[p] + Reserved(asked[p]) \in 0..Total
    BY <1>5, <1>6, Constants
  <2>2. QED BY <1>3, <1>4, <2>1, Constants DEF Region
<1>8. /\ Given(p).offset = cur[p] /\ Given(p).size = AtLeastOne(asked[p].size)
      /\ Given(p).offset + Given(p).size <= object'.next
  BY <1>5, <1>6, <1>7 DEF Given
<1>9. /\ phase'[p] = "attached" /\ \A q \in Process : q # p => phase'[q] = phase[q]
      /\ \A q \in Process : q # p => cur'[q] = cur[q] /\ asked'[q] = asked[q]
  BY <1>1, <1>3 DEF Types
<1>10. Types'
  <2>1. \A q \in Process : \E m \in Nat : live'[q] \in [1..m -> Piece]
    <3> SUFFICES ASSUME NEW q \in Process PROVE \E m \in Nat : live'[q] \in [1..m -> Piece]
      OBVIOUS
    <3>1. CASE q = p
      <4>1. n + 1 \in Nat BY <1>2
      <4>2. QED BY <1>2, <3>1, <4>1
    <3>2. CASE q # p BY <1>1, <1>2, <3>2 DEF Types
    <3>3. QED BY <3>1, <3>2
  <2>2. /\ phase' \in [Process -> {"outside", "mapped", "marked", "attached", "reserving",
                                  "publishing", "left"}]
        /\ cur' \in [Process -> Nat] /\ asked' \in [Process -> Request \cup {None}]
    BY <1>1, <1>3 DEF Types
  <2>3. QED BY <1>1, <1>2, <1>3, <1>7, <2>1, <2>2 DEF Types
<1>11. Standing'
  <2>1. \A q \in Process : ~ Inside(q)' => DOMAIN live'[q] = {}
    BY <1>1, <1>2, <1>9 DEF Standing, Inside
  <2>2. \A q \in Process : phase'[q] = "reserving" =>
          asked'[q] \in Request /\ cur'[q] + Reserved(asked'[q]) <= Total
    BY <1>1, <1>9 DEF Standing
  <2>3. \A q \in Openers : phase'[q] \notin Setting \cup {"publishing"}
    BY <1>1, <1>9 DEF Standing, Process, Setting
  <2>4. QED BY <1>7, <2>1, <2>2, <2>3 DEF Standing
<1>12. /\ Extents' = Extents \cup {<<p, n + 1>>} /\ <<p, n + 1>> \notin Extents
       /\ \A x \in Extents : Extent(x)' = Extent(x)
       /\ Extent(<<p, n + 1>>)' = Given(p)
  <2>1. DOMAIN live'[p] = 1..n \cup {n + 1} /\ n + 1 \notin DOMAIN live[p]
    BY <1>2
  <2>2. Extents' = Extents \cup {<<p, n + 1>>} /\ <<p, n + 1>> \notin Extents
    BY <1>2, <2>1 DEF Extents
  <2>3. ASSUME NEW x \in Extents PROVE Extent(x)' = Extent(x)
    <3>1. PICK q \in Process : \E h \in DOMAIN live[q] : x = <<q, h>>
      BY DEF Extents
    <3>2. PICK h \in DOMAIN live[q] : x = <<q, h>>
      BY <3>1
    <3>3. live'[q][h] = live[q][h]
      BY <1>2, <3>2
    <3>4. QED BY <3>2, <3>3 DEF Extent
  <2>4. QED BY <1>2, <2>2, <2>3 DEF Extent
<1>13. Owned' = Owned \cup {Given(p)}
  BY <1>3, <1>12 DEF Owned
<1>14. ASSUME ~ early PROVE InUse
  <2>1. ~ SetUp BY <1>3 DEF SetUp, Inside, Setting
  <2>2. QED BY <1>1, <1>4, <1>14, <2>1 DEF Whole
<1>15. Owned \subseteq Piece
  BY <1>1 DEF Owned, Extents, Extent, Types
<1>16. ASSUME ~ early, NEW e \in Owned
       PROVE  /\ e.offset \in Nat /\ e.size \in Nat /\ e.size > 0
              /\ HeaderSize <= e.offset /\ e.offset + e.size <= cur[p]
              /\ e.offset + e.size <= object'.next
  <2>1. e.offset \in Nat /\ e.size \in Nat /\ e.size > 0
    BY <1>15, Constants DEF Piece
  <2>2. HeaderSize <= e.offset /\ e.offset + e.size <= cur[p]
    BY <1>3, <1>14, <1>16 DEF InUse
  <2>3. QED BY <1>5, <1>6, <1>7, <2>1, <2>2
<1>17. Whole'
  <2>1. ASSUME ~ early PROVE InUse'
    <3>1. HeaderSize <= object'.next /\ HeaderSize <= Given(p).offset
      BY <1>3, <1>5, <1>6, <1>7, <1>8, <1>14, <2>1, Constants DEF InUse
    <3>2. phase'[Creator] \notin Setting
      BY <1>9, <1>14, <2>1, Constants DEF InUse, Setting
    <3>3. \A e \in Owned' : HeaderSize <= e.offset /\ e.offset + e.size <= object'.next
      BY <1>8, <1>13, <1>16, <2>1, <3>1
    <3>4. QED BY <3>1, <3>2, <3>3 DEF InUse
  <2>2. QED BY <1>3, <2>1 DEF Whole
<1>18. Parted'
  <2> SUFFICES ASSUME ~ early PROVE Parted'
    BY <1>3 DEF Parted
  <2>1. Given(p).offset = cur[p] /\ Given(p).size \in Nat /\ Given(p) \notin Owned
    BY <1>5, <1>6, <1>8, <1>16
  <2>2. \A e \in Owned : Apart(e, Given(p)) /\ Apart(Given(p), e)
    BY <1>16, <2>1 DEF Apart
  <2>3. \A e, f \in Owned' : e # f => Apart(e, f)
    BY <1>1, <1>13, <2>2 DEF Parted
  <2>4. \A x \in Extents : Extent(x) # Given(p)
    BY <2>1 DEF Owned
  <2>5. \A x, y \in Extents' : x # y => Extent(x)' # Extent(y)'
    BY <1>1, <1>12, <2>4 DEF Parted
  <2>6. Given(p) \notin past
    BY <2>1 DEF Owned
  <2>7. \A x \in Extents' : Extent(x)' \notin past
    BY <1>1, <1>12, <2>6 DEF Parted
  <2>8. QED BY <1>3, <2>3, <2>5, <2>7 DEF Parted
<1>19. Announcing'
  <2>1. /\ phase'[Creator] = "publishing" =>
             phase[Creator] = "publishing" /\ cur'[Creator] = cur[Creator]
        /\ phase'[Creator] \in {"attached", "reserving"} =>
             phase[Creator] \in {"attached", "reserving"}
        /\ (phase'[Creator] = "left") <=> (phase[Creator] = "left")
        /\ phase'[Creator] \in Setting <=> phase[Creator] \in Setting
        /\ phase[Creator] \in {"attached", "reserving", "publishing", "left"} =>
             phase'[Creator] \in {"attached", "reserving", "publishing", "left"}
    BY <1>3, <1>9, Constants DEF Setting
  <2>2. \E q \in Process : Inside(q)'
    BY <1>9 DEF Inside
  <2>3. \A h \in DOMAIN live[Creator] :
          h \in DOMAIN live'[Creator] /\ live'[Creator][h] = live[Creator][h]
    <3>1. DOMAIN live'[p] = 1..(n + 1) /\ 1..n \subseteq 1..(n + 1)
      BY <1>2
    <3>2. QED BY <1>2, <3>1, Constants
  <2>4. QED BY <1>1, <1>3, <1>4, <1>7, <2>1, <2>2, <2>3 DEF Announcing
<1>20. QED BY <1>10, <1>11, <1>17, <1>18, <1>19 DEF RInv

-----------------------------------------------------------------------------
(* Publishing.                                                             *)

LEMMA PublishOffsetKeeps ==
  ASSUME Assumptions, RInv, NEW h, PublishOffset(h)
  PROVE  RInv'
<1>1. Types /\ Standing /\ Whole /\ Announcing BY DEF RInv
<1>2. /\ ~ FileBacked /\ phase[Creator] = "attached" /\ announced = None
      /\ h \in DOMAIN live[Creator]
      /\ object' = [object EXCEPT !.offset = live[Creator][h].offset]
      /\ phase' = [phase EXCEPT ![Creator] = "publishing"]
      /\ cur' = [cur EXCEPT ![Creator] = h]
      /\ announced' = announced /\ live' = live /\ lives' = lives /\ past' = past
      /\ early' = early /\ asked' = asked
  BY DEF PublishOffset, history
<1>3. object # None /\ object \in Region
  <2>1. object # None BY <1>1, <1>2, Constants DEF Standing, Inside
  <2>2. QED BY <1>1, <2>1 DEF Types
<1>4. h \in Nat /\ live[Creator][h] \in Piece
  BY <1>1, <1>2, Constants DEF Types
<1>5. /\ object' \in Region /\ object' # None /\ object'.next = object.next
      /\ object'.offset = live[Creator][h].offset /\ object'.size = object.size
  <2>1. live[Creator][h].offset \in 0..Total BY <1>4 DEF Piece
  <2>2. QED BY <1>2, <1>3, <2>1, Constants DEF Region
<1>6. /\ phase'[Creator] = "publishing" /\ cur'[Creator] = h
      /\ \A q \in Process : q # Creator => phase'[q] = phase[q] /\ cur'[q] = cur[q]
      /\ phase' \in [Process -> {"outside", "mapped", "marked", "attached", "reserving",
                                 "publishing", "left"}]
      /\ cur' \in [Process -> Nat]
  BY <1>1, <1>2, <1>4, Constants DEF Types
<1>7. Types'
  BY <1>1, <1>2, <1>5, <1>6 DEF Types
<1>8. Standing'
  BY <1>1, <1>2, <1>5, <1>6, Constants DEF Standing, Inside
<1>9. Whole'
  <2>1. ~ SetUp BY <1>2, Constants DEF SetUp, Inside, Setting
  <2>2. InUse => InUse'
    BY <1>2, <1>5, <1>6, SameOwned DEF InUse, Setting
  <2>3. QED BY <1>1, <1>2, <1>3, <2>1, <2>2 DEF Whole
<1>10. Parted' BY <1>2, SameParted
<1>11. \E q \in Process : Inside(q)'
  BY <1>6, Constants DEF Inside
<1>12. Announcing'
  BY <1>1, <1>2, <1>5, <1>6, <1>11 DEF Announcing, Setting
<1>13. QED BY <1>7, <1>8, <1>9, <1>10, <1>12 DEF RInv

LEMMA PublishSizeKeeps ==
  ASSUME Assumptions, RInv, PublishSize
  PROVE  RInv'
<1> DEFINE h == cur[Creator]
<1>1. Types /\ Standing /\ Whole /\ Announcing BY DEF RInv
<1>2. /\ phase[Creator] = "publishing"
      /\ object' = [object EXCEPT !.size = live[Creator][h].size]
      /\ phase' = [phase EXCEPT ![Creator] = "attached"]
      /\ cur' = [cur EXCEPT ![Creator] = 0] /\ asked' = [asked EXCEPT ![Creator] = None]
      /\ announced' = announced /\ live' = live /\ lives' = lives /\ past' = past
      /\ early' = early
  BY DEF PublishSize, Becomes, Forget, history
<1>3. object # None /\ object \in Region
  <2>1. object # None BY <1>1, <1>2, Constants DEF Standing, Inside
  <2>2. QED BY <1>1, <2>1 DEF Types
<1>4. /\ ~ FileBacked /\ h \in DOMAIN live[Creator]
      /\ object.offset = live[Creator][h].offset
  BY <1>1, <1>2, Constants DEF Announcing
<1>5. live[Creator][h] \in Piece
  BY <1>1, <1>4, Constants DEF Types
<1>6. /\ object' \in Region /\ object' # None /\ object'.next = object.next
      /\ object'.offset = live[Creator][h].offset /\ object'.size = live[Creator][h].size
  <2>1. live[Creator][h].size \in 0..Total BY <1>5, Constants DEF Piece
  <2>2. QED BY <1>2, <1>3, <1>4, <2>1, Constants DEF Region
<1>7. live'[Creator][h] = [offset |-> object'.offset, size |-> object'.size]
  BY <1>2, <1>5, <1>6 DEF Piece
<1>8. /\ phase'[Creator] = "attached"
      /\ \A q \in Process : q # Creator =>
           phase'[q] = phase[q] /\ cur'[q] = cur[q] /\ asked'[q] = asked[q]
      /\ phase' \in [Process -> {"outside", "mapped", "marked", "attached", "reserving",
                                 "publishing", "left"}]
      /\ cur' \in [Process -> Nat] /\ asked' \in [Process -> Request \cup {None}]
  BY <1>1, <1>2, Constants DEF Types
<1> HIDE DEF h
<1>9. Types'
  BY <1>1, <1>2, <1>6, <1>8 DEF Types
<1>10. Standing'
  BY <1>1, <1>2, <1>6, <1>8, Constants DEF Standing, Inside
<1>11. Whole'
  <2>1. ~ SetUp BY <1>2, Constants DEF SetUp, Inside, Setting
  <2>2. InUse => InUse'
    BY <1>2, <1>6, <1>8, SameOwned DEF InUse, Setting
  <2>3. QED BY <1>1, <1>2, <1>3, <2>1, <2>2 DEF Whole
<1>12. Parted' BY <1>2, SameParted
<1>13. \E q \in Process : Inside(q)'
  BY <1>8, Constants DEF Inside
<1>14. Announcing'
  BY <1>1, <1>2, <1>4, <1>6, <1>7, <1>8, <1>13 DEF Announcing, Setting
<1>15. QED BY <1>9, <1>10, <1>11, <1>12, <1>14 DEF RInv

LEMMA AnnounceKeeps ==
  ASSUME Assumptions, RInv, Announce
  PROVE  RInv'
<1>1. Types /\ Standing /\ Whole /\ Announcing BY DEF RInv
<1>2. /\ phase[Creator] = "attached" /\ announced = None /\ object.size > 0
      /\ announced' = [offset |-> object.offset, size |-> object.size]
      /\ object' = object /\ phase' = phase /\ cur' = cur /\ asked' = asked
      /\ live' = live /\ lives' = lives /\ past' = past /\ early' = early
  BY DEF Announce, locals, history
<1>3. object # None /\ object \in Region
  <2>1. object # None BY <1>1, <1>2, Constants DEF Standing, Inside
  <2>2. QED BY <1>1, <2>1 DEF Types
<1>4. ~ FileBacked
  <2>1. FileBacked => object.size = 0 BY <1>1, <1>3 DEF Announcing
  <2>2. QED BY <1>2, <2>1
<1>5. announced' \in Piece /\ announced' # None
  <2>1. object.offset \in 0..Total /\ object.size \in 1..Total
    BY <1>2, <1>3, Constants DEF Region
  <2>2. announced' \in Piece BY <1>2, <2>1 DEF Piece
  <2>3. QED BY <2>2, Constants
<1>6. Types'
  BY <1>1, <1>2, <1>5 DEF Types
<1>7. Standing'
  BY <1>1, <1>2 DEF Standing, Inside
<1>8. Whole'
  BY <1>1, <1>2, SameOwned DEF Whole, SetUp, InUse, Inside
<1>9. Parted' BY <1>2, SameParted
<1>10. \E h \in DOMAIN live'[Creator] : live'[Creator][h] = announced'
  BY <1>1, <1>2 DEF Announcing
<1>11. Announcing'
  BY <1>1, <1>2, <1>4, <1>10 DEF Announcing, Inside, Setting
<1>12. QED BY <1>6, <1>7, <1>8, <1>9, <1>11 DEF RInv

-----------------------------------------------------------------------------
(* Leaving.                                                                *)

(* What a process that goes leaves behind: in a region that stays, all it  *)
(* was given, as an extent of the past; with the last one, nothing.        *)
LEMMA GoneLeaves ==
  ASSUME Assumptions, RInv, NEW p \in Process, Gone(p)
  PROVE  /\ DOMAIN live' = Process /\ live'[p] = Empty
         /\ \A q \in Process : q # p => live'[q] = live[q]
         /\ Extents' \subseteq {x \in Extents : x[1] # p}
         /\ \A x \in Extents' : Extent(x)' = Extent(x)
         /\ \/ /\ FileBacked \/ \E q \in Process \ {p} : Inside(q)
               /\ object' = object
               /\ past' = past \cup {live[p][h] : h \in DOMAIN live[p]}
               /\ Owned' = Owned
            \/ /\ ~ FileBacked /\ \A q \in Process \ {p} : ~ Inside(q)
               /\ object' = None /\ past' = {} /\ Owned' = {} /\ Extents' = {}
<1>1. Types /\ Standing BY DEF RInv
<1>2. live' = [live EXCEPT ![p] = Empty]
  BY DEF Gone
<1>3. DOMAIN live' = Process /\ live'[p] = Empty /\ \A q \in Process : q # p => live'[q] = live[q]
  BY <1>1, <1>2 DEF Types
<1>4. DOMAIN Empty = {} BY DEF Empty
<1>5. ASSUME NEW x \in Extents' PROVE x \in Extents /\ x[1] # p /\ Extent(x)' = Extent(x)
  <2>1. PICK q \in Process : \E h \in DOMAIN live'[q] : x = <<q, h>>
    BY <1>5 DEF Extents
  <2>2. PICK h \in DOMAIN live'[q] : x = <<q, h>>
    BY <2>1
  <2>3. q # p /\ live'[q] = live[q]
    BY <1>3, <1>4, <2>2
  <2>4. x \in Extents
    BY <2>2, <2>3 DEF Extents
  <2>5. QED BY <2>2, <2>3, <2>4 DEF Extent
<1>6. ASSUME NEW x \in Extents, x[1] # p PROVE x \in Extents'
  <2>1. PICK q \in Process : \E h \in DOMAIN live[q] : x = <<q, h>>
    BY DEF Extents
  <2>2. PICK h \in DOMAIN live[q] : x = <<q, h>>
    BY <2>1
  <2>3. q # p /\ live'[q] = live[q]
    BY <1>3, <1>6, <2>2
  <2>4. QED BY <2>2, <2>3 DEF Extents
<1>7. CASE FileBacked \/ \E q \in Process \ {p} : Inside(q)
  <2>1. object' = object /\ past' = past \cup {live[p][h] : h \in DOMAIN live[p]}
    BY <1>7 DEF Gone, Range
  <2>2. \A h \in DOMAIN live[p] : <<p, h>> \in Extents /\ Extent(<<p, h>>) = live[p][h]
    BY DEF Extents, Extent
  <2>3. ASSUME NEW x \in Extents, x[1] = p PROVE Extent(x) \in {live[p][h] : h \in DOMAIN live[p]}
    <3>1. PICK q \in Process : \E h \in DOMAIN live[q] : x = <<q, h>>
      BY DEF Extents
    <3>2. PICK h \in DOMAIN live[q] : x = <<q, h>>
      BY <3>1
    <3>3. QED BY <2>3, <3>2 DEF Extent
  <2>4. Owned' \subseteq Owned
    BY <1>5, <2>1, <2>2 DEF Owned
  <2>5. Owned \subseteq Owned'
    <3>1. \A x \in Extents : Extent(x) \in Owned'
      <4> SUFFICES ASSUME NEW x \in Extents PROVE Extent(x) \in Owned'
        OBVIOUS
      <4>1. CASE x[1] = p BY <2>1, <2>3, <4>1 DEF Owned
      <4>2. CASE x[1] # p
        <5>1. x \in Extents' /\ Extent(x)' = Extent(x) BY <1>5, <1>6, <4>2
        <5>2. QED BY <5>1 DEF Owned
      <4>3. QED BY <4>1, <4>2
    <3>2. past \subseteq Owned' BY <2>1 DEF Owned
    <3>3. QED BY <3>1, <3>2 DEF Owned
  <2>6. QED BY <1>3, <1>5, <1>7, <2>1, <2>4, <2>5
<1>8. CASE ~ (FileBacked \/ \E q \in Process \ {p} : Inside(q))
  <2>1. object' = None /\ past' = {}
    BY <1>8 DEF Gone
  <2>2. \A q \in Process : DOMAIN live'[q] = {}
    BY <1>1, <1>3, <1>4, <1>8 DEF Standing
  <2>3. Extents' = {} BY <2>2 DEF Extents
  <2>4. Owned' = {} BY <2>1, <2>3 DEF Owned
  <2>5. QED BY <1>3, <1>5, <1>8, <2>1, <2>3, <2>4
<1>9. QED BY <1>7, <1>8

LEMMA GoneKeeps ==
  ASSUME Assumptions, RInv, NEW p \in Process, Gone(p), Inside(p)
  PROVE  RInv'
<1>1. Types /\ Standing /\ Whole /\ Parted /\ Announcing BY DEF RInv
<1>2. /\ phase' = [phase EXCEPT ![p] = "left"]
      /\ cur' = [cur EXCEPT ![p] = 0] /\ asked' = [asked EXCEPT ![p] = None]
      /\ announced' = announced /\ lives' = lives /\ early' = early
  BY DEF Gone, Becomes, Forget
<1>3. /\ DOMAIN live' = Process /\ live'[p] = Empty
      /\ \A q \in Process : q # p => live'[q] = live[q]
      /\ Extents' \subseteq {x \in Extents : x[1] # p}
      /\ \A x \in Extents' : Extent(x)' = Extent(x)
      /\ \/ /\ FileBacked \/ \E q \in Process \ {p} : Inside(q)
            /\ object' = object
            /\ past' = past \cup {live[p][h] : h \in DOMAIN live[p]}
            /\ Owned' = Owned
         \/ /\ ~ FileBacked /\ \A q \in Process \ {p} : ~ Inside(q)
            /\ object' = None /\ past' = {} /\ Owned' = {} /\ Extents' = {}
  BY GoneLeaves
<1>4. object # None /\ object \in Region
  <2>1. object # None BY <1>1 DEF Standing
  <2>2. QED BY <1>1, <2>1 DEF Types
<1>5. /\ phase'[p] = "left"
      /\ \A q \in Process : q # p =>
           phase'[q] = phase[q] /\ cur'[q] = cur[q] /\ asked'[q] = asked[q]
      /\ phase' \in [Process -> {"outside", "mapped", "marked", "attached", "reserving",
                                 "publishing", "left"}]
      /\ cur' \in [Process -> Nat] /\ asked' \in [Process -> Request \cup {None}]
  BY <1>1, <1>2 DEF Types
<1>6. /\ ~ Inside(p)' /\ \A q \in Process : q # p => (Inside(q)' <=> Inside(q))
      /\ DOMAIN live'[p] = {}
  BY <1>3, <1>5 DEF Inside, Empty
<1>7. past' \subseteq Piece
  <2>1. {live[p][h] : h \in DOMAIN live[p]} \subseteq Piece
    BY SMTT(60), <1>1 DEF Types
  <2>2. QED BY <1>1, <1>3, <2>1 DEF Types
<1>8. Types'
  <2>1. \A q \in Process : \E n \in Nat : live'[q] \in [1..n -> Piece]
    <3> SUFFICES ASSUME NEW q \in Process PROVE \E n \in Nat : live'[q] \in [1..n -> Piece]
      OBVIOUS
    <3>1. CASE q = p
      <4>1. live'[q] \in [1..0 -> Piece] BY <1>3, <3>1 DEF Empty
      <4>2. QED BY <4>1
    <3>2. CASE q # p BY <1>1, <1>3, <3>2 DEF Types
    <3>3. QED BY <3>1, <3>2
  <2>2. object' = None \/ object' \in Region BY <1>3, <1>4
  <2>3. QED BY <1>1, <1>2, <1>3, <1>5, <1>7, <2>1, <2>2 DEF Types
<1>9. Standing'
  <2>1. \A q \in Process : Inside(q)' => object' # None
    BY <1>3, <1>4, <1>6
  <2>2. \A q \in Process : ~ Inside(q)' => DOMAIN live'[q] = {}
    BY <1>1, <1>3, <1>6 DEF Standing
  <2>3. object' = None => past' = {}
    BY <1>3, <1>4
  <2>4. /\ \A q \in Openers : phase'[q] \notin Setting \cup {"publishing"}
        /\ \A q \in Process : phase'[q] = "reserving" =>
             asked'[q] \in Request /\ cur'[q] + Reserved(asked'[q]) <= Total
    BY <1>1, <1>5 DEF Standing, Process, Setting
  <2>5. QED BY <2>1, <2>2, <2>3, <2>4 DEF Standing
<1>10. Whole'
  <2> SUFFICES ASSUME ~ early, object' # None PROVE SetUp' \/ InUse'
    BY <1>2 DEF Whole
  <2>1. object' = object /\ Owned' = Owned
    BY <1>3
  <2>2. SetUp => SetUp'
    BY <1>5, <1>6, <2>1 DEF SetUp
  <2>3. InUse => InUse'
    BY <1>5, <2>1, Constants DEF InUse, Setting
  <2>4. QED BY <1>1, <1>4, <2>2, <2>3 DEF Whole
<1>11. Parted'
  <2> SUFFICES ASSUME ~ early PROVE Parted'
    BY <1>2 DEF Parted
  <2>1. Owned' \subseteq Owned
    BY <1>3
  <2>2. \A x \in Extents' : Extent(x)' \notin past'
    <3> SUFFICES ASSUME NEW x \in Extents' PROVE Extent(x)' \notin past'
      OBVIOUS
    <3>1. x \in Extents /\ x[1] # p /\ Extent(x)' = Extent(x)
      BY <1>3
    <3>2. \A h \in DOMAIN live[p] : <<p, h>> \in Extents /\ Extent(<<p, h>>) = live[p][h]
      BY DEF Extents, Extent
    <3>3. \A h \in DOMAIN live[p] : x # <<p, h>>
      BY <3>1
    <3>4. Extent(x) \notin {live[p][h] : h \in DOMAIN live[p]}
      BY <1>1, <3>1, <3>2, <3>3 DEF Parted
    <3>5. Extent(x) \notin past BY <1>1, <3>1 DEF Parted
    <3>6. QED BY <1>3, <3>1, <3>4, <3>5
  <2>3. QED BY <1>1, <1>3, <2>1, <2>2 DEF Parted
<1>12. Announcing'
  <2>1. ASSUME FileBacked
        PROVE announced' = None /\ phase'[Creator] # "publishing" /\ object'.size = 0
    BY <1>1, <1>2, <1>3, <1>4, <1>5, <2>1, Constants DEF Announcing
  <2>2. ASSUME ~ FileBacked, object' # None PROVE \E q \in Process : Inside(q)'
    BY <1>3, <1>6, <2>2
  <2>3. ASSUME ~ FileBacked, announced' # None
        PROVE phase'[Creator] \in {"attached", "reserving", "publishing", "left"}
    BY <1>1, <1>2, <1>5, <2>3, Constants DEF Announcing
  <2>4. ASSUME phase'[Creator] \in Setting \cup {"attached", "reserving", "publishing"}
        PROVE  /\ phase'[Creator] = phase[Creator] /\ cur'[Creator] = cur[Creator]
               /\ live'[Creator] = live[Creator] /\ object' = object
    <3>1. Creator # p BY <1>5, <2>4 DEF Setting
    <3>2. Inside(Creator) BY <1>5, <2>4, <3>1, Constants DEF Inside, Setting
    <3>3. QED BY <1>3, <1>5, <3>1, <3>2, Constants
  <2>5. ASSUME announced' # None, phase'[Creator] # "left"
        PROVE \E h \in DOMAIN live'[Creator] : live'[Creator][h] = announced'
    BY <1>1, <1>2, <1>3, <1>5, <2>5, Constants DEF Announcing
  <2>6. ASSUME announced' # None, phase'[Creator] = "left", object' # None
        PROVE announced' \in past'
    <3>1. past' = past \cup {live[p][h] : h \in DOMAIN live[p]}
      BY <1>3, <2>6
    <3>2. CASE p = Creator
      BY <1>1, <1>2, <2>6, <3>1, <3>2 DEF Announcing, Inside
    <3>3. CASE p # Creator
      BY <1>1, <1>2, <1>4, <1>5, <2>6, <3>1, <3>3, Constants DEF Announcing
    <3>4. QED BY <3>2, <3>3
  <2>7. QED
    BY <1>1, <1>2, <2>1, <2>2, <2>3, <2>4, <2>5, <2>6 DEF Announcing
<1>13. QED BY <1>8, <1>9, <1>10, <1>11, <1>12 DEF RInv

(* Only a file sees a process take another one's place.                    *)
LEMMA RestartKeeps ==
  ASSUME Assumptions, RInv, NEW p \in Process, Restart(p)
  PROVE  RInv'
<1>1. Types /\ Standing /\ Whole /\ Announcing BY DEF RInv
<1>2. /\ phase[p] = "left" /\ lives[p] < MaxLives
      /\ phase' = [phase EXCEPT ![p] = "outside"]
      /\ lives' = [lives EXCEPT ![p] = @ + 1]
      /\ object' = object /\ announced' = announced /\ live' = live /\ past' = past
      /\ early' = early /\ cur' = cur /\ asked' = asked
  BY DEF Restart, Becomes, locals
<1>3. lives[p] \in 1..MaxLives
  BY <1>1 DEF Types
<1>4. FileBacked
  BY <1>2, <1>3, Constants
<1>5. /\ phase'[p] = "outside" /\ \A q \in Process : q # p => phase'[q] = phase[q]
      /\ \A q \in Process : (Inside(q)' <=> Inside(q))
  BY <1>1, <1>2 DEF Types, Inside
<1>6. Types'
  <2>1. lives' \in [Process -> 1..MaxLives]
    <3>1. lives[p] + 1 \in 1..MaxLives BY <1>2, <1>3, Constants
    <3>2. QED BY <1>1, <1>2, <3>1 DEF Types
  <2>2. phase' \in [Process -> {"outside", "mapped", "marked", "attached", "reserving",
                                "publishing", "left"}]
    BY <1>1, <1>2 DEF Types
  <2>3. QED BY <1>1, <1>2, <2>1, <2>2 DEF Types
<1>7. Standing'
  BY <1>1, <1>2, <1>5, Constants DEF Standing, Setting
<1>8. Whole'
  <2>1. SetUp => SetUp'
    BY <1>2, <1>5, SameOwned DEF SetUp, Inside
  <2>2. InUse => InUse'
    BY <1>2, <1>5, SameOwned, Constants DEF InUse, Setting
  <2>3. QED BY <1>1, <1>2, <2>1, <2>2 DEF Whole
<1>9. Parted' BY <1>2, SameParted
<1>10. Announcing'
  BY <1>1, <1>2, <1>4, <1>5, Constants DEF Announcing, Setting
<1>11. QED BY <1>6, <1>7, <1>8, <1>9, <1>10 DEF RInv

-----------------------------------------------------------------------------
LEMMA RegionStep ==
  ASSUME Assumptions, RInv, [Next]_vars
  PROVE  RInv'
<1>1. CASE CreateMapping BY <1>1, CreateKeeps
<1>2. CASE CreateRefused
  BY <1>2, Constants, SamePhase, AnswerOnly DEF CreateRefused, locals, history
<1>3. CASE WriteMagic BY <1>3, WriteMagicKeeps
<1>4. CASE WriteNext BY <1>4, WriteNextKeeps
<1>5. ASSUME NEW p \in Openers, Open(p) PROVE RInv'
  BY <1>5, OpenKeeps
<1>6. ASSUME NEW p \in Openers, OpenStale(p) PROVE RInv'
  <2>1. p \in Process BY DEF Process
  <2>2. QED BY <1>6, <2>1, SamePhase, AnswerOnly DEF OpenStale, MayLook, locals, history
<1>7. ASSUME NEW p \in Process, NEW req \in Request, AllocateRejected(p, req) PROVE RInv'
  BY <1>7, SamePhase, AnswerOnly DEF AllocateRejected, locals, history
<1>8. ASSUME NEW p \in Process, NEW req \in Request, Allocate(p, req) PROVE RInv'
  BY <1>8, AllocateKeeps
<1>9. ASSUME NEW p \in Process, Reserve(p) PROVE RInv'
  BY <1>9, ReserveKeeps
<1>10. ASSUME NEW p \in Process, Retry(p) PROVE RInv'
  BY <1>10, RetryKeeps
<1>11. ASSUME NEW p \in Process, Free(p) PROVE RInv'
  BY <1>11, SamePhase, AnswerOnly DEF Free, locals, history
<1>12. ASSUME NEW p \in Process, Shutdown(p) \/ Crash(p) PROVE RInv'
  BY <1>12, GoneKeeps DEF Shutdown, Crash, Inside
<1>13. ASSUME NEW p \in Process, Restart(p) PROVE RInv'
  BY <1>13, RestartKeeps
<1>14. ASSUME NEW h, PublishOffset(h) PROVE RInv'
  BY <1>14, PublishOffsetKeeps
<1>15. CASE PublishSize BY <1>15, PublishSizeKeeps
<1>16. CASE PublishUnknown(0)
  BY <1>16, Constants, SamePhase, AnswerOnly DEF PublishUnknown, locals, history
<1>17. CASE Announce BY <1>17, AnnounceKeeps
<1>18. CASE UNCHANGED vars
  BY <1>18, AnswerOnly DEF vars, locals, history
<1>19. QED
  BY <1>1, <1>2, <1>3, <1>4, <1>5, <1>6, <1>7, <1>8, <1>9, <1>10, <1>11, <1>12, <1>13,
     <1>14, <1>15, <1>16, <1>17, <1>18 DEF Next

LEMMA RegionAlways ==
  ASSUME Assumptions
  PROVE  Spec => []RInv
<1>1. Init => RInv BY RegionInit
<1>2. RInv /\ [Next]_vars => RInv' BY RegionStep
<1>3. QED BY <1>1, <1>2, PTL DEF Spec

-----------------------------------------------------------------------------
(* Without a mapping nobody owns anything.                                 *)
LEMMA NothingWithout ==
  ASSUME RInv, object = None
  PROVE  Owned = {} /\ Extents = {}
<1>1. \A p \in Process : DOMAIN live[p] = {}
  BY DEF RInv, Standing
<1>2. Extents = {} BY <1>1 DEF Extents
<1>3. QED BY <1>2 DEF RInv, Standing, Owned

LEMMA BytesNow ==
  ASSUME Assumptions, RInv
  PROVE  NoByteTwice
<1>1. Types /\ Whole /\ Parted BY DEF RInv
<1>2. TypeOK
  BY <1>1 DEF Types, TypeOK, Region, Piece
<1>3. ASSUME ~ early, NEW e \in Owned
      PROVE  HeaderSize <= e.offset /\ e.offset + e.size <= Total
  <2>1. object # None BY NothingWithout
  <2>2. InUse BY <1>1, <1>3, <2>1 DEF Whole, SetUp
  <2>3. object.next \in 0..Total BY <1>1, <2>1 DEF Types, Region
  <2>4. e \in Piece BY <1>1 DEF Types, Owned, Extents, Extent
  <2>5. HeaderSize <= e.offset /\ e.offset + e.size <= object.next
    BY <2>2 DEF InUse
  <2>6. e.offset \in Nat /\ e.size \in Nat BY <2>4, Constants DEF Piece
  <2>7. QED BY <2>3, <2>5, <2>6, Constants
<1>4. QED BY <1>1, <1>2, <1>3 DEF NoByteTwice, Parted

LEMMA AnnouncedNow ==
  ASSUME Assumptions, RInv
  PROVE  AnnouncedStaysPut
<1> SUFFICES ASSUME announced # None
             PROVE  /\ \A p \in Openers : \A h \in DOMAIN live[p] : Apart(live[p][h], announced)
                    /\ object # None => announced.offset + announced.size <= object.next
                    /\ phase[Creator] # "left" =>
                         \E h \in DOMAIN live[Creator] : live[Creator][h] = announced
  BY DEF AnnouncedStaysPut
<1>1. Types /\ Whole /\ Parted /\ Announcing BY DEF RInv
<1>2. ~ FileBacked /\ ~ early
  BY <1>1, Constants DEF Announcing
<1>3. phase[Creator] # "left" => \E h \in DOMAIN live[Creator] : live[Creator][h] = announced
  BY <1>1 DEF Announcing
<1>4. \A p \in Process : \A h \in DOMAIN live[p] :
        <<p, h>> \in Extents /\ Extent(<<p, h>>) = live[p][h] /\ live[p][h] \in Owned
  <2>1. \A p \in Process : \A h \in DOMAIN live[p] :
          <<p, h>> \in Extents /\ Extent(<<p, h>>) = live[p][h]
    BY DEF Extents, Extent
  <2>2. \A x \in Extents : Extent(x) \in Owned
    BY DEF Owned
  <2>3. QED BY <2>1, <2>2
<1>5. object # None => announced \in Owned
  <2>1. CASE phase[Creator] = "left" BY <1>1, <2>1 DEF Announcing, Owned
  <2>2. CASE phase[Creator] # "left" BY <1>3, <1>4, <2>2, Constants
  <2>3. QED BY <2>1, <2>2
<1>6. ASSUME NEW p \in Openers, NEW h \in DOMAIN live[p] PROVE Apart(live[p][h], announced)
  <2>1. p \in Process /\ p # Creator BY Constants DEF Process
  <2>2. object # None BY <1>4, <2>1, NothingWithout
  <2>3. live[p][h] # announced
    <3>1. CASE phase[Creator] = "left"
      <4>1. announced \in past BY <1>1, <2>2, <3>1 DEF Announcing
      <4>2. QED BY <1>1, <1>2, <1>4, <2>1, <4>1 DEF Parted
    <3>2. CASE phase[Creator] # "left"
      <4>1. PICK k \in DOMAIN live[Creator] : live[Creator][k] = announced
        BY <1>3, <3>2
      <4>2. <<p, h>> # <<Creator, k>> BY <2>1
      <4>3. /\ <<p, h>> \in Extents /\ Extent(<<p, h>>) = live[p][h]
            /\ <<Creator, k>> \in Extents /\ Extent(<<Creator, k>>) = announced
        BY <1>4, <2>1, <4>1, Constants
      <4>4. Extent(<<p, h>>) # Extent(<<Creator, k>>)
        BY <1>1, <1>2, <4>2, <4>3 DEF Parted
      <4>5. QED BY <4>3, <4>4
    <3>3. QED BY <3>1, <3>2
  <2>4. QED BY <1>1, <1>2, <1>4, <1>5, <2>1, <2>2, <2>3 DEF Parted
<1>7. ASSUME object # None PROVE announced.offset + announced.size <= object.next
  <2>1. announced \in Owned BY <1>5, <1>7
  <2>2. InUse BY <1>1, <1>2, <1>7, <2>1 DEF Whole, SetUp
  <2>3. QED BY <2>1, <2>2 DEF InUse
<1>8. QED BY <1>3, <1>6, <1>7

-----------------------------------------------------------------------------
(* No byte of a mapping or of a file is given out twice, for any number of *)
(* processes that read and swap the bump pointer in any order and die at   *)
(* any step, and any number of lives of a file (allocate()).               *)
THEOREM RegionNoByteTwice ==
  ASSUME Assumptions
  PROVE  Spec => []NoByteTwice
<1>1. RInv => NoByteTwice BY BytesNow
<1>2. QED BY <1>1, RegionAlways, PTL

(* What the creator published and announced stays where it is, and is      *)
(* given to nobody else, as long as there is a mapping (publish()).        *)
THEOREM RegionAnnouncedStaysPut ==
  ASSUME Assumptions
  PROVE  Spec => []AnnouncedStaysPut
<1>1. RInv => AnnouncedStaysPut BY AnnouncedNow
<1>2. QED BY <1>1, RegionAlways, PTL

(* The hypothesis of NoByteTwice always holds of a named mapping: whoever  *)
(* waits for the announcement never opens a header without a bump pointer  *)
(* (the constructor writes the magic number first).                        *)
THEOREM SharedNeverEarly ==
  ASSUME Assumptions, ~ FileBacked
  PROVE  Spec => [](~ early)
<1>1. RInv => ~ early BY DEF RInv, Announcing
<1>2. QED BY <1>1, RegionAlways, PTL
=============================================================================
