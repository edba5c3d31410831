------------------------------ MODULE EventLog ------------------------------
(***************************************************************************)
(* EventLog (events.hpp): a bounded log that many threads write, and a     *)
(* sink that hears of every event.                                         *)
(*                                                                         *)
(* emit() is not atomic: it takes a number without the lock, records the   *)
(* event under the lock, takes the lock again to copy the sink, and calls  *)
(* the copy without it.  Each of these is a step, and so is waiting for    *)
(* the lock.  A sink may use the log itself.                               *)
(***************************************************************************)
EXTENDS Integers, Sequences, FiniteSets, FiniteSetsExt, SequencesExt

CONSTANTS Emitter,       \* threads that call emit()
          Sink,          \* sinks that may be set
          CallingBack,   \* the sinks that call a method of the log
          Capacity,      \* capacity_
          MaxEvents      \* bound on the events emitted

NoSink == "none"         \* an empty std::function
NoOne == "nobody"        \* mutex_ is free

LogAssumptions ==
  /\ CallingBack \subseteq Sink /\ NoSink \notin Sink /\ NoOne \notin Emitter
  /\ Capacity \in Nat /\ MaxEvents \in Nat

VARIABLES log_ids,       \* next_id_
          log,           \* events_: the numbers of the events held
          dropped,       \* dropped_
          sink,          \* sink_
          holder,        \* who holds mutex_
          emit,          \* emit[t]: what the emit() of thread t has got to
          forgotten,     \* (history) events that clear() erased or uncounted
          heard,         \* (history) heard[s]: what sink s was called with
          sink_since     \* (history) log_ids when sink_ was set

lvars == <<log_ids, log, dropped, sink, holder, emit, forgotten, heard, sink_since>>

Idle == [at |-> "idle", id |-> 0, whole |-> TRUE, to |-> NoSink]

LogInit ==
  /\ log_ids = 0 /\ log = <<>> /\ dropped = 0 /\ sink = NoSink /\ holder = NoOne
  /\ emit = [t \in Emitter |-> Idle]
  /\ forgotten = 0 /\ heard = [s \in Sink |-> <<>>] /\ sink_since = 0

At(t, place) == emit[t].at = place
Goes(t, place) == emit' = [emit EXCEPT ![t].at = place]

-----------------------------------------------------------------------------
(* emit().                                                                 *)

(* next_id_.fetch_add(): atomic, without the lock.                         *)
TakeNumber(t) ==
  /\ At(t, "idle") /\ log_ids < MaxEvents
  /\ log_ids' = log_ids + 1
  /\ emit' = [emit EXCEPT ![t] = [Idle EXCEPT !.at = "numbered", !.id = log_ids']]
  /\ UNCHANGED <<log, dropped, sink, holder, forgotten, heard, sink_since>>

(* A lock_guard: before the event is recorded, and before the sink is read.*)
Lock(t) ==
  /\ holder = NoOne
  /\ \/ At(t, "numbered") /\ Goes(t, "recording")
     \/ At(t, "recorded") /\ Goes(t, "copying")
  /\ holder' = t
  /\ UNCHANGED <<log_ids, log, dropped, sink, forgotten, heard, sink_since>>

HasRoom == Len(log) < Capacity

(* push_back(std::move(ev)) leaves the local event, the one the sink will  *)
(* be given, without its message.                                          *)
Record(t) ==
  /\ At(t, "recording")
  /\ IF HasRoom THEN log' = Append(log, emit[t].id) /\ UNCHANGED dropped
                ELSE dropped' = dropped + 1 /\ UNCHANGED log
  /\ emit' = [emit EXCEPT ![t].at = "recorded", ![t].whole = ~ HasRoom]
  /\ holder' = NoOne
  /\ UNCHANGED <<log_ids, sink, forgotten, heard, sink_since>>

(* Mutants of CopySink: the lock is kept until emit() returns; a sink is   *)
(* found only for an event that was stored.                                *)
CopySinkKeepingLock(t) ==
  /\ At(t, "copying")
  /\ emit' = [emit EXCEPT ![t].at = "calling", ![t].to = sink]
  /\ UNCHANGED <<log_ids, log, dropped, sink, holder, forgotten, heard, sink_since>>

CopySinkIfStored(t) ==
  /\ At(t, "copying")
  /\ emit' = [emit EXCEPT ![t].at = "calling", ![t].to = IF emit[t].whole THEN NoSink ELSE sink]
  /\ holder' = NoOne
  /\ UNCHANGED <<log_ids, log, dropped, sink, forgotten, heard, sink_since>>

CopySink(t) ==
  /\ At(t, "copying")
  /\ emit' = [emit EXCEPT ![t].at = "calling", ![t].to = sink]
  /\ holder' = NoOne
  /\ UNCHANGED <<log_ids, log, dropped, sink, forgotten, heard, sink_since>>

(* emit() returns, and with it every lock_guard of its own ends.           *)
Return(t) ==
  /\ emit' = [emit EXCEPT ![t] = Idle]
  /\ holder' = IF holder = t THEN NoOne ELSE holder

CallNoSink(t) ==
  /\ At(t, "calling") /\ emit[t].to = NoSink
  /\ Return(t)
  /\ UNCHANGED <<log_ids, log, dropped, sink, forgotten, heard, sink_since>>

Hears(t) ==
  heard' = [heard EXCEPT ![emit[t].to] = Append(@, [id |-> emit[t].id, whole |-> emit[t].whole])]

CallSink(t) ==
  /\ At(t, "calling") /\ emit[t].to \in Sink
  /\ Hears(t)
  /\ IF emit[t].to \in CallingBack
     THEN Goes(t, "called back") /\ UNCHANGED holder
     ELSE Return(t)
  /\ UNCHANGED <<log_ids, log, dropped, sink, forgotten, sink_since>>

(* Mutant of Erase: the drops are still counted.                           *)
EraseKeepingDropped ==
  /\ log' = <<>>
  /\ forgotten' = forgotten + Len(log) + dropped
  /\ UNCHANGED dropped

(* events_.clear() and dropped_ = 0; the numbers go on.                    *)
Erase ==
  /\ log' = <<>> /\ dropped' = 0
  /\ forgotten' = forgotten + Len(log) + dropped

(* The sink's own call takes the lock; clear() stands for all of them.     *)
SinkClears(t) ==
  /\ At(t, "called back") /\ holder = NoOne
  /\ Erase
  /\ Return(t)
  /\ UNCHANGED <<log_ids, sink, heard, sink_since>>

EmitStep(t) ==
  \/ TakeNumber(t) \/ Lock(t) \/ Record(t) \/ CopySink(t)
  \/ CallNoSink(t) \/ CallSink(t) \/ SinkClears(t)

-----------------------------------------------------------------------------
(* The other methods, one short critical section each.  (snapshot(),       *)
(* count() and dropped() change nothing.)                                  *)

SetSink(s) ==
  /\ holder = NoOne /\ s # sink
  /\ sink' = s
  /\ sink_since' = log_ids
  /\ UNCHANGED <<log_ids, log, dropped, holder, emit, forgotten, heard>>

Clear ==
  /\ holder = NoOne
  /\ log # <<>> \/ dropped > 0
  /\ Erase
  /\ UNCHANGED <<log_ids, sink, holder, emit, heard, sink_since>>

LogNext ==
  \/ \E t \in Emitter : EmitStep(t)
  \/ \E s \in Sink \cup {NoSink} : SetSink(s)
  \/ Clear

(* Threads are scheduled; the callers of set_sink() and clear() need not   *)
(* come back.  The lock needs no fairness of its own: every thread takes   *)
(* it a bounded number of times.                                           *)
LogSpec == LogInit /\ [][LogNext]_lvars /\ \A t \in Emitter : WF_lvars(EmitStep(t))

-----------------------------------------------------------------------------
(* Properties.                                                             *)

(* Type invariant, the first part of EventsAccounted.                      *)
LogTypeOK ==
  /\ log_ids \in 0..MaxEvents /\ log \in Seq(1..log_ids)
  /\ {dropped, forgotten, sink_since} \subseteq 0..log_ids
  /\ sink \in Sink \cup {NoSink} /\ holder \in Emitter \cup {NoOne}
  /\ \A t \in Emitter :
       emit[t] \in [at : {"idle", "numbered", "recording", "recorded", "copying",
                          "calling", "called back"},
                    id : 0..log_ids, whole : BOOLEAN, to : Sink \cup {NoSink}]

Unrecorded == {emit[t].id : t \in {u \in Emitter : At(u, "numbered") \/ At(u, "recording")}}
UnderWay == {emit[t].id : t \in {u \in Emitter : ~ At(u, "idle")}}

(* No event is lost without a trace: each number taken is in the log once, *)
(* or counted as dropped, or still on its way, or was cleared; the log     *)
(* never holds more than its capacity.  (It need not be in order.)         *)
EventsAccounted ==
  /\ LogTypeOK
  /\ Len(log) <= Capacity /\ IsInjective(log)
  /\ Range(log) \cap Unrecorded = {}
  /\ Len(log) + dropped + forgotten + Cardinality(Unrecorded) = log_ids

HeardBy(s) == {heard[s][i].id : i \in DOMAIN heard[s]}

(* A sink that stays hears of every event emitted since it was set, of the *)
(* dropped ones too, and no sink hears of an event twice or before it was  *)
(* recorded, however emit(), set_sink() and clear() interleave.  What it   *)
(* hears comes with the message only when the log has not taken that.      *)
SinkHearsEverything ==
  /\ \A s \in Sink :
       /\ Cardinality(HeardBy(s)) = Len(heard[s])
       /\ HeardBy(s) \cap Unrecorded = {}
       /\ \A r \in Sink \ {s} : HeardBy(s) \cap HeardBy(r) = {}
       /\ \A i \in DOMAIN heard[s] : heard[s][i].whole => heard[s][i].id \notin Range(log)
  /\ sink \in Sink => (sink_since + 1)..log_ids \subseteq HeardBy(sink) \cup UnderWay

(* "no observer/event callback runs while an internal lock is held"        *)
(* (docs/HARDENING.md), so that a sink may use the log it is a sink of:    *)
(* every emit() returns.                                                   *)
EveryEmitReturns == \A t \in Emitter : emit[t].at # "idle" ~> emit[t].at = "idle"
=============================================================================
