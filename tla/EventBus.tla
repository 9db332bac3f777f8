------------------------------ MODULE EventBus ------------------------------
(***************************************************************************)
(* The event bus (engines/orchestration/core/event_bus.py) over its event  *)
(* repository: subscriptions and their index by type, the two publish      *)
(* operations, the processor task, stopping and restarting it, and the     *)
(* event history.                                                          *)
(*                                                                         *)
(* A coroutine suspends while an event is saved and in the handlers.  The  *)
(* subscriptions of an event are looked up once, when its delivery begins; *)
(* they are called by priority, and equal priorities in any order, as the  *)
(* index is a set of strings.  Handlers may publish and subscribe: those   *)
(* are steps of their own.  replay_events is left out.                     *)
(***************************************************************************)
EXTENDS Integers, Sequences, FiniteSets

CONSTANTS Events,      \* events, each published once (event_id is a uuid4)
          Types,       \* EventType
          TypeOf,      \* the type of every event
          Subs,        \* subscription ids
          Priority,    \* Subscription.priority
          Accepts,     \* <<s, e>>: the filter_func of s accepts e
          MaxHistory,  \* max_history_size
          NoSub        \* no handler is being called

ASSUME EventBusAssumption ==
  /\ TypeOf \in [Events -> Types]
  /\ Priority \in [Subs -> Int]
  /\ MaxHistory \in Nat \ {0}   \* [-0:] would reload every row
  /\ NoSub \notin Subs

Stage == {"new", "saving", "saving_sync", "raised", "queued", "handling",
          "handling_sync", "done", "lost"}

VARIABLES processor, \* the processor task; is_running unless it is off
          types,    \* Subscription.event_types; {} when there is no subscription
          index,    \* type_subscriptions
          queue,    \* event_queue
          history,  \* event_history
          rows,     \* the event repository, oldest first
          stage,    \* how far the publication of every event is
          calling,  \* the subscription whose handler an event's delivery is in
          pending,  \* the subscriptions its delivery has still to call
          got,      \* history: calls of a handler with an event, up to 2
          owed      \* history: subscribed before the event and ever since

vars == <<processor, types, index, queue, history, rows, stage, calling, pending, got, owed>>
subscriptions == <<types, index>>
log == <<history, rows>>
delivery == <<stage, calling, pending, got>>

TypeOK ==
  /\ processor \in {"off", "running", "ended"}
  /\ types \in [Subs -> SUBSET Types]
  /\ index \in [Types -> SUBSET Subs]
  /\ queue \in Seq(Events) /\ history \in Seq(Events) /\ rows \in Seq(Events)
  /\ stage \in [Events -> Stage]
  /\ calling \in [Events -> Subs \cup {NoSub}]
  /\ pending \in [Events -> SUBSET Subs]
  /\ got \in [Events -> [Subs -> 0..2]]
  /\ owed \in [Events -> SUBSET Subs]
  /\ {queue[i] : i \in DOMAIN queue} = {e \in Events : stage[e] = "queued"}
  /\ \A e \in Events : calling[e] # NoSub <=> stage[e] \in {"handling", "handling_sync"}

Init ==
  /\ processor = "off"
  /\ types = [s \in Subs |-> {}]
  /\ index = [t \in Types |-> {}]
  /\ queue = <<>> /\ history = <<>> /\ rows = <<>>
  /\ stage = [e \in Events |-> "new"]
  /\ calling = [e \in Events |-> NoSub]
  /\ pending = [e \in Events |-> {}]
  /\ got = [e \in Events |-> [s \in Subs |-> 0]]
  /\ owed = [e \in Events |-> {}]

-----------------------------------------------------------------------------
Start ==
  /\ processor = "off"
  /\ processor' = "running"
  /\ UNCHANGED <<subscriptions, queue, log, delivery, owed>>

(* Mutant of Stop: the queue is dropped with the processor. *)
Stop_DropsQueue ==
  /\ processor # "off"
  /\ processor' = "off"
  /\ queue' = <<>>
  /\ stage' = [e \in Events |-> IF stage[e] = "handling" THEN "lost" ELSE stage[e]]
  /\ calling' = [e \in Events |-> IF stage[e] = "handling" THEN NoSub ELSE calling[e]]
  /\ pending' = [e \in Events |-> IF stage[e] = "handling" THEN {} ELSE pending[e]]
  /\ UNCHANGED <<subscriptions, log, got, owed>>

(* stop() cancels the processor, in the middle of a delivery if it is in one;
   the queue stays. *)
Stop ==
  /\ processor # "off"
  /\ processor' = "off"
  /\ stage' = [e \in Events |-> IF stage[e] = "handling" THEN "lost" ELSE stage[e]]
  /\ calling' = [e \in Events |-> IF stage[e] = "handling" THEN NoSub ELSE calling[e]]
  /\ pending' = [e \in Events |-> IF stage[e] = "handling" THEN {} ELSE pending[e]]
  /\ UNCHANGED <<subscriptions, queue, log, got, owed>>

(* An id is not used again while it is subscribed (uuid4 by default). *)
Subscribe(s, T) ==
  /\ types[s] = {}
  /\ types' = [types EXCEPT ![s] = T]
  /\ index' = [t \in Types |-> IF t \in T THEN index[t] \cup {s} ELSE index[t]]
  /\ UNCHANGED <<processor, queue, log, delivery, owed>>

Unsubscribe(s) ==
  /\ types[s] # {}
  /\ types' = [types EXCEPT ![s] = {}]
  /\ index' = [t \in Types |-> IF t \in types[s] THEN index[t] \ {s} ELSE index[t]]
  /\ owed' = [e \in Events |-> owed[e] \ {s}]
  /\ UNCHANGED <<processor, queue, log, delivery>>

-----------------------------------------------------------------------------
Last(seq, n) == IF Len(seq) > n THEN SubSeq(seq, Len(seq) - n + 1, Len(seq)) ELSE seq

(* Mutant of AppendHistory: the oldest event is dropped before the append. *)
AppendHistory_DropFirst(e) ==
  IF Len(history) > MaxHistory THEN Append(Tail(history), e) ELSE Append(history, e)

AppendHistory(e) ==
  LET h == Append(history, e)
  IN  IF Len(h) > MaxHistory THEN Tail(h) ELSE h

(* publish and publish_sync up to the save, which adds the row at once. *)
Record(e, saving) ==
  /\ stage[e] = "new"
  /\ stage' = [stage EXCEPT ![e] = saving]
  /\ history' = AppendHistory(e)
  /\ rows' = Append(rows, e)
  /\ owed' = [owed EXCEPT ![e] = {s \in Subs : TypeOf[e] \in types[s] /\ <<s, e>> \in Accepts}]
  /\ UNCHANGED <<processor, subscriptions, queue, calling, pending, got>>

Publish(e) == Record(e, "saving")
PublishSync(e) == Record(e, "saving_sync")

SaveFails(e) ==
  /\ stage[e] \in {"saving", "saving_sync"}
  /\ stage' = [stage EXCEPT ![e] = "raised"]
  /\ UNCHANGED <<processor, subscriptions, queue, log, calling, pending, got, owed>>

Enqueue(e) ==
  /\ stage[e] = "saving"
  /\ stage' = [stage EXCEPT ![e] = "queued"]
  /\ queue' = Append(queue, e)
  /\ UNCHANGED <<processor, subscriptions, log, calling, pending, got, owed>>

(* The loop of _handle_event over the subscriptions S that are left, in stage
   busy: the next handler is called, or the delivery ends. *)
Call(e, S, busy) ==
  \/ /\ S = {}
     /\ stage' = [stage EXCEPT ![e] = "done"]
     /\ calling' = [calling EXCEPT ![e] = NoSub]
     /\ pending' = [pending EXCEPT ![e] = {}]
     /\ UNCHANGED got
  \/ \E s \in S :
       /\ \A r \in S : Priority[r] <= Priority[s]
       /\ stage' = [stage EXCEPT ![e] = busy]
       /\ calling' = [calling EXCEPT ![e] = s]
       /\ pending' = [pending EXCEPT ![e] = S \ {s}]
       /\ got' = [got EXCEPT ![e][s] = IF @ = 2 THEN 2 ELSE @ + 1]

(* The snapshot of subscriptions; those whose filter refuses are skipped. *)
Subscribed(e) == {s \in index[TypeOf[e]] : types[s] # {} /\ <<s, e>> \in Accepts}

(* Mutant of ProcessNext: the event is left in the queue until its delivery
   ends, so a restart delivers it again. *)
ProcessNext_Peek ==
  /\ processor = "running"
  /\ \A e \in Events : stage[e] # "handling"
  /\ queue # <<>>
  /\ Call(Head(queue), Subscribed(Head(queue)), "handling")
  /\ UNCHANGED <<processor, subscriptions, queue, log, owed>>

(* The processor takes the next event once the one before is delivered. *)
ProcessNext ==
  /\ processor = "running"
  /\ \A e \in Events : stage[e] # "handling"
  /\ queue # <<>>
  /\ queue' = Tail(queue)
  /\ Call(Head(queue), Subscribed(Head(queue)), "handling")
  /\ UNCHANGED <<processor, subscriptions, log, owed>>

BeginSync(e) ==
  /\ stage[e] = "saving_sync"
  /\ Call(e, Subscribed(e), "handling_sync")
  /\ UNCHANGED <<processor, subscriptions, queue, log, owed>>

(* Mutant of HandlerEnds: an exception ends the whole delivery. *)
HandlerEnds_Aborts(e) ==
  /\ calling[e] # NoSub
  /\ \/ Call(e, pending[e], stage[e])
     \/ Call(e, {}, stage[e])
  /\ UNCHANGED <<processor, subscriptions, queue, log, owed>>

(* A handler returns, or raises: the exception is logged. *)
HandlerEnds(e) ==
  /\ calling[e] # NoSub
  /\ Call(e, pending[e], stage[e])
  /\ UNCHANGED <<processor, subscriptions, queue, log, owed>>

(* A handler raises CancelledError, which neither _handle_event nor the loop of
   the processor catches: the delivery ends, and with it the processor if it is
   the one delivering.  is_running stays set, so start() does nothing. *)
HandlerCancelled(e) ==
  /\ calling[e] # NoSub
  /\ processor' = IF stage[e] = "handling" THEN "ended" ELSE processor
  /\ stage' = [stage EXCEPT ![e] = "lost"]
  /\ calling' = [calling EXCEPT ![e] = NoSub]
  /\ pending' = [pending EXCEPT ![e] = {}]
  /\ UNCHANGED <<subscriptions, queue, log, got, owed>>

ClearHistory ==
  /\ history # <<>>
  /\ history' = <<>>
  /\ UNCHANGED <<processor, subscriptions, queue, rows, delivery, owed>>

(* reload_history, as the engine's recovery calls it. *)
ReloadHistory ==
  /\ history' = Last(rows, MaxHistory)
  /\ UNCHANGED <<processor, subscriptions, queue, rows, delivery, owed>>

Next ==
  \/ Start \/ Stop \/ ProcessNext \/ ClearHistory \/ ReloadHistory
  \/ \E s \in Subs : Unsubscribe(s) \/ \E T \in SUBSET Types \ {{}} : Subscribe(s, T)
  \/ \E e \in Events : \/ Publish(e) \/ PublishSync(e) \/ SaveFails(e) \/ Enqueue(e)
                       \/ BeginSync(e) \/ HandlerEnds(e) \/ HandlerCancelled(e)

Spec == Init /\ [][Next]_vars

(* The event loop runs every ready task: saves and handlers end, and the
   processor takes what is in the queue. *)
FairSpec ==
  /\ Spec
  /\ WF_vars(ProcessNext)
  /\ \A e \in Events :
       /\ WF_vars(Enqueue(e) \/ SaveFails(e) \/ BeginSync(e))
       /\ WF_vars(HandlerEnds(e) \/ HandlerCancelled(e))

-----------------------------------------------------------------------------
(* No handler gets an event twice, whatever is subscribed, unsubscribed,
   stopped and restarted between its publication and its delivery. *)
AtMostOnce == \A e \in Events, s \in Subs : got[e][s] <= 1

(* A delivery that ends has reached every handler that was subscribed when the
   event was published and has not been unsubscribed, although handlers raise
   and others come and go during the save, in the queue and in the delivery. *)
NobodySkipped ==
  \A e \in Events, s \in Subs : stage[e] = "done" /\ s \in owed[e] => got[e][s] > 0

(* The index by type and the subscriptions agree, so an unsubscribed handler is
   not looked up again and a new one is found. *)
IndexMatches == \A t \in Types, s \in Subs : s \in index[t] <=> t \in types[s]

(* The history in memory is always the end of what the repository holds, and
   within its limit: reloading it neither reorders nor adds events. *)
HistoryIsRecent ==
  /\ Len(history) <= MaxHistory
  /\ history = SubSeq(rows, Len(rows) - Len(history) + 1, Len(rows))

(* Once the processor keeps running, every published event is delivered, unless
   its save has raised or a stop or a cancelled handler cut its delivery; neither
   a stop nor an ended processor loses the queue. *)
EventuallyDelivered ==
  <>[](processor = "running") => \A e \in Events :
    stage[e] \in {"saving", "queued"} ~> stage[e] \in {"done", "lost", "raised"}
=============================================================================
