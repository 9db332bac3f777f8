--------------------------- MODULE EventBusProofs ---------------------------
(***************************************************************************)
(* Proofs about EventBus, for any events, types, subscriptions, priorities *)
(* and filters: the index agrees with the subscriptions, no handler gets   *)
(* an event twice, no delivery skips a handler that was there all the      *)
(* time, and the history is the end of what the repository holds.          *)
(***************************************************************************)
EXTENDS EventBus, SequenceTheorems, TLAPS

USE EventBusAssumption

(* The stages of an event no handler has been called with. *)
Before == {"new", "saving", "saving_sync", "raised", "queued"}
Busy == {"handling", "handling_sync"}

(* An event is in the queue once. *)
QueuedOnce == \A i, j \in DOMAIN queue : queue[i] = queue[j] => i = j

(* A handler that is still to be called has not been called. *)
Uncalled ==
  \A e \in Events, s \in Subs : stage[e] \in Before \/ s \in pending[e] => got[e][s] = 0

(* Whom a delivery owes the event: before it begins they are subscribed, during
   it they are pending or called. *)
OwedIsKept ==
  \A e \in Events : \A s \in owed[e] :
    /\ stage[e] # "new"
    /\ stage[e] \in Before => TypeOf[e] \in types[s] /\ <<s, e>> \in Accepts
    /\ stage[e] \in Busy => s \in pending[e] \/ got[e][s] > 0

IInv ==
  /\ TypeOK
  /\ IndexMatches
  /\ QueuedOnce
  /\ Uncalled /\ AtMostOnce
  /\ OwedIsKept /\ NobodySkipped

LEMMA InitInv == Init => IInv
<1>. SUFFICES ASSUME Init PROVE IInv
  OBVIOUS
<1>1. {queue[i] : i \in DOMAIN queue} = {e \in Events : stage[e] = "queued"}
  BY DEF Init
<1>2. TypeOK
  <2>1. \A e \in Events : calling[e] # NoSub <=> stage[e] \in {"handling", "handling_sync"}
    BY DEF Init
  <2>2. /\ queue \in Seq(Events) /\ history \in Seq(Events) /\ rows \in Seq(Events)
        /\ types \in [Subs -> SUBSET Types] /\ index \in [Types -> SUBSET Subs]
        /\ stage \in [Events -> Stage] /\ calling \in [Events -> Subs \cup {NoSub}]
        /\ pending \in [Events -> SUBSET Subs] /\ owed \in [Events -> SUBSET Subs]
    BY DEF Init, Stage
  <2>3. got \in [Events -> [Subs -> 0..2]]
    BY DEF Init
  <2>4. processor \in {"off", "running", "ended"}
    BY DEF Init
  <2>. QED  BY <1>1, <2>1, <2>2, <2>3, <2>4 DEF TypeOK
<1>3. IndexMatches /\ QueuedOnce /\ Uncalled /\ AtMostOnce
  BY DEF Init, IndexMatches, QueuedOnce, Uncalled, AtMostOnce
<1>4. OwedIsKept /\ NobodySkipped
  BY DEF Init, OwedIsKept, NobodySkipped
<1>. QED  BY <1>2, <1>3, <1>4 DEF IInv

-----------------------------------------------------------------------------
(* What one turn of the loop of _handle_event does to the event it delivers,
   and that it leaves the others alone. *)
LEMMA CallEffect ==
  ASSUME TypeOK, NEW e \in Events, NEW S \in SUBSET Subs, NEW busy \in Busy,
         Call(e, S, busy)
  PROVE  /\ stage' \in [Events -> Stage] /\ calling' \in [Events -> Subs \cup {NoSub}]
         /\ pending' \in [Events -> SUBSET Subs] /\ got' \in [Events -> [Subs -> 0..2]]
         /\ \A f \in Events \ {e} : /\ stage'[f] = stage[f] /\ calling'[f] = calling[f]
                                    /\ pending'[f] = pending[f] /\ got'[f] = got[f]
         /\ pending'[e] \subseteq S
         /\ \A s \in Subs : s \in S \ pending'[e] => got'[e][s] > 0
         /\ \A s \in Subs : got'[e][s] >= got[e][s]
         /\ \A s \in Subs : s \notin S \ pending'[e] => got'[e][s] = got[e][s]
         /\ \A s \in Subs : got'[e][s] <= got[e][s] + 1
         /\ \/ stage'[e] = "done" /\ calling'[e] = NoSub /\ pending'[e] = {}
            \/ stage'[e] = busy /\ calling'[e] # NoSub
<1>. DEFINE n(s) == IF got[e][s] = 2 THEN 2 ELSE got[e][s] + 1
<1>1. /\ stage \in [Events -> Stage] /\ calling \in [Events -> Subs \cup {NoSub}]
      /\ pending \in [Events -> SUBSET Subs] /\ got \in [Events -> [Subs -> 0..2]]
      /\ busy \in Stage /\ "done" \in Stage
  BY DEF TypeOK, Stage, Busy
<1>2. \A s \in Subs : got[e][s] \in 0..2
  BY <1>1
<1>3. CASE /\ S = {} /\ stage' = [stage EXCEPT ![e] = "done"]
           /\ calling' = [calling EXCEPT ![e] = NoSub]
           /\ pending' = [pending EXCEPT ![e] = {}] /\ UNCHANGED got
  <2>1. got' = got
    BY <1>3
  <2>2. \A s \in Subs : got'[e][s] >= got[e][s] /\ got'[e][s] <= got[e][s] + 1
    BY <1>2, <2>1
  <2>3. /\ \A f \in Events \ {e} : /\ stage'[f] = stage[f] /\ calling'[f] = calling[f]
                                   /\ pending'[f] = pending[f]
        /\ stage'[e] = "done" /\ calling'[e] = NoSub /\ pending'[e] = {}
        /\ stage' \in [Events -> Stage] /\ calling' \in [Events -> Subs \cup {NoSub}]
        /\ pending' \in [Events -> SUBSET Subs]
    BY <1>1, <1>3
  <2>. QED  BY <1>1, <1>3, <2>1, <2>2, <2>3
<1>4. ASSUME NEW s \in S,
             stage' = [stage EXCEPT ![e] = busy], calling' = [calling EXCEPT ![e] = s],
             pending' = [pending EXCEPT ![e] = S \ {s}],
             got' = [got EXCEPT ![e][s] = IF @ = 2 THEN 2 ELSE @ + 1]
      PROVE  /\ stage' \in [Events -> Stage] /\ calling' \in [Events -> Subs \cup {NoSub}]
             /\ pending' \in [Events -> SUBSET Subs] /\ got' \in [Events -> [Subs -> 0..2]]
             /\ \A f \in Events \ {e} : /\ stage'[f] = stage[f] /\ calling'[f] = calling[f]
                                        /\ pending'[f] = pending[f] /\ got'[f] = got[f]
             /\ pending'[e] = S \ {s}
             /\ got'[e][s] > 0 /\ got'[e][s] >= got[e][s] /\ got'[e][s] <= got[e][s] + 1
             /\ \A r \in Subs \ {s} : got'[e][r] = got[e][r]
             /\ stage'[e] = busy /\ calling'[e] = s /\ s # NoSub
  <2>1. n(s) \in 0..2 /\ n(s) > 0 /\ n(s) >= got[e][s] /\ n(s) <= got[e][s] + 1
    BY <1>2, <1>4
  <2>2. got' = [got EXCEPT ![e] = [got[e] EXCEPT ![s] = n(s)]]
    BY <1>4
  <2>. HIDE DEF n
  <2>3. /\ got' \in [Events -> [Subs -> 0..2]]
        /\ \A f \in Events \ {e} : got'[f] = got[f]
        /\ got'[e][s] = n(s)
        /\ \A r \in Subs \ {s} : got'[e][r] = got[e][r]
    BY <1>1, <1>4, <2>1, <2>2
  <2>4. /\ stage' \in [Events -> Stage] /\ calling' \in [Events -> Subs \cup {NoSub}]
        /\ pending' \in [Events -> SUBSET Subs]
        /\ \A f \in Events \ {e} : /\ stage'[f] = stage[f] /\ calling'[f] = calling[f]
                                   /\ pending'[f] = pending[f]
        /\ pending'[e] = S \ {s} /\ stage'[e] = busy /\ calling'[e] = s /\ s # NoSub
    BY <1>1, <1>4
  <2>. QED  BY <2>1, <2>3, <2>4
<1>5. ASSUME NEW s \in S,
             stage' = [stage EXCEPT ![e] = busy], calling' = [calling EXCEPT ![e] = s],
             pending' = [pending EXCEPT ![e] = S \ {s}],
             got' = [got EXCEPT ![e][s] = IF @ = 2 THEN 2 ELSE @ + 1]
      PROVE  /\ pending'[e] \subseteq S
             /\ \A r \in Subs : r \in S \ pending'[e] => got'[e][r] > 0
             /\ \A r \in Subs : got'[e][r] >= got[e][r]
             /\ \A r \in Subs : r \notin S \ pending'[e] => got'[e][r] = got[e][r]
             /\ \A r \in Subs : got'[e][r] <= got[e][r] + 1
  <2>1. /\ pending'[e] = S \ {s}
        /\ got'[e][s] > 0 /\ got'[e][s] >= got[e][s] /\ got'[e][s] <= got[e][s] + 1
        /\ \A r \in Subs \ {s} : got'[e][r] = got[e][r]
    BY <1>4, <1>5, Zenon
  <2>. QED  BY <1>2, <2>1
<1>. QED  BY <1>3, <1>4, <1>5 DEF Call

(* A delivery step keeps the invariant: S is what is left to call. *)
LEMMA CallInv ==
  ASSUME IInv, NEW e \in Events, NEW S \in SUBSET Subs, NEW busy \in Busy,
         Call(e, S, busy),
         UNCHANGED <<processor, subscriptions, log, owed>>,
         queue' \in Seq(Events), QueuedOnce',
         {queue'[i] : i \in DOMAIN queue'} = {f \in Events : stage[f] = "queued"} \ {e},
         stage[e] \notin {"new", "done"},
         \A s \in S : got[e][s] = 0,
         \A s \in owed[e] : s \in S \/ got[e][s] > 0
  PROVE  IInv'
<1>. DEFINE p == pending'[e]
<1>1. /\ stage' \in [Events -> Stage] /\ calling' \in [Events -> Subs \cup {NoSub}]
      /\ pending' \in [Events -> SUBSET Subs] /\ got' \in [Events -> [Subs -> 0..2]]
      /\ \A f \in Events \ {e} : /\ stage'[f] = stage[f] /\ calling'[f] = calling[f]
                                 /\ pending'[f] = pending[f] /\ got'[f] = got[f]
      /\ p \subseteq S
      /\ \A s \in Subs : s \in S \ p => got'[e][s] > 0
      /\ \A s \in Subs : got'[e][s] >= got[e][s]
      /\ \A s \in Subs : s \notin S \ p => got'[e][s] = got[e][s]
      /\ \A s \in Subs : got'[e][s] <= got[e][s] + 1
      /\ \/ stage'[e] = "done" /\ calling'[e] = NoSub /\ p = {}
         \/ stage'[e] = busy /\ calling'[e] # NoSub
  BY CallEffect, Zenon DEF IInv
<1>. HIDE DEF p
<1>2. UNCHANGED <<processor, types, index, history, rows, owed>>
  BY DEF subscriptions, log
<1>3. TypeOK'
  <2>1. {queue'[i] : i \in DOMAIN queue'} = {f \in Events : stage'[f] = "queued"}
    BY <1>1, Zenon DEF Busy
  <2>2. \A f \in Events : calling'[f] # NoSub <=> stage'[f] \in {"handling", "handling_sync"}
    BY <1>1 DEF Busy, IInv, TypeOK
  <2>3. processor' \in {"off", "running", "ended"}
    BY <1>2 DEF IInv, TypeOK
  <2>4. /\ types' \in [Subs -> SUBSET Types] /\ index' \in [Types -> SUBSET Subs]
        /\ history' \in Seq(Events) /\ rows' \in Seq(Events)
        /\ owed' \in [Events -> SUBSET Subs]
    BY <1>2 DEF IInv, TypeOK
  <2>5. /\ stage' \in [Events -> Stage] /\ calling' \in [Events -> Subs \cup {NoSub}]
        /\ pending' \in [Events -> SUBSET Subs] /\ got' \in [Events -> [Subs -> 0..2]]
        /\ queue' \in Seq(Events)
    BY <1>1
  <2>. QED  BY <2>1, <2>2, <2>3, <2>4, <2>5 DEF TypeOK
<1>4. IndexMatches'
  BY <1>2 DEF IInv, IndexMatches
<1>5. Uncalled' /\ AtMostOnce'
  <2>1. \A s \in Subs : got[e][s] \in 0..2 /\ got'[e][s] \in 0..2
    BY <1>1 DEF IInv, TypeOK
  <2>2. \A s \in Subs : got'[e][s] <= 1 /\ (s \in p => got'[e][s] = 0)
    BY <1>1, <2>1 DEF IInv, AtMostOnce
  <2>3. stage'[e] \notin Before
    BY <1>1 DEF Before, Busy
  <2>4. ASSUME NEW f \in Events, NEW s \in Subs
        PROVE  got'[f][s] <= 1 /\ (stage'[f] \in Before \/ s \in pending'[f] => got'[f][s] = 0)
    <3>1. CASE f = e
      BY <2>2, <2>3, <3>1 DEF p
    <3>2. CASE f # e
      <4>1. stage'[f] = stage[f] /\ pending'[f] = pending[f] /\ got'[f] = got[f]
        BY <1>1, <3>2
      <4>. QED  BY <4>1 DEF IInv, Uncalled, AtMostOnce
    <3>. QED  BY <3>1, <3>2
  <2>. QED  BY <2>4 DEF Uncalled, AtMostOnce
<1>6. OwedIsKept' /\ NobodySkipped'
  <2>1. \A s \in owed[e] : s \in p \/ got'[e][s] > 0
    BY <1>1 DEF IInv, TypeOK
  <2>2. stage'[e] \notin Before /\ stage'[e] # "new"
    BY <1>1 DEF Before, Busy
  <2>3. OwedIsKept'
    BY <1>1, <1>2, <2>1, <2>2, Zenon DEF IInv, OwedIsKept, p
  <2>4. NobodySkipped'
    BY <1>1, <1>2, <2>1, Zenon DEF IInv, NobodySkipped, Busy
  <2>. QED  BY <2>3, <2>4
<1>. QED  BY <1>3, <1>4, <1>5, <1>6 DEF IInv

-----------------------------------------------------------------------------
LEMMA ProcessInv == ASSUME IInv, ProcessNext PROVE IInv'
<1>. DEFINE e == Head(queue)
            S == Subscribed(e)
<1>1. /\ queue \in Seq(Events) /\ queue # <<>> /\ queue' = Tail(queue)
      /\ Call(e, S, "handling")
      /\ UNCHANGED <<processor, subscriptions, log, owed>>
  BY DEF ProcessNext, IInv, TypeOK
<1>2. /\ Len(queue) \in Nat /\ Len(queue) >= 1 /\ DOMAIN queue = 1..Len(queue)
      /\ e = queue[1] /\ e \in Events
      /\ queue' \in Seq(Events) /\ DOMAIN queue' = 1..(Len(queue) - 1)
      /\ \A i \in DOMAIN queue' : i + 1 \in DOMAIN queue /\ queue'[i] = queue[i + 1]
  BY <1>1
<1>3. stage[e] = "queued"
  <2>1. e \in {queue[k] : k \in DOMAIN queue}
    BY <1>2
  <2>. QED  BY <2>1 DEF IInv, TypeOK
<1>4. QueuedOnce'
  <2>1. ASSUME NEW i \in DOMAIN queue', NEW j \in DOMAIN queue', queue'[i] = queue'[j]
        PROVE  i = j
    <3>1. i + 1 = j + 1
      BY <1>2, <2>1 DEF IInv, QueuedOnce
    <3>. QED  BY <1>2, <3>1
  <2>. QED  BY <2>1 DEF QueuedOnce
<1>5. {queue'[i] : i \in DOMAIN queue'} = {f \in Events : stage[f] = "queued"} \ {e}
  <2>1. ASSUME NEW i \in DOMAIN queue' PROVE queue'[i] \in {f \in Events : stage[f] = "queued"} \ {e}
    <3>1. i + 1 \in DOMAIN queue /\ 1 \in DOMAIN queue /\ i + 1 # 1 /\ queue'[i] = queue[i + 1]
      BY <1>2
    <3>2. queue[i + 1] # queue[1]
      BY <3>1 DEF IInv, QueuedOnce
    <3>3. queue[i + 1] \in {queue[k] : k \in DOMAIN queue}
      BY <3>1
    <3>. QED  BY <1>2, <3>1, <3>2, <3>3 DEF IInv, TypeOK
  <2>2. ASSUME NEW f \in Events, stage[f] = "queued", f # e PROVE \E i \in DOMAIN queue' : queue'[i] = f
    <3>1. PICK j \in DOMAIN queue : queue[j] = f
      BY <2>2 DEF IInv, TypeOK
    <3>2. j # 1 /\ j \in 1..Len(queue)
      BY <1>2, <2>2, <3>1
    <3>3. j - 1 \in DOMAIN queue' /\ queue'[j - 1] = queue[(j - 1) + 1] /\ (j - 1) + 1 = j
      BY <1>2, <3>2
    <3>. QED  BY <3>1, <3>3
  <2>. QED  BY <2>1, <2>2
<1>6. S \in SUBSET Subs
  BY <1>2 DEF Subscribed, IInv, TypeOK
<1>7. \A s \in S : got[e][s] = 0
  BY <1>2, <1>3, <1>6 DEF IInv, Uncalled, Before
<1>8. \A s \in owed[e] : s \in S
  BY <1>2, <1>3 DEF IInv, OwedIsKept, IndexMatches, Subscribed, Before, TypeOK
<1>9. "handling" \in Busy
  BY DEF Busy
<1>. HIDE DEF e, S
<1>. QED  BY <1>1, <1>2, <1>3, <1>4, <1>5, <1>6, <1>7, <1>8, <1>9, CallInv, Zenon

LEMMA SyncInv == ASSUME IInv, NEW e \in Events, BeginSync(e) PROVE IInv'
<1>. DEFINE S == Subscribed(e)
<1>1. /\ stage[e] = "saving_sync" /\ Call(e, S, "handling_sync")
      /\ queue' = queue /\ UNCHANGED <<processor, subscriptions, log, owed>>
  BY DEF BeginSync
<1>2. S \in SUBSET Subs
  BY DEF Subscribed, IInv, TypeOK
<1>3. \A s \in S : got[e][s] = 0
  BY <1>1, <1>2 DEF IInv, Uncalled, Before
<1>4. \A s \in owed[e] : s \in S
  BY <1>1 DEF IInv, OwedIsKept, IndexMatches, Subscribed, Before, TypeOK
<1>5. /\ queue' \in Seq(Events) /\ QueuedOnce'
      /\ {queue'[i] : i \in DOMAIN queue'} = {f \in Events : stage[f] = "queued"} \ {e}
  BY <1>1 DEF IInv, TypeOK, QueuedOnce
<1>6. "handling_sync" \in Busy
  BY DEF Busy
<1>. HIDE DEF S
<1>. QED  BY <1>1, <1>2, <1>3, <1>4, <1>5, <1>6, CallInv, SMTT(30)

LEMMA HandlerInv == ASSUME IInv, NEW e \in Events, HandlerEnds(e) PROVE IInv'
<1>1. /\ stage[e] \in Busy /\ Call(e, pending[e], stage[e])
      /\ queue' = queue /\ UNCHANGED <<processor, subscriptions, log, owed>>
  BY DEF HandlerEnds, IInv, TypeOK, Busy
<1>2. pending[e] \in SUBSET Subs
  BY DEF IInv, TypeOK
<1>3. \A s \in pending[e] : got[e][s] = 0
  BY <1>2 DEF IInv, Uncalled
<1>4. \A s \in owed[e] : s \in pending[e] \/ got[e][s] > 0
  BY <1>1, Zenon DEF IInv, OwedIsKept
<1>5. /\ queue' \in Seq(Events) /\ QueuedOnce'
      /\ {queue'[i] : i \in DOMAIN queue'} = {f \in Events : stage[f] = "queued"} \ {e}
  BY <1>1 DEF IInv, TypeOK, QueuedOnce, Busy
<1>6. stage[e] \notin {"new", "done"}
  BY <1>1 DEF Busy
<1>. QED  BY <1>1, <1>2, <1>3, <1>4, <1>5, <1>6, CallInv

-----------------------------------------------------------------------------
(* The steps that call no handler, with the stage of at most one event. *)
LEMMA LogInv ==
  ASSUME IInv, Start \/ ClearHistory \/ ReloadHistory
  PROVE  IInv'
<1>1. UNCHANGED <<types, index, queue, rows, stage, calling, pending, got, owed>>
  BY DEF Start, ClearHistory, ReloadHistory, subscriptions, log, delivery
<1>2. processor' \in {"off", "running", "ended"}
  BY DEF Start, ClearHistory, ReloadHistory, IInv, TypeOK
<1>3. history' \in Seq(Events)
  <2>1. Last(rows, MaxHistory) \in Seq(Events)
    BY DEF IInv, TypeOK, Last
  <2>2. history \in Seq(Events) /\ <<>> \in Seq(Events)
    BY DEF IInv, TypeOK
  <2>3. history' \in {history, <<>>, Last(rows, MaxHistory)}
    BY DEF Start, ClearHistory, ReloadHistory, log
  <2>. QED  BY <2>1, <2>2, <2>3, Zenon
<1>4. TypeOK'
  BY <1>1, <1>2, <1>3 DEF IInv, TypeOK
<1>. QED
  BY <1>1, <1>4 DEF IInv, IndexMatches, QueuedOnce, Uncalled, AtMostOnce, OwedIsKept, NobodySkipped

(* A stop or a cancelled handler cuts the deliveries of the events D. *)
LEMMA CutInv ==
  ASSUME IInv, NEW D \in SUBSET Events, \A e \in D : stage[e] \in Busy,
         processor' \in {"off", "running", "ended"},
         UNCHANGED <<types, index, queue, history, rows, got, owed>>,
         stage' = [e \in Events |-> IF e \in D THEN "lost" ELSE stage[e]],
         calling' = [e \in Events |-> IF e \in D THEN NoSub ELSE calling[e]],
         pending' = [e \in Events |-> IF e \in D THEN {} ELSE pending[e]]
  PROVE  IInv'
<1>1. /\ stage' \in [Events -> Stage] /\ calling' \in [Events -> Subs \cup {NoSub}]
      /\ pending' \in [Events -> SUBSET Subs]
  BY DEF IInv, TypeOK, Stage
<1>2. \A e \in Events :
        \/ stage'[e] = stage[e] /\ calling'[e] = calling[e] /\ pending'[e] = pending[e]
        \/ stage[e] \in Busy /\ stage'[e] = "lost" /\ calling'[e] = NoSub /\ pending'[e] = {}
  OBVIOUS
<1>3. TypeOK'
  <2>1. {e \in Events : stage'[e] = "queued"} = {e \in Events : stage[e] = "queued"}
    BY <1>2 DEF Busy
  <2>2. \A e \in Events : calling'[e] # NoSub <=> stage'[e] \in {"handling", "handling_sync"}
    BY <1>2 DEF IInv, TypeOK
  <2>3. {queue'[i] : i \in DOMAIN queue'} = {e \in Events : stage'[e] = "queued"}
    BY <2>1, Zenon DEF IInv, TypeOK
  <2>4. /\ types' \in [Subs -> SUBSET Types] /\ index' \in [Types -> SUBSET Subs]
        /\ queue' \in Seq(Events) /\ history' \in Seq(Events) /\ rows' \in Seq(Events)
        /\ got' \in [Events -> [Subs -> 0..2]] /\ owed' \in [Events -> SUBSET Subs]
    BY DEF IInv, TypeOK
  <2>. QED  BY <1>1, <2>2, <2>3, <2>4, Zenon DEF TypeOK
<1>4. IndexMatches' /\ QueuedOnce' /\ AtMostOnce'
  BY DEF IInv, IndexMatches, QueuedOnce, AtMostOnce
<1>5. Uncalled' /\ OwedIsKept' /\ NobodySkipped'
  BY <1>2 DEF IInv, Uncalled, OwedIsKept, NobodySkipped, Before, Busy
<1>. QED  BY <1>3, <1>4, <1>5 DEF IInv

LEMMA StopInv == ASSUME IInv, Stop PROVE IInv'
<1>. DEFINE D == {e \in Events : stage[e] = "handling"}
<1>1. processor' = "off" /\ UNCHANGED <<types, index, queue, history, rows, got, owed>>
  BY DEF Stop, subscriptions, log
<1>2. /\ stage' = [e \in Events |-> IF e \in D THEN "lost" ELSE stage[e]]
      /\ calling' = [e \in Events |-> IF e \in D THEN NoSub ELSE calling[e]]
      /\ pending' = [e \in Events |-> IF e \in D THEN {} ELSE pending[e]]
  BY DEF Stop
<1>3. D \in SUBSET Events /\ \A e \in D : stage[e] \in Busy
  BY DEF Busy
<1>4. processor' \in {"off", "running", "ended"}
  BY <1>1
<1>. HIDE DEF D
<1>. QED  BY <1>1, <1>2, <1>3, <1>4, CutInv, Zenon

LEMMA HandlerCancelledInv == ASSUME IInv, NEW e \in Events, HandlerCancelled(e) PROVE IInv'
<1>. DEFINE D == {e}
<1>1. /\ stage[e] \in Busy
      /\ processor' \in {"off", "running", "ended"}
      /\ UNCHANGED <<types, index, queue, history, rows, got, owed>>
  BY DEF HandlerCancelled, IInv, TypeOK, Busy, subscriptions, log
<1>2. /\ stage' = [f \in Events |-> IF f \in D THEN "lost" ELSE stage[f]]
      /\ calling' = [f \in Events |-> IF f \in D THEN NoSub ELSE calling[f]]
      /\ pending' = [f \in Events |-> IF f \in D THEN {} ELSE pending[f]]
  BY DEF HandlerCancelled, IInv, TypeOK
<1>3. D \in SUBSET Events /\ \A f \in D : stage[f] \in Busy
  BY <1>1, Zenon
<1>. HIDE DEF D
<1>. QED  BY <1>1, <1>2, <1>3, CutInv, Zenon

LEMMA SubscriptionInv ==
  ASSUME IInv, NEW s \in Subs, Unsubscribe(s) \/ \E T \in SUBSET Types \ {{}} : Subscribe(s, T)
  PROVE  IInv'
<1>1. UNCHANGED <<processor, queue, history, rows, stage, calling, pending, got>>
  BY DEF Unsubscribe, Subscribe, log, delivery
<1>2. CASE Unsubscribe(s)
  <2>1. /\ types' = [types EXCEPT ![s] = {}]
        /\ index' = [t \in Types |-> IF t \in types[s] THEN index[t] \ {s} ELSE index[t]]
        /\ owed' = [e \in Events |-> owed[e] \ {s}]
    BY <1>2 DEF Unsubscribe
  <2>2. /\ types' \in [Subs -> SUBSET Types] /\ index' \in [Types -> SUBSET Subs]
        /\ owed' \in [Events -> SUBSET Subs]
    BY <2>1 DEF IInv, TypeOK
  <2>3. TypeOK'
    BY <1>1, <2>2 DEF IInv, TypeOK
  <2>4. IndexMatches'
    BY <2>1 DEF IInv, TypeOK, IndexMatches
  <2>5. OwedIsKept' /\ NobodySkipped'
    <3>1. \A e \in Events : owed'[e] = owed[e] \ {s}
      BY <2>1
    <3>2. \A r \in Subs \ {s} : types'[r] = types[r]
      BY <2>1 DEF IInv, TypeOK
    <3>. QED  BY <1>1, <3>1, <3>2 DEF IInv, TypeOK, OwedIsKept, NobodySkipped
  <2>. QED
    BY <1>1, <2>3, <2>4, <2>5 DEF IInv, QueuedOnce, Uncalled, AtMostOnce
<1>3. ASSUME NEW T \in SUBSET Types, Subscribe(s, T)
      PROVE  IInv'
  <2>1. /\ types[s] = {} /\ types' = [types EXCEPT ![s] = T] /\ owed' = owed
        /\ index' = [t \in Types |-> IF t \in T THEN index[t] \cup {s} ELSE index[t]]
    BY <1>3 DEF Subscribe
  <2>2. types' \in [Subs -> SUBSET Types] /\ index' \in [Types -> SUBSET Subs]
    BY <2>1 DEF IInv, TypeOK
  <2>3. TypeOK'
    BY <1>1, <2>1, <2>2 DEF IInv, TypeOK
  <2>4. IndexMatches'
    BY <2>1 DEF IInv, TypeOK, IndexMatches
  <2>5. \A r \in Subs, t \in Types : t \in types[r] => t \in types'[r]
    BY <2>1 DEF IInv, TypeOK
  <2>6. OwedIsKept' /\ NobodySkipped'
    BY <1>1, <2>1, <2>5 DEF IInv, TypeOK, OwedIsKept, NobodySkipped
  <2>. QED
    BY <1>1, <2>3, <2>4, <2>6 DEF IInv, QueuedOnce, Uncalled, AtMostOnce
<1>. QED  BY <1>2, <1>3

LEMMA RecordInv ==
  ASSUME IInv, NEW e \in Events, Publish(e) \/ PublishSync(e)
  PROVE  IInv'
<1>. DEFINE O == {s \in Subs : TypeOf[e] \in types[s] /\ <<s, e>> \in Accepts}
<1>1. PICK saving \in {"saving", "saving_sync"} :
        /\ stage[e] = "new" /\ stage' = [stage EXCEPT ![e] = saving]
        /\ history' = AppendHistory(e) /\ rows' = Append(rows, e)
        /\ owed' = [owed EXCEPT ![e] = O]
        /\ UNCHANGED <<processor, types, index, queue, calling, pending, got>>
  BY DEF Publish, PublishSync, Record, subscriptions
<1>2. \A s \in O : s \in Subs /\ TypeOf[e] \in types[s] /\ <<s, e>> \in Accepts
  OBVIOUS
<1>3. O \in SUBSET Subs
  OBVIOUS
<1>. HIDE DEF O
<1>4. /\ history' \in Seq(Events) /\ rows' \in Seq(Events)
  <2>1. history \in Seq(Events) /\ rows \in Seq(Events)
    BY DEF IInv, TypeOK
  <2>2. Append(history, e) \in Seq(Events) /\ Tail(Append(history, e)) \in Seq(Events)
    BY <2>1
  <2>3. AppendHistory(e) \in Seq(Events)
    BY <2>2 DEF AppendHistory
  <2>. QED  BY <1>1, <2>1, <2>3
<1>5. /\ \A f \in Events \ {e} : stage'[f] = stage[f] /\ owed'[f] = owed[f]
      /\ stage'[e] = saving /\ owed'[e] = O
      /\ stage' \in [Events -> Stage] /\ owed' \in [Events -> SUBSET Subs]
  BY <1>1, <1>3 DEF IInv, TypeOK, Stage
<1>6. TypeOK'
  <2>1. {f \in Events : stage'[f] = "queued"} = {f \in Events : stage[f] = "queued"}
    BY <1>1, <1>5
  <2>2. \A f \in Events : calling'[f] # NoSub <=> stage'[f] \in {"handling", "handling_sync"}
    BY <1>1, <1>5 DEF IInv, TypeOK
  <2>. QED  BY <1>1, <1>4, <1>5, <2>1, <2>2 DEF IInv, TypeOK
<1>7. IndexMatches' /\ QueuedOnce' /\ AtMostOnce'
  BY <1>1 DEF IInv, IndexMatches, QueuedOnce, AtMostOnce
<1>8. Uncalled'
  BY <1>1, <1>5 DEF IInv, Uncalled, Before
<1>9. OwedIsKept' /\ NobodySkipped'
  BY <1>1, <1>2, <1>5 DEF IInv, OwedIsKept, NobodySkipped, Before, Busy
<1>. QED  BY <1>6, <1>7, <1>8, <1>9 DEF IInv

LEMMA SavedInv ==
  ASSUME IInv, NEW e \in Events, SaveFails(e) \/ Enqueue(e)
  PROVE  IInv'
<1>1. PICK n \in {"raised", "queued"} :
        /\ stage[e] \in {"saving", "saving_sync"}
        /\ stage' = [stage EXCEPT ![e] = n]
        /\ queue' = IF n = "queued" THEN Append(queue, e) ELSE queue
        /\ UNCHANGED <<processor, types, index, history, rows, calling, pending, got, owed>>
  BY DEF SaveFails, Enqueue, subscriptions, log
<1>2. /\ \A f \in Events \ {e} : stage'[f] = stage[f]
      /\ stage'[e] = n
      /\ stage' \in [Events -> Stage]
  BY <1>1 DEF IInv, TypeOK, Stage
<1>3. queue' \in Seq(Events) /\ QueuedOnce'
      /\ {queue'[i] : i \in DOMAIN queue'} = {f \in Events : stage'[f] = "queued"}
  <2>1. CASE n = "raised"
    BY <1>1, <1>2, <2>1 DEF IInv, TypeOK, QueuedOnce
  <2>2. CASE n = "queued"
    <3>1. /\ queue \in Seq(Events) /\ queue' = Append(queue, e) /\ queue' \in Seq(Events)
          /\ Len(queue) \in Nat /\ DOMAIN queue = 1..Len(queue)
          /\ DOMAIN queue' = 1..(Len(queue) + 1) /\ queue'[Len(queue) + 1] = e
          /\ \A i \in DOMAIN queue : queue'[i] = queue[i]
      BY <1>1, <2>2 DEF IInv, TypeOK
    <3>2. \A i \in DOMAIN queue : queue[i] \in Events /\ stage[queue[i]] = "queued" /\ queue[i] # e
      <4>1. \A i \in DOMAIN queue : queue[i] \in {queue[k] : k \in DOMAIN queue}
        OBVIOUS
      <4>. QED  BY <1>1, <4>1, SMTT(30) DEF IInv, TypeOK
    <3>3. QueuedOnce'
      <4>1. ASSUME NEW i \in DOMAIN queue', NEW j \in DOMAIN queue', queue'[i] = queue'[j]
            PROVE  i = j
        <5>1. CASE i \in DOMAIN queue /\ j \in DOMAIN queue
          BY <3>1, <4>1, <5>1 DEF IInv, QueuedOnce
        <5>2. CASE i = Len(queue) + 1 \/ j = Len(queue) + 1
          BY <3>1, <3>2, <4>1, <5>2
        <5>. QED  BY <3>1, <5>1, <5>2
      <4>. QED  BY <4>1 DEF QueuedOnce
    <3>4. ASSUME NEW f \in Events, stage'[f] = "queued" PROVE \E i \in DOMAIN queue' : queue'[i] = f
      <4>1. CASE f = e
        BY <3>1, <4>1
      <4>2. CASE f # e
        <5>1. f \in {queue[k] : k \in DOMAIN queue}
          BY <1>2, <3>4, <4>2 DEF IInv, TypeOK
        <5>2. PICK k \in DOMAIN queue : queue[k] = f
          BY <5>1
        <5>. QED  BY <3>1, <5>2
      <4>. QED  BY <4>1, <4>2
    <3>5. ASSUME NEW i \in DOMAIN queue' PROVE queue'[i] \in Events /\ stage'[queue'[i]] = "queued"
      <4>1. CASE i \in DOMAIN queue
        BY <1>2, <3>1, <3>2, <4>1
      <4>2. CASE i = Len(queue) + 1
        BY <1>2, <2>2, <3>1, <4>2
      <4>. QED  BY <3>1, <4>1, <4>2
    <3>. QED  BY <3>1, <3>3, <3>4, <3>5
  <2>. QED  BY <2>1, <2>2
<1>4. TypeOK'
  <2>1. \A f \in Events : calling'[f] # NoSub <=> stage'[f] \in {"handling", "handling_sync"}
    BY <1>1, <1>2 DEF IInv, TypeOK
  <2>. QED  BY <1>1, <1>2, <1>3, <2>1, Zenon DEF IInv, TypeOK
<1>5. IndexMatches' /\ AtMostOnce'
  BY <1>1 DEF IInv, IndexMatches, AtMostOnce
<1>6. Uncalled' /\ OwedIsKept' /\ NobodySkipped'
  BY <1>1, <1>2 DEF IInv, Uncalled, OwedIsKept, NobodySkipped, Before, Busy
<1>. QED  BY <1>3, <1>4, <1>5, <1>6 DEF IInv

-----------------------------------------------------------------------------
(* IInv is an inductive invariant of the bus. *)
THEOREM Invariance == Spec => []IInv
<1>1. ASSUME IInv, [Next]_vars
      PROVE  IInv'
  <2>1. CASE UNCHANGED vars
    <3>1. UNCHANGED <<processor, types, index, queue, history, rows, stage, calling, pending, got, owed>>
      BY <2>1 DEF vars
    <3>2. TypeOK'
      BY <1>1, <3>1 DEF IInv, TypeOK
    <3>. QED
      BY <1>1, <3>1, <3>2 DEF IInv, IndexMatches, QueuedOnce, Uncalled, AtMostOnce,
         OwedIsKept, NobodySkipped
  <2>. QED
    BY <1>1, <2>1, LogInv, StopInv, ProcessInv, SubscriptionInv, RecordInv, SavedInv, SyncInv,
       HandlerInv, HandlerCancelledInv DEF Next
<1>. QED  BY InitInv, <1>1, PTL DEF Spec

(* The bus's state is well typed, and the queue holds exactly the events that
   are published and not yet taken by the processor. *)
THEOREM TypeCorrect == Spec => []TypeOK
<1>1. IInv => TypeOK
  BY DEF IInv
<1>. QED  BY Invariance, <1>1, PTL

(* No handler gets an event twice. *)
THEOREM NoDuplicates == Spec => []AtMostOnce
<1>1. IInv => AtMostOnce
  BY DEF IInv
<1>. QED  BY Invariance, <1>1, PTL

(* A delivery that ends has reached every handler that was there all the time. *)
THEOREM Complete == Spec => []NobodySkipped
<1>1. IInv => NobodySkipped
  BY DEF IInv
<1>. QED  BY Invariance, <1>1, PTL

(* The index by type and the subscriptions agree. *)
THEOREM IndexConsistent == Spec => []IndexMatches
<1>1. IInv => IndexMatches
  BY DEF IInv
<1>. QED  BY Invariance, <1>1, PTL

-----------------------------------------------------------------------------
(* The history is as long as its limit and the repository allow, and its events
   are those of the last rows, position by position. *)
Recent(h, r) ==
  /\ Len(h) <= MaxHistory /\ Len(h) <= Len(r)
  /\ \A i \in 1..Len(h) : h[i] = r[Len(r) - Len(h) + i]

LEMMA RecentIsSuffix ==
  ASSUME NEW h \in Seq(Events), NEW r \in Seq(Events), Recent(h, r)
  PROVE  h = SubSeq(r, Len(r) - Len(h) + 1, Len(r))
<1>. DEFINE t == SubSeq(r, Len(r) - Len(h) + 1, Len(r))
<1>1. /\ t \in Seq(Events) /\ Len(t) = Len(h)
      /\ \A i \in 1..Len(h) : t[i] = r[Len(r) - Len(h) + i]
  BY DEF Recent
<1>. HIDE DEF t
<1>2. \A i \in 1..Len(h) : h[i] = t[i]
  BY <1>1 DEF Recent
<1>3. h = t
  BY <1>1, <1>2, SeqEqual
<1>. QED  BY <1>3 DEF t

LEMMA RecentAppended ==
  ASSUME TypeOK, NEW e \in Events, Recent(history, rows)
  PROVE  Recent(AppendHistory(e), Append(rows, e))
<1>. DEFINE h == Append(history, e)
            r == Append(rows, e)
<1>1. history \in Seq(Events) /\ rows \in Seq(Events)
  BY DEF TypeOK
<1>2. /\ h \in Seq(Events) /\ Len(h) = Len(history) + 1
      /\ r \in Seq(Events) /\ Len(r) = Len(rows) + 1
  BY <1>1
<1>3. /\ \A i \in 1..Len(history) : h[i] = history[i]
      /\ h[Len(history) + 1] = e
      /\ \A i \in 1..Len(rows) : r[i] = rows[i]
      /\ r[Len(rows) + 1] = e
  BY <1>1, AppendProperties
<1>. HIDE DEF h, r
<1>4. \A i \in 1..Len(history) :
        Len(rows) - Len(history) + i \in 1..Len(rows)
  BY <1>1 DEF Recent
<1>5. \A i \in 1..Len(h) : h[i] = r[Len(r) - Len(h) + i]
  <2>. TAKE i \in 1..Len(h)
  <2>1. Len(r) - Len(h) + i = Len(rows) - Len(history) + i
    BY <1>1, <1>2
  <2>2. CASE i \in 1..Len(history)
    <3>1. history[i] = rows[Len(rows) - Len(history) + i]
      BY <2>2 DEF Recent
    <3>. QED  BY <1>3, <1>4, <2>1, <2>2, <3>1, Zenon
  <2>3. CASE i = Len(history) + 1
    <3>1. Len(r) - Len(h) + i = Len(rows) + 1
      BY <1>1, <1>2, <2>3
    <3>. QED  BY <1>3, <2>3, <3>1, Zenon
  <2>. QED  BY <1>1, <1>2, <2>2, <2>3
<1>6. CASE Len(h) > MaxHistory
  <2>. DEFINE t == Tail(h)
  <2>1. /\ Len(t) = Len(history)
        /\ \A i \in 1..Len(history) : t[i] = h[i + 1]
    BY <1>2, <1>6
  <2>. HIDE DEF t
  <2>2. \A i \in 1..Len(history) :
          i + 1 \in 1..Len(h) /\ Len(r) - Len(h) + (i + 1) = Len(r) - Len(t) + i
    BY <1>1, <1>2, <2>1
  <2>3. \A i \in 1..Len(t) : t[i] = r[Len(r) - Len(t) + i]
    BY <1>5, <2>1, <2>2, Zenon
  <2>4. Len(t) <= MaxHistory /\ Len(t) <= Len(r)
    BY <1>1, <1>2, <2>1 DEF Recent
  <2>5. Recent(t, r)
    BY <2>3, <2>4, Zenon DEF Recent
  <2>. QED  BY <1>6, <2>5 DEF AppendHistory, h, r, t
<1>7. CASE ~(Len(h) > MaxHistory)
  <2>1. Recent(h, r)
    BY <1>1, <1>2, <1>5, <1>7 DEF Recent
  <2>. QED  BY <1>7, <2>1 DEF AppendHistory, h, r
<1>. QED  BY <1>6, <1>7

LEMMA RecentReloaded ==
  ASSUME NEW r \in Seq(Events)
  PROVE  Recent(Last(r, MaxHistory), r)
<1>1. CASE Len(r) > MaxHistory
  <2>. DEFINE t == SubSeq(r, Len(r) - MaxHistory + 1, Len(r))
  <2>1. /\ Len(t) = MaxHistory
        /\ \A i \in 1..MaxHistory : t[i] = r[Len(r) - MaxHistory + i]
    BY <1>1
  <2>. HIDE DEF t
  <2>2. Recent(t, r)
    BY <1>1, <2>1 DEF Recent
  <2>. QED  BY <1>1, <2>2 DEF Last, t
<1>2. CASE ~(Len(r) > MaxHistory)
  BY <1>2 DEF Last, Recent
<1>. QED  BY <1>1, <1>2

(* The history in memory is always the end of what the repository holds, within
   its limit, whatever is published, cleared and reloaded. *)
THEOREM History == Spec => []HistoryIsRecent
<1>. DEFINE HInv == Recent(history, rows)
<1>1. Init => HInv
  BY DEF Init, Recent
<1>2. ASSUME TypeOK, TypeOK', HInv, [Next]_vars
      PROVE  HInv'
  <2>1. CASE UNCHANGED log
    BY <1>2, <2>1 DEF log, Recent
  <2>2. ASSUME NEW e \in Events, Publish(e) \/ PublishSync(e)
        PROVE  HInv'
    BY <1>2, <2>2, RecentAppended, Zenon DEF Publish, PublishSync, Record
  <2>3. CASE ClearHistory
    BY <1>2, <2>3 DEF ClearHistory, Recent, TypeOK
  <2>4. CASE ReloadHistory
    BY <1>2, <2>4, RecentReloaded, Zenon DEF ReloadHistory, TypeOK
  <2>5. ASSUME NEW e \in Events, \/ SaveFails(e) \/ Enqueue(e) \/ BeginSync(e)
                                \/ HandlerEnds(e) \/ HandlerCancelled(e)
        PROVE  UNCHANGED log
    BY <2>5, Zenon DEF SaveFails, Enqueue, BeginSync, HandlerEnds, HandlerCancelled
  <2>6. ASSUME Start \/ Stop \/ ProcessNext
        PROVE  UNCHANGED log
    BY <2>6, Zenon DEF Start, Stop, ProcessNext
  <2>7. ASSUME NEW s \in Subs, Unsubscribe(s) \/ \E T \in SUBSET Types \ {{}} : Subscribe(s, T)
        PROVE  UNCHANGED log
    BY <2>7, Zenon DEF Unsubscribe, Subscribe
  <2>8. CASE UNCHANGED vars
    BY <1>2, <2>1, <2>8 DEF vars, log
  <2>. QED
    BY <1>2, <2>1, <2>2, <2>3, <2>4, <2>5, <2>6, <2>7, <2>8, Zenon DEF Next
<1>3. ASSUME TypeOK, HInv
      PROVE  HistoryIsRecent
  BY <1>3, RecentIsSuffix, Zenon DEF HistoryIsRecent, Recent, TypeOK
<1>4. (TypeOK /\ HInv) /\ [Next]_vars /\ TypeOK' => HInv'
  BY <1>2, Zenon
<1>5. TypeOK /\ HInv => HistoryIsRecent
  BY <1>3
<1>. HIDE DEF HInv
<1>. QED  BY <1>1, <1>4, <1>5, TypeCorrect, PTL DEF Spec
=============================================================================
