-------------------------- MODULE MessageBusProofs --------------------------
(***************************************************************************)
(* Proofs about MessageBus: for any senders, queue sizes and numbers of    *)
(* subscriptions, no message is lost or handed out twice, and the bus      *)
(* implements the mailbox.                                                 *)
(***************************************************************************)
EXTENDS MessageBus, TLAPS

USE BusAssumption

-----------------------------------------------------------------------------
(* Sequences. *)

LEMMA AppendRange ==
  ASSUME NEW S, NEW q \in Seq(S), NEW e \in S
  PROVE  Range(Append(q, e)) = Range(q) \cup {e}
<1>1. /\ DOMAIN Append(q, e) = 1..(Len(q) + 1) /\ DOMAIN q = 1..Len(q)
      /\ Len(q) \in Nat
      /\ Append(q, e)[Len(q) + 1] = e
      /\ \A i \in 1..Len(q) : Append(q, e)[i] = q[i]
  OBVIOUS
<1>. QED  BY <1>1 DEF Range

LEMMA TailRange ==
  ASSUME NEW S, NEW q \in Seq(S), q # <<>>,
         \A i, j \in 1..Len(q) : q[i] = q[j] => i = j
  PROVE  /\ Head(q) \in Range(q)
         /\ Range(Tail(q)) = Range(q) \ {Head(q)}
<1>1. /\ Len(q) \in Nat \ {0} /\ DOMAIN q = 1..Len(q)
      /\ Head(q) = q[1] /\ Len(Tail(q)) = Len(q) - 1
      /\ DOMAIN Tail(q) = 1..(Len(q) - 1)
      /\ \A i \in 1..(Len(q) - 1) : Tail(q)[i] = q[i + 1]
  OBVIOUS
<1>2. Head(q) \in Range(q)
  BY <1>1 DEF Range
<1>3. ASSUME NEW x \in Range(Tail(q))
      PROVE  x \in Range(q) \ {Head(q)}
  <2>1. PICK i \in 1..(Len(q) - 1) : x = q[i + 1]
    BY <1>1, <1>3 DEF Range
  <2>2. i + 1 \in 1..Len(q) /\ i + 1 # 1 /\ 1 \in 1..Len(q)
    BY <1>1
  <2>. QED  BY <1>1, <2>1, <2>2 DEF Range
<1>4. ASSUME NEW x \in Range(q) \ {Head(q)}
      PROVE  x \in Range(Tail(q))
  <2>1. PICK i \in 1..Len(q) : x = q[i]
    BY <1>1, <1>4 DEF Range
  <2>2. i - 1 \in 1..(Len(q) - 1)
    BY <1>1, <1>4, <2>1
  <2>3. Tail(q)[i - 1] = q[(i - 1) + 1] /\ (i - 1) + 1 = i
    BY <1>1, <2>2
  <2>4. x = Tail(q)[i - 1] /\ i - 1 \in DOMAIN Tail(q)
    BY <1>1, <2>1, <2>2, <2>3
  <2>. QED  BY <2>4, Zenon DEF Range
<1>. QED  BY <1>2, <1>3, <1>4

(* The empty tuple is no message. *)
LEMMA NoneIsNoMessage == None \notin Messages
BY DEF None, Messages

-----------------------------------------------------------------------------
(* A task holds a message exactly while it is in the handler; tasks to come have
   not started; before the first subscription nothing waits. *)
Shape ==
  /\ \A t \in Tasks : at[t] = "handling" <=> held[t] # None
  /\ \A t \in Tasks : t > made => at[t] = "ended"
  /\ ~created => queue = <<>> /\ putting = {}

(* The messages of a sender are in the queue in the order of their numbers; the
   one it waits to put is its last and younger than all of them. *)
Order ==
  /\ \A i, j \in 1..Len(queue) :
       i < j /\ queue[i][1] = queue[j][1] => queue[i][2] < queue[j][2]
  /\ \A m \in putting : m[2] = sent[m[1]]
  /\ \A m \in putting : \A i \in 1..Len(queue) :
       queue[i][1] = m[1] => queue[i][2] < m[2]
  /\ \A i \in 1..Len(queue) : queue[i][2] <= sent[queue[i][1]]

(* Accounted, spelled out. *)
Known == refused \cup putting \cup Queued \cup Held \cup handled \cup cut \cup withdrawn
Covered == Known = {m \in Messages : m[2] <= sent[m[1]]}
Apart ==
  /\ refused \cap (putting \cup Queued \cup Held \cup handled \cup cut \cup withdrawn) = {}
  /\ putting \cap (Queued \cup Held \cup handled \cup cut \cup withdrawn) = {}
  /\ Queued \cap (Held \cup handled \cup cut \cup withdrawn) = {}
  /\ Held \cap (handled \cup cut \cup withdrawn) = {}
  /\ handled \cap (cut \cup withdrawn) = {}
  /\ cut \cap withdrawn = {}
OneHolder == \A t, u \in Tasks : held[t] = held[u] /\ held[t] # None => t = u

IInv == TypeOK /\ Shape /\ Order /\ Covered /\ Apart /\ OneHolder

LEMMA QueueInjective ==
  ASSUME TypeOK, Order
  PROVE  \A i, j \in 1..Len(queue) : queue[i] = queue[j] => i = j
<1>. SUFFICES ASSUME NEW i \in 1..Len(queue), NEW j \in 1..Len(queue),
                     queue[i] = queue[j], i # j
              PROVE  FALSE
  OBVIOUS
<1>1. queue \in Seq(Messages)
  BY DEF TypeOK
<1>2. Len(queue) \in Nat /\ i \in Nat /\ j \in Nat
  BY <1>1
<1>3. queue[i] \in Messages /\ queue[i][2] \in Nat
  BY <1>1 DEF Messages
<1>4. i < j \/ j < i
  BY <1>2
<1>. QED  BY <1>3, <1>4 DEF Order

LEMMA Spelled == IInv => Accounted
<1>. SUFFICES ASSUME IInv
              PROVE  Accounted
  OBVIOUS
<1>1. DOMAIN Places = {"refused", "putting", "queued", "held", "handled", "cut", "withdrawn"}
  BY DEF Places
<1>2. /\ Places["refused"] = refused /\ Places["putting"] = putting
      /\ Places["queued"] = Queued /\ Places["held"] = Held
      /\ Places["handled"] = handled /\ Places["cut"] = cut
      /\ Places["withdrawn"] = withdrawn
  BY DEF Places
<1>3. \A p, q \in DOMAIN Places : p # q => Places[p] \cap Places[q] = {}
  BY <1>1, <1>2 DEF IInv, Apart
<1>4. \A m : m \in Known <=> \E p \in DOMAIN Places : m \in Places[p]
  BY <1>1, <1>2 DEF Known
<1>5. \A m \in Messages : (m[2] <= sent[m[1]]) <=> (\E p \in DOMAIN Places : m \in Places[p])
  BY <1>4 DEF IInv, Covered
<1>. QED
  BY <1>3, <1>5, QueueInjective DEF IInv, Accounted, OneHolder

-----------------------------------------------------------------------------
LEMMA InitIInv == Init => IInv
<1>. SUFFICES ASSUME Init
              PROVE  IInv
  OBVIOUS
<1>1. TypeOK
  <2>1. queue \in Seq(Messages)
    BY DEF Init
  <2>2. at \in [Tasks -> {"getting", "handling", "ended"}] /\ held \in [Tasks -> Messages \cup {None}]
    BY DEF Init
  <2>3. sent \in [Senders -> 0..MaxMsgs] /\ last \in [Senders -> 0..MaxMsgs]
    BY DEF Init
  <2>4. created \in BOOLEAN /\ putting = {} /\ refused = {} /\ handled = {} /\ cut = {}
        /\ withdrawn = {} /\ killed = {}
    BY Zenon DEF Init
  <2>5. made \in 0..MaxTasks /\ consumer \in 0..made
    BY DEF Init
  <2>. QED  BY <2>1, <2>2, <2>3, <2>4, <2>5 DEF TypeOK
<1>2. Queued = {} /\ Held = {}
  BY DEF Init, Queued, Held, Range
<1>3. Shape /\ Order /\ OneHolder
  BY DEF Init, Shape, Order, OneHolder
<1>4. Covered /\ Apart
  BY <1>2 DEF Init, Covered, Known, Apart, Messages
<1>. QED  BY <1>1, <1>3, <1>4 DEF IInv

(* What an appended message does to the queue. *)
LEMMA AppendQueue ==
  ASSUME TypeOK, NEW m \in Messages, queue' = Append(queue, m)
  PROVE  /\ queue' \in Seq(Messages)
         /\ Queued' = Queued \cup {m}
         /\ Len(queue') = Len(queue) + 1 /\ Len(queue) \in Nat
         /\ queue'[Len(queue) + 1] = m
         /\ \A i \in 1..Len(queue) : queue'[i] = queue[i] /\ queue[i] \in Messages
<1>1. queue \in Seq(Messages)
  BY DEF TypeOK
<1>2. Queued' = Range(Append(queue, m))
  BY DEF Queued
<1>3. Queued' = Queued \cup {m}
  BY <1>1, <1>2, AppendRange DEF Queued
<1>. QED  BY <1>1, <1>3

(* Appending a message that is younger than all of its sender keeps the order. *)
LEMMA AppendOrder ==
  ASSUME TypeOK, TypeOK', Order, NEW m \in Messages, queue' = Append(queue, m),
         m[2] <= sent'[m[1]],
         \A s \in Senders : sent[s] <= sent'[s],
         \A i \in 1..Len(queue) : queue[i][1] = m[1] => queue[i][2] < m[2],
         \A n \in putting' : n \in putting /\ n[1] # m[1] /\ sent'[n[1]] = sent[n[1]]
  PROVE  Order'
<1>1. /\ Len(queue') = Len(queue) + 1 /\ Len(queue) \in Nat
      /\ queue'[Len(queue) + 1] = m
      /\ \A i \in 1..Len(queue) : queue'[i] = queue[i] /\ queue[i] \in Messages
  BY AppendQueue
<1>2. \A i \in 1..Len(queue') : i \in 1..Len(queue) \/ i = Len(queue) + 1
  BY <1>1
<1>3. \A n \in Messages : n[1] \in Senders /\ n[2] \in Nat /\ sent[n[1]] \in Nat /\ sent'[n[1]] \in Nat
  BY DEF Messages, TypeOK
<1>4. ASSUME NEW i \in 1..Len(queue'), NEW j \in 1..Len(queue'), i < j,
             queue'[i][1] = queue'[j][1]
      PROVE  queue'[i][2] < queue'[j][2]
  <2>1. i \in 1..Len(queue)
    BY <1>1, <1>4
  <2>. QED  BY <1>1, <1>2, <1>4, <2>1 DEF Order
<1>5. \A n \in putting' : n[2] = sent'[n[1]]
  BY DEF Order
<1>6. \A n \in putting' : \A i \in 1..Len(queue') : queue'[i][1] = n[1] => queue'[i][2] < n[2]
  BY <1>1, <1>2 DEF Order
<1>7. ASSUME NEW i \in 1..Len(queue')
      PROVE  queue'[i][2] <= sent'[queue'[i][1]]
  <2>1. CASE i \in 1..Len(queue)
    <3>1. queue'[i] = queue[i] /\ queue[i] \in Messages /\ queue[i][2] <= sent[queue[i][1]]
      BY <1>1, <2>1 DEF Order
    <3>. QED  BY <3>1, <1>3
  <2>2. CASE i = Len(queue) + 1
    BY <1>1, <2>2
  <2>. QED  BY <1>2, <2>1, <2>2
<1>. QED  BY <1>4, <1>5, <1>6, <1>7 DEF Order

(* The bookkeeping of a message that is published. *)
LEMMA NewMessage ==
  ASSUME IInv, NEW s \in Senders, sent[s] < MaxMsgs
  PROVE  LET m == <<s, sent[s] + 1>>
             after == [sent EXCEPT ![s] = @ + 1]
         IN  /\ m \in Messages /\ m[1] = s /\ m[2] = sent[s] + 1 /\ m \notin Known
             /\ after \in [Senders -> 0..MaxMsgs] /\ after[s] = sent[s] + 1
             /\ \A r \in Senders : sent[r] <= after[r] /\ (r # s => after[r] = sent[r])
             /\ {n \in Messages : n[2] <= after[n[1]]} = Known \cup {m}
<1>. DEFINE m == <<s, sent[s] + 1>>
            after == [sent EXCEPT ![s] = @ + 1]
<1>1. sent \in [Senders -> 0..MaxMsgs] /\ sent[s] \in 0..MaxMsgs /\ sent[s] + 1 \in 1..MaxMsgs
  BY DEF IInv, TypeOK
<1>2. m \in Messages /\ m[1] = s /\ m[2] = sent[s] + 1
  BY <1>1 DEF Messages
<1>3. Known = {n \in Messages : n[2] <= sent[n[1]]}
  BY DEF IInv, Covered
<1>4. m \notin Known
  BY <1>1, <1>2, <1>3
<1>5. /\ after \in [Senders -> 0..MaxMsgs] /\ after[s] = sent[s] + 1
      /\ \A r \in Senders : sent[r] <= after[r] /\ (r # s => after[r] = sent[r])
  BY <1>1
<1>6. ASSUME NEW n \in Messages
      PROVE  n[2] <= after[n[1]] <=> (n[2] <= sent[n[1]] \/ n = m)
  <2>1. n = <<n[1], n[2]>> /\ n[1] \in Senders /\ n[2] \in 1..MaxMsgs /\ sent[n[1]] \in Nat
    BY <1>1 DEF Messages
  <2>2. CASE n[1] # s
    BY <1>2, <1>5, <2>1, <2>2
  <2>3. CASE n[1] = s
    BY <1>1, <1>2, <1>5, <2>1, <2>3
  <2>. QED  BY <2>2, <2>3
<1>. QED  BY <1>2, <1>3, <1>4, <1>5, <1>6

LEMMA PublishIInv ==
  ASSUME IInv, NEW s \in Senders, Publish(s)
  PROVE  IInv'
<1>. DEFINE m == <<s, sent[s] + 1>>
<1>1. /\ Ready(s) /\ sent[s] < MaxMsgs
      /\ sent' = [sent EXCEPT ![s] = @ + 1]
      /\ UNCHANGED <<created, made, consumer, at, held, last, handled, cut, withdrawn, killed>>
  BY DEF Publish, Ready
<1>2. /\ m \in Messages /\ m[1] = s /\ m[2] = sent[s] + 1 /\ m \notin Known
      /\ sent' \in [Senders -> 0..MaxMsgs] /\ sent'[s] = sent[s] + 1
      /\ \A r \in Senders : sent[r] <= sent'[r] /\ (r # s => sent'[r] = sent[r])
      /\ {n \in Messages : n[2] <= sent'[n[1]]} = Known \cup {m}
  BY <1>1, NewMessage
<1>3. OneHolder' /\ Held' = Held
  BY <1>1 DEF IInv, OneHolder, Held
<1>4. \A n \in putting : n \in Messages /\ n[1] \in Senders /\ n[2] = sent[n[1]] /\ n[1] # s
  <2>. SUFFICES ASSUME NEW n \in putting
                PROVE  n \in Messages /\ n[1] \in Senders /\ n[2] = sent[n[1]] /\ n[1] # s
    OBVIOUS
  <2>1. n \in Messages /\ n[1] \in Senders /\ n[2] = sent[n[1]]
    BY DEF IInv, TypeOK, Order, Messages
  <2>2. n = <<n[1], n[2]>>
    BY <2>1 DEF Messages
  <2>. QED  BY <1>1, <2>1, <2>2 DEF Ready
<1>5. \A i \in 1..Len(queue) :
        queue[i] \in Messages /\ queue[i][1] \in Senders /\ queue[i][2] \in Nat
        /\ queue[i][2] <= sent[queue[i][1]]
  BY SMTT(30) DEF IInv, TypeOK, Order, Messages
<1>6. sent[s] \in Nat /\ \A i \in 1..Len(queue) : queue[i][1] = s => queue[i][2] < m[2]
  BY <1>2, <1>5 DEF IInv, TypeOK
<1>7. CASE ~created /\ refused' = refused \cup {m} /\ UNCHANGED <<queue, putting>>
  <2>1. TypeOK'
    BY <1>1, <1>2, <1>7 DEF IInv, TypeOK
  <2>2. Queued' = Queued
    BY <1>7 DEF Queued
  <2>3. queue = <<>> /\ putting = {}
    BY <1>7 DEF IInv, Shape
  <2>4. Shape' /\ Order'
    BY <1>1, <1>7, <2>3 DEF IInv, Shape, Order
  <2>5. Known' = Known \cup {m}
    BY <1>1, <1>3, <1>7, <2>2 DEF Known
  <2>6. Covered'
    BY <1>2, <2>5 DEF Covered
  <2>7. Apart'
    BY <1>1, <1>2, <1>3, <1>7, <2>2 DEF IInv, Apart, Known
  <2>. QED  BY <1>3, <2>1, <2>4, <2>6, <2>7 DEF IInv
<1>8. CASE created /\ putting' = putting \cup {m} /\ UNCHANGED <<queue, refused>>
  <2>1. TypeOK'
    BY <1>1, <1>2, <1>8 DEF IInv, TypeOK
  <2>2. Queued' = Queued
    BY <1>8 DEF Queued
  <2>3. Shape'
    BY <1>1, <1>8 DEF IInv, Shape
  <2>4. Order'
    <3>1. \A n \in putting' : n[2] = sent'[n[1]]
      BY <1>2, <1>4, <1>8
    <3>2. \A n \in putting' : \A i \in 1..Len(queue) : queue[i][1] = n[1] => queue[i][2] < n[2]
      BY <1>2, <1>6, <1>8 DEF IInv, Order
    <3>3. ASSUME NEW i \in 1..Len(queue)
          PROVE  queue[i][2] <= sent'[queue[i][1]]
      <4>1. sent[queue[i][1]] \in Nat /\ sent'[queue[i][1]] \in Nat
            /\ sent[queue[i][1]] <= sent'[queue[i][1]]
        BY <1>2, <1>5 DEF IInv, TypeOK
      <4>. QED  BY <1>5, <4>1
    <3>. QED  BY <1>8, <3>1, <3>2, <3>3 DEF IInv, Order
  <2>5. Known' = Known \cup {m}
    BY <1>1, <1>3, <1>8, <2>2 DEF Known
  <2>6. Covered'
    BY <1>2, <2>5 DEF Covered
  <2>7. Apart'
    BY <1>1, <1>2, <1>3, <1>8, <2>2 DEF IInv, Apart, Known
  <2>. QED  BY <1>3, <2>1, <2>3, <2>4, <2>6, <2>7 DEF IInv
<1>9. CASE created /\ queue' = Append(queue, m) /\ UNCHANGED <<putting, refused>>
  <2>1. queue' \in Seq(Messages) /\ Queued' = Queued \cup {m}
    BY <1>2, <1>9, AppendQueue DEF IInv
  <2>2. TypeOK'
    BY <1>1, <1>2, <1>9, <2>1 DEF IInv, TypeOK
  <2>3. Shape'
    BY <1>1, <1>9 DEF IInv, Shape
  <2>4. Order'
    <3>1. \A n \in putting' : n \in putting /\ n[1] # m[1] /\ sent'[n[1]] = sent[n[1]]
      BY <1>2, <1>4, <1>9
    <3>2. m[2] <= sent'[m[1]]
      BY <1>2, <1>6
    <3>. QED  BY <1>2, <1>6, <1>9, <2>2, <3>1, <3>2, AppendOrder DEF IInv
  <2>5. Known' = Known \cup {m}
    BY <1>1, <1>3, <1>9, <2>1 DEF Known
  <2>6. Covered'
    BY <1>2, <2>5 DEF Covered
  <2>7. Apart'
    <3>1. /\ Queued' = Queued \cup {m} /\ Held' = Held /\ m \notin Known
          /\ UNCHANGED <<refused, putting, handled, cut, withdrawn, killed>>
      BY <1>1, <1>2, <1>3, <1>9, <2>1
    <3>2. Apart
      BY DEF IInv
    <3>. HIDE DEF m
    <3>. QED  BY <3>1, <3>2 DEF Apart, Known
  <2>. QED  BY <1>3, <2>2, <2>3, <2>4, <2>6, <2>7 DEF IInv
<1>. QED  BY <1>7, <1>8, <1>9 DEF Publish

LEMMA PutIInv ==
  ASSUME IInv, NEW m \in Messages, Put(m)
  PROVE  IInv' /\ Queued' = Queued \cup {m}
<1>1. /\ m \in putting /\ putting' = putting \ {m} /\ queue' = Append(queue, m)
      /\ UNCHANGED <<created, sent, made, consumer, at, held, last, refused, handled, cut, withdrawn, killed>>
  BY DEF Put
<1>2. queue' \in Seq(Messages) /\ Queued' = Queued \cup {m}
  BY <1>1, AppendQueue DEF IInv
<1>3. TypeOK'
  BY <1>1, <1>2 DEF IInv, TypeOK
<1>4. Shape' /\ OneHolder' /\ Held' = Held
  BY <1>1 DEF IInv, Shape, OneHolder, Held
<1>5. Order'
  <2>1. \A n \in putting : n \in Messages /\ n[2] = sent[n[1]] /\ n = <<n[1], n[2]>>
    BY DEF IInv, TypeOK, Order, Messages
  <2>2. \A n \in putting' : n \in putting /\ n[1] # m[1] /\ sent'[n[1]] = sent[n[1]]
    BY <1>1, <2>1
  <2>3. \A i \in 1..Len(queue) : queue[i][1] = m[1] => queue[i][2] < m[2]
    BY <1>1 DEF IInv, Order
  <2>4. m[2] <= sent'[m[1]] /\ \A r \in Senders : sent[r] <= sent'[r]
    BY <1>1, <2>1 DEF IInv, TypeOK, Messages
  <2>. QED  BY <1>1, <1>3, <2>2, <2>3, <2>4, AppendOrder DEF IInv
<1>6. Known' = Known
  BY <1>1, <1>2, <1>4 DEF Known
<1>7. Covered'
  BY <1>1, <1>6 DEF IInv, Covered
<1>8. Apart'
  BY <1>1, <1>2, <1>4 DEF IInv, Apart
<1>. QED  BY <1>2, <1>3, <1>4, <1>5, <1>7, <1>8 DEF IInv

LEMMA PublishCancelledIInv ==
  ASSUME IInv, NEW m \in Messages, PublishCancelled(m)
  PROVE  IInv'
<1>1. /\ m \in putting /\ putting' = putting \ {m} /\ withdrawn' = withdrawn \cup {m}
      /\ UNCHANGED <<created, queue, sent, made, consumer, at, held, last, refused, handled,
                     cut, killed>>
  BY DEF PublishCancelled
<1>2. Queued' = Queued /\ Held' = Held
  BY <1>1 DEF Queued, Held
<1>3. TypeOK'
  BY <1>1 DEF IInv, TypeOK
<1>4. Shape' /\ OneHolder' /\ Order'
  BY <1>1 DEF IInv, Shape, OneHolder, Order
<1>5. Known' = Known
  BY <1>1, <1>2 DEF Known
<1>6. Covered'
  BY <1>1, <1>5 DEF IInv, Covered
<1>7. Apart'
  BY <1>1, <1>2 DEF IInv, Apart
<1>. QED  BY <1>3, <1>4, <1>6, <1>7 DEF IInv

LEMMA SubscribeIInv ==
  ASSUME IInv, Subscribe
  PROVE  IInv'
<1>1. /\ made \in Nat /\ made < MaxTasks /\ made' = made + 1 /\ consumer' = made + 1
      /\ created' = TRUE
      /\ at' = [at EXCEPT ![made + 1] = "getting"]
      /\ UNCHANGED <<queue, sent, putting, held, last, refused, handled, cut, withdrawn, killed>>
  BY DEF Subscribe, IInv, TypeOK
<1>2. made + 1 \in Tasks /\ at[made + 1] = "ended"
  BY <1>1 DEF IInv, Shape, Tasks
<1>3. TypeOK'
  <2>1. made' \in 0..MaxTasks /\ consumer' \in 0..made' /\ created' \in BOOLEAN
    BY <1>1
  <2>. QED  BY <1>1, <1>2, <2>1 DEF IInv, TypeOK
<1>4. Shape'
  BY <1>1, <1>2 DEF IInv, TypeOK, Shape, Tasks
<1>5. Queued' = Queued /\ Held' = Held
  BY <1>1 DEF Queued, Held
<1>6. Order' /\ OneHolder'
  BY <1>1 DEF IInv, Order, OneHolder
<1>7. Covered' /\ Apart'
  BY <1>1, <1>5 DEF IInv, Covered, Known, Apart
<1>. QED  BY <1>3, <1>4, <1>6, <1>7 DEF IInv

LEMMA UnsubscribeIInv ==
  ASSUME IInv, Unsubscribe
  PROVE  IInv'
<1>1. /\ consumer' = 0 /\ made \in Nat
      /\ UNCHANGED <<created, queue, sent, putting, made, at, held, last, refused, handled, cut, withdrawn, killed>>
  BY DEF Unsubscribe, IInv, TypeOK
<1>2. TypeOK' /\ Shape'
  BY <1>1 DEF IInv, TypeOK, Shape
<1>3. Queued' = Queued /\ Held' = Held
  BY <1>1 DEF Queued, Held
<1>4. Order' /\ OneHolder'
  BY <1>1 DEF IInv, Order, OneHolder
<1>5. Covered' /\ Apart'
  BY <1>1, <1>3 DEF IInv, Covered, Known, Apart
<1>. QED  BY <1>2, <1>4, <1>5 DEF IInv

(* The message taken is the oldest of its sender that is waiting. *)
LEMMA TakeHead ==
  ASSUME IInv, NEW t \in Tasks, Take(t)
  PROVE  LET m == Head(queue)
         IN  /\ m \in Queued /\ m \in Messages /\ m \notin putting
             /\ queue' \in Seq(Messages) /\ Queued' = Queued \ {m}
             /\ Order'
             /\ \A n \in Queued \cup putting : n[1] = m[1] => m[2] <= n[2]
<1>. DEFINE m == Head(queue)
<1>1. /\ queue \in Seq(Messages) /\ queue # <<>> /\ queue' = Tail(queue)
      /\ UNCHANGED <<sent, putting>>
  BY DEF Take, IInv, TypeOK
<1>2. /\ Len(queue) \in Nat \ {0} /\ m = queue[1] /\ m \in Messages
      /\ queue' \in Seq(Messages) /\ Len(queue') = Len(queue) - 1
      /\ \A i \in 1..Len(queue') : queue'[i] = queue[i + 1] /\ i + 1 \in 1..Len(queue)
  BY <1>1
<1>3. m \in Queued /\ Queued' = Queued \ {m}
  <2>1. Queued' = Range(Tail(queue))
    BY <1>1 DEF Queued
  <2>. QED  BY <1>1, <2>1, QueueInjective, TailRange DEF IInv, Queued
<1>4. m \notin putting
  BY <1>3 DEF IInv, Apart
<1>5. Order'
  BY <1>1, <1>2 DEF IInv, Order
<1>6. ASSUME NEW n \in Queued \cup putting, n[1] = m[1]
      PROVE  m[2] <= n[2]
  <2>0. m[2] \in Nat /\ \A k \in Messages : k[2] \in Nat
    BY <1>2 DEF Messages
  <2>1. CASE n \in putting
    <3>0. n \in Messages
      BY <2>1 DEF IInv, TypeOK
    <3>1. m[2] < n[2]
      <4>1. 1 \in 1..Len(queue) /\ queue[1][1] = n[1]
        BY <1>2, <1>6
      <4>. QED  BY <1>2, <2>1, <4>1 DEF IInv, Order
    <3>. QED  BY <2>0, <3>0, <3>1
  <2>2. CASE n \in Queued
    <3>1. PICK i \in 1..Len(queue) : n = queue[i]
      BY <1>1, <2>2 DEF Queued, Range
    <3>2. CASE i = 1
      BY <1>2, <2>0, <3>1, <3>2
    <3>3. CASE i # 1
      <4>1. 1 < i /\ 1 \in 1..Len(queue)
        BY <1>2, <3>3
      <4>2. m[2] < n[2] /\ n \in Messages
        BY <1>1, <1>2, <1>6, <3>1, <4>1 DEF IInv, Order
      <4>. QED  BY <2>0, <4>2
    <3>. QED  BY <3>2, <3>3
  <2>. QED  BY <2>1, <2>2
<1>. QED  BY <1>2, <1>3, <1>4, <1>5, <1>6

LEMMA TakeIInv ==
  ASSUME IInv, NEW t \in Tasks, Take(t)
  PROVE  IInv'
<1>. DEFINE m == Head(queue)
<1>1. /\ at[t] = "getting" /\ at' = [at EXCEPT ![t] = "handling"]
      /\ held' = [held EXCEPT ![t] = m]
      /\ last' = [last EXCEPT ![m[1]] = m[2]]
      /\ UNCHANGED <<created, sent, putting, made, consumer, refused, handled, cut, withdrawn, killed>>
  BY DEF Take
<1>2. /\ m \in Queued /\ m \in Messages /\ queue' \in Seq(Messages)
      /\ Queued' = Queued \ {m} /\ Order'
  BY TakeHead
<1>3. held[t] = None /\ m # None /\ held \in [Tasks -> Messages \cup {None}]
  BY <1>1, <1>2, NoneIsNoMessage DEF IInv, TypeOK, Shape
<1>4. TypeOK'
  <2>1. m[1] \in Senders /\ m[2] \in 0..MaxMsgs
    BY <1>2 DEF Messages
  <2>2. last' \in [Senders -> 0..MaxMsgs]
    BY <1>1, <2>1 DEF IInv, TypeOK
  <2>. QED  BY <1>1, <1>2, <2>2 DEF IInv, TypeOK
<1>5. Held' = Held \cup {m}
  BY <1>1, <1>3 DEF Held
<1>6. Shape'
  <2>1. created
    BY DEF Take, IInv, Shape
  <2>2. \A u \in Tasks : u > made => at'[u] = "ended"
    BY <1>1 DEF IInv, TypeOK, Shape
  <2>3. \A u \in Tasks : at'[u] = "handling" <=> held'[u] # None
    BY <1>1, <1>3 DEF IInv, TypeOK, Shape
  <2>. QED  BY <1>1, <2>1, <2>2, <2>3 DEF Shape
<1>7. OneHolder'
  <2>1. m \notin Held
    BY <1>2 DEF IInv, Apart
  <2>2. \A u \in Tasks : held[u] # m
    BY <1>3, <2>1 DEF Held
  <2>. QED  BY <1>1, <1>3, <2>2 DEF IInv, OneHolder
<1>8. Known' = Known
  BY <1>1, <1>2, <1>5 DEF Known
<1>9. Covered' /\ Apart'
  BY <1>1, <1>2, <1>5, <1>8 DEF IInv, Covered, Apart
<1>. QED  BY <1>2, <1>4, <1>6, <1>7, <1>9 DEF IInv

(* A task lets go of the message it holds. *)
LEMMA Release ==
  ASSUME IInv, NEW t \in Tasks, at[t] = "handling", held' = [held EXCEPT ![t] = None]
  PROVE  /\ held[t] \in Held /\ held[t] \in Messages
         /\ Held' = Held \ {held[t]} /\ OneHolder'
<1>1. held[t] # None /\ held \in [Tasks -> Messages \cup {None}]
  BY DEF IInv, TypeOK, Shape
<1>2. \A u \in Tasks : held[u] = held[t] => u = t
  BY <1>1 DEF IInv, OneHolder
<1>. QED  BY <1>1, <1>2 DEF IInv, OneHolder, Held

LEMMA HandleIInv ==
  ASSUME IInv, NEW t \in Tasks, Handle(t)
  PROVE  IInv'
<1>1. /\ at[t] = "handling" /\ at' = [at EXCEPT ![t] = "getting"]
      /\ handled' = handled \cup {held[t]} /\ held' = [held EXCEPT ![t] = None]
      /\ UNCHANGED <<created, queue, sent, putting, made, consumer, last, refused, cut, withdrawn, killed>>
  BY DEF Handle
<1>2. held[t] \in Held /\ held[t] \in Messages /\ Held' = Held \ {held[t]} /\ OneHolder'
  BY <1>1, Release, Zenon
<1>3. TypeOK'
  BY <1>1, <1>2 DEF IInv, TypeOK
<1>4. Shape'
  <2>1. ~(t > made)
    BY <1>1, SMTT(20) DEF IInv, Shape
  <2>. QED  BY <1>1, <2>1, SMTT(20) DEF IInv, TypeOK, Shape
<1>5. Queued' = Queued /\ Order'
  BY <1>1, SMTT(20) DEF IInv, Order, Queued
<1>6. Known' = Known
  BY <1>1, <1>2, <1>5 DEF Known
<1>7. Covered' /\ Apart'
  BY <1>1, <1>2, <1>5, <1>6 DEF IInv, Covered, Apart
<1>. QED  BY <1>2, <1>3, <1>4, <1>5, <1>7 DEF IInv

LEMMA HandlerCancelledIInv ==
  ASSUME IInv, NEW t \in Tasks, HandlerCancelled(t)
  PROVE  IInv'
<1>1. /\ at[t] = "handling" /\ at' = [at EXCEPT ![t] = "ended"]
      /\ cut' = cut \cup {held[t]} /\ held' = [held EXCEPT ![t] = None]
      /\ killed' = killed \cup {t}
      /\ UNCHANGED <<created, queue, sent, putting, made, consumer, last, refused, handled,
                     withdrawn>>
  BY DEF HandlerCancelled
<1>2. held[t] \in Held /\ held[t] \in Messages /\ Held' = Held \ {held[t]} /\ OneHolder'
  BY <1>1, Release, Zenon
<1>3. TypeOK'
  BY <1>1, <1>2 DEF IInv, TypeOK
<1>4. Shape'
  BY <1>1 DEF IInv, TypeOK, Shape
<1>5. Queued' = Queued /\ Order'
  BY <1>1, SMTT(20) DEF IInv, Order, Queued
<1>6. Known' = Known
  BY <1>1, <1>2, <1>5 DEF Known
<1>7. Covered' /\ Apart'
  BY <1>1, <1>2, <1>5, <1>6 DEF IInv, Covered, Apart
<1>. QED  BY <1>2, <1>3, <1>4, <1>5, <1>7 DEF IInv

LEMMA EndIInv ==
  ASSUME IInv, NEW t \in Tasks, End(t)
  PROVE  IInv'
<1>1. /\ at' = [at EXCEPT ![t] = "ended"] /\ held' = [held EXCEPT ![t] = None]
      /\ UNCHANGED <<created, queue, sent, putting, made, consumer, last, refused, handled, withdrawn, killed>>
  BY DEF End
<1>2. Queued' = Queued /\ Order'
  BY <1>1 DEF IInv, Order, Queued
<1>3. Shape'
  BY <1>1 DEF IInv, TypeOK, Shape
<1>4. CASE at[t] = "handling"
  <2>1. cut' = cut \cup {held[t]}
    BY <1>4 DEF End
  <2>2. held[t] \in Held /\ held[t] \in Messages /\ Held' = Held \ {held[t]} /\ OneHolder'
    BY <1>1, <1>4, Release, Zenon
  <2>3. TypeOK'
    BY <1>1, <2>1, <2>2 DEF IInv, TypeOK
  <2>4. Known' = Known
    BY <1>1, <1>2, <2>1, <2>2 DEF Known
  <2>5. Covered' /\ Apart'
    BY <1>1, <1>2, <2>1, <2>2, <2>4 DEF IInv, Covered, Apart
  <2>. QED  BY <1>2, <1>3, <2>2, <2>3, <2>5 DEF IInv
<1>5. CASE at[t] # "handling"
  <2>1. cut' = cut /\ held[t] = None
    BY <1>5 DEF End, IInv, Shape
  <2>2. held' = held
    BY <1>1, <2>1 DEF IInv, TypeOK
  <2>3. TypeOK' /\ Held' = Held /\ OneHolder'
    BY <1>1, <2>1, <2>2 DEF IInv, TypeOK, Held, OneHolder
  <2>4. Covered' /\ Apart'
    BY <1>1, <1>2, <2>1, <2>3 DEF IInv, Covered, Known, Apart
  <2>. QED  BY <1>2, <1>3, <2>3, <2>4 DEF IInv
<1>. QED  BY <1>4, <1>5

LEMMA NextIInv == IInv /\ [Next]_vars => IInv'
<1>. SUFFICES ASSUME IInv, [Next]_vars
              PROVE  IInv'
  OBVIOUS
<1>1. CASE UNCHANGED vars
  <2>1. Queued' = Queued /\ Held' = Held
    BY <1>1 DEF vars, Queued, Held
  <2>2. Covered' /\ Apart'
    BY <1>1, <2>1 DEF vars, IInv, Covered, Known, Apart
  <2>3. TypeOK' /\ Shape' /\ Order' /\ OneHolder'
    BY <1>1 DEF vars, IInv, TypeOK, Shape, Order, OneHolder
  <2>. QED  BY <2>2, <2>3 DEF IInv
<1>. QED
  BY <1>1, PublishIInv, PutIInv, PublishCancelledIInv, SubscribeIInv, UnsubscribeIInv,
     TakeIInv, HandleIInv, HandlerCancelledIInv, EndIInv
  DEF Next

-----------------------------------------------------------------------------
(* The inductive invariant of the bus. *)
THEOREM Invariance == Spec => []IInv
<1>. QED  BY InitIInv, NextIInv, PTL DEF Spec

(* The variables keep their types. *)
THEOREM TypeCorrect == Spec => []TypeOK
<1>1. IInv => TypeOK
  BY DEF IInv
<1>. QED  BY Invariance, <1>1, PTL

(* Nothing is lost and nothing is handed out twice, for any senders, queue size
   and number of subscriptions. *)
THEOREM NothingLost == Spec => []Accounted
<1>. QED  BY Invariance, Spelled, PTL

-----------------------------------------------------------------------------
LEMMA InitBox == Init => Box!Init
<1>. SUFFICES ASSUME Init
              PROVE  Box!Init
  OBVIOUS
<1>1. Queued = {} /\ putting = {}
  BY DEF Init, Queued, Range
<1>. QED  BY <1>1 DEF Init, Box!Init

(* Every step of the bus is a step of the mailbox or leaves it as it is. *)
LEMMA StepBox == IInv /\ [Next]_vars => [Box!Next]_(Box!vars)
<1>. SUFFICES ASSUME IInv, [Next]_vars
              PROVE  Box!Next \/ UNCHANGED Box!vars
  BY DEF Box!vars
<1>1. ASSUME NEW s \in Senders, Publish(s)
      PROVE  Box!Next
  <2>. DEFINE m == <<s, sent[s] + 1>>
  <2>1. /\ sent[s] < MaxMsgs /\ sent' = [sent EXCEPT ![s] = @ + 1]
        /\ UNCHANGED <<created, last>>
    BY <1>1 DEF Publish, Ready
  <2>2. \/ ~created /\ UNCHANGED <<putting, Queued>>
        \/ created /\ Queued' = Queued \cup {m} /\ UNCHANGED putting
        \/ created /\ putting' = putting \cup {m} /\ UNCHANGED Queued
    <3>1. CASE ~created /\ UNCHANGED <<queue, putting>>
      BY <3>1 DEF Queued
    <3>2. CASE created /\ putting' = putting \cup {m} /\ UNCHANGED queue
      BY <3>2 DEF Queued
    <3>3. CASE created /\ queue' = Append(queue, m) /\ UNCHANGED putting
      <4>1. m \in Messages
        BY <2>1, NewMessage
      <4>2. Queued' = Queued \cup {m}
        BY <3>3, <4>1, AppendQueue DEF IInv
      <4>. QED  BY <3>3, <4>2
    <3>. QED  BY <1>1, <3>1, <3>2, <3>3 DEF Publish
  <2>3. Box!Send(s)
    BY <2>1, <2>2, Zenon DEF Box!Send
  <2>. QED  BY <2>3 DEF Box!Next
<1>2. ASSUME NEW m \in Messages, Put(m) \/ PublishCancelled(m)
      PROVE  Box!Next
  <2>1. m \in Box!Messages
    BY DEF Messages, Box!Messages
  <2>2. CASE Put(m)
    <3>1. Queued' = Queued \cup {m}
      BY <2>2, PutIInv
    <3>2. Box!Accept(m)
      BY <2>2, <3>1 DEF Put, Box!Accept
    <3>. QED  BY <2>1, <3>2 DEF Box!Next
  <2>3. CASE PublishCancelled(m)
    <3>1. Box!CallOff(m)
      BY <2>3 DEF PublishCancelled, Queued, Box!CallOff
    <3>. QED  BY <2>1, <3>1 DEF Box!Next
  <2>. QED  BY <1>2, <2>2, <2>3
<1>3. CASE Subscribe
  <2>1. UNCHANGED <<sent, last, putting, Queued>> /\ created' = TRUE
    BY <1>3 DEF Subscribe, Queued
  <2>2. CASE ~created
    <3>1. Box!Open
      BY <2>1, <2>2 DEF Box!Open
    <3>. QED  BY <3>1 DEF Box!Next
  <2>3. CASE created
    <3>1. created' = created
      BY <2>1, <2>3 DEF IInv, TypeOK
    <3>. QED  BY <2>1, <3>1 DEF Box!vars
  <2>. QED  BY <2>2, <2>3
<1>4. ASSUME NEW t \in Tasks, Take(t)
      PROVE  Box!Next
  <2>. DEFINE m == Head(queue)
  <2>1. /\ m \in Queued /\ m \in Messages /\ m \notin putting
        /\ Queued' = Queued \ {m}
        /\ \A n \in Queued \cup putting : n[1] = m[1] => m[2] <= n[2]
    BY <1>4, TakeHead
  <2>2. last' = [last EXCEPT ![m[1]] = m[2]] /\ UNCHANGED <<created, sent, putting>>
    BY <1>4 DEF Take
  <2>3. Box!Receive(m)
    BY <2>1, <2>2 DEF Box!Receive
  <2>4. m \in Box!Messages
    BY <2>1 DEF Messages, Box!Messages
  <2>. QED  BY <2>3, <2>4 DEF Box!Next
<1>5. ASSUME Unsubscribe \/ (\E t \in Tasks : Handle(t) \/ HandlerCancelled(t) \/ End(t)) \/ UNCHANGED vars
      PROVE  UNCHANGED Box!vars
  <2>1. UNCHANGED <<created, queue, sent, putting, last>>
    BY <1>5 DEF Unsubscribe, Handle, HandlerCancelled, End, vars
  <2>. QED  BY <2>1 DEF Box!vars, Queued
<1>. QED  BY <1>1, <1>2, <1>3, <1>4, <1>5 DEF Next

(* The bus implements the mailbox. *)
THEOREM ImplementsMailbox == Spec => MailboxSpec
<1>. QED  BY Invariance, InitBox, StepBox, PTL DEF Spec, MailboxSpec, Box!Spec
=============================================================================
