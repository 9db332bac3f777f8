------------------------- MODULE CorrelationProofs -------------------------
(***************************************************************************)
(* Proofs about Correlation, for any subscriptions, messages, instances,   *)
(* buffer size and number of reloads: the five invariants of the module    *)
(* and what a reload restores; and that it implements Rendezvous.          *)
(*                                                                         *)
(* The argument.  A reload replaces the memory by the replay of the rows,  *)
(* so no invariant of the memory alone is inductive: what the replay would *)
(* end in, End, has to satisfy it at every moment.  A step that appends a  *)
(* row applies to End what the row stands for (ReplayAppend), which is     *)
(* what the step does to the memory; the row of a consumed message comes   *)
(* late, and changes nothing, because the replay of the consuming          *)
(* subscription has taken the message already (ForgetTaskInv).             *)
(*                                                                         *)
(* The refinement needs one thing more, MInv: what the replay consumes was *)
(* consumed before, so that a reload tells nobody anything new.            *)
(***************************************************************************)
EXTENDS Correlation, SequenceTheorems, WellFoundedInduction, TLAPS

(* Induction over the naturals, for a set. *)
LEMMA Induction ==
  ASSUME NEW S, 0 \in S, \A k \in Nat : k \in S => k + 1 \in S
  PROVE  Nat \subseteq S
<1>. DEFINE R == OpToRel(<, Nat)
            bad == Nat \ S
<1>1. IsWellFoundedOn(R, Nat)
  BY NatLessThanWellFounded, Zenon
<1>2. R = {ss \in Nat \X Nat : ss[1] < ss[2]}
  BY Zenon DEF OpToRel
<1>. HIDE DEF R
<1>. SUFFICES ASSUME bad # {} PROVE FALSE
  OBVIOUS
<1>3. PICK x \in bad : \A y \in bad : ~(<<y, x>> \in R)
  BY <1>1, WFMin, Zenon
<1>4. x \in Nat /\ x # 0 /\ x - 1 \in Nat /\ x - 1 < x /\ (x - 1) + 1 = x
  BY <1>3
<1>5. <<x - 1, x>> \in R
  BY <1>2, <1>4
<1>6. x - 1 \in S
  BY <1>3, <1>4, <1>5, Zenon
<1>7. x \in S
  BY <1>4, <1>6, Zenon
<1>. QED  BY <1>3, <1>7

(* The loops of Without and of Replay, as functions of the number of rounds. *)
Kept(b, S) ==
  CHOOSE kept : kept = [k \in 0..Len(b) |->
    IF k = 0 THEN <<>> ELSE IF b[k] \in S THEN kept[k - 1] ELSE Append(kept[k - 1], b[k])]

Nothing == [mem |-> Empty, tasks |-> {}, gone |-> {}]
After(h) ==
  CHOOSE after : after = [k \in 0..Len(h) |->
    IF k = 0 THEN Nothing ELSE Replayed(after[k - 1], h[k])]

(* The loop that removes messages from a buffer, round by round. *)
LEMMA KeptRounds ==
  ASSUME NEW b, NEW S, Len(b) \in Nat
  PROVE  /\ Without(b, S) = Kept(b, S)[Len(b)]
         /\ Kept(b, S)[0] = <<>>
         /\ \A k \in 1..Len(b) :
              Kept(b, S)[k] = IF b[k] \in S THEN Kept(b, S)[k - 1] ELSE Append(Kept(b, S)[k - 1], b[k])
<1>. DEFINE Step(v, k) == IF b[k] \in S THEN v ELSE Append(v, b[k])
            Runs(n, g) == g = [k \in 0..n |-> IF k = 0 THEN <<>> ELSE Step(g[k - 1], k)]
            N == {n \in Nat : \E g : Runs(n, g)}
<1>1. Without(b, S) = Kept(b, S)[Len(b)] /\ Kept(b, S) = CHOOSE g : Runs(Len(b), g)
  BY Zenon DEF Without, Kept
<1>. HIDE DEF Step
<1>2. 0 \in N
  <2>1. Runs(0, [k \in 0..0 |-> <<>>])
    OBVIOUS
  <2>. HIDE DEF Runs
  <2>. QED  BY <2>1
<1>3. ASSUME NEW n \in Nat, n \in N
      PROVE  n + 1 \in N
  <2>1. PICK g : Runs(n, g)
    BY <1>3, Zenon
  <2>. DEFINE h == [k \in 0..(n + 1) |-> IF k <= n THEN g[k] ELSE Step(g[n], n + 1)]
  <2>2. ASSUME NEW k \in 0..(n + 1)
        PROVE  h[k] = IF k = 0 THEN <<>> ELSE Step(h[k - 1], k)
    <3>1. CASE k <= n
      BY <2>1, <3>1
    <3>2. CASE k = n + 1
      <4>1. h[k] = Step(g[n], n + 1) /\ k - 1 = n /\ h[n] = g[n] /\ k # 0
        BY <3>2
      <4>. QED  BY <3>2, <4>1
    <3>. QED  BY <3>1, <3>2
  <2>3. Runs(n + 1, h)
    BY <2>2
  <2>. HIDE DEF Runs
  <2>. QED  BY <2>3
<1>4. Len(b) \in N
  <2>. HIDE DEF N
  <2>. QED  BY <1>2, <1>3, Induction, Zenon
<1>5. Runs(Len(b), Kept(b, S))
  BY <1>1, <1>4, Zenon
<1>. DEFINE K == Kept(b, S)
            L == Len(b)
<1>. HIDE DEF K, L
<1>6. L \in Nat /\ K = [k \in 0..L |-> IF k = 0 THEN <<>> ELSE Step(K[k - 1], k)]
  BY <1>5, Zenon DEF K, L
<1>7. K[0] = <<>> /\ \A k \in 1..L : K[k] = Step(K[k - 1], k)
  BY <1>6
<1>. QED  BY <1>1, <1>7, Zenon DEF K, L, Step

(* The loop of reload_from_history, row by row. *)
LEMMA ReplayRounds ==
  ASSUME NEW h, Len(h) \in Nat
  PROVE  /\ Replay(h) = After(h)[Len(h)]
         /\ After(h)[0] = Nothing
         /\ \A k \in 1..Len(h) : After(h)[k] = Replayed(After(h)[k - 1], h[k])
<1>. DEFINE Step(v, k) == Replayed(v, h[k])
            Runs(n, g) == g = [k \in 0..n |-> IF k = 0 THEN Nothing ELSE Step(g[k - 1], k)]
            N == {n \in Nat : \E g : Runs(n, g)}
<1>1. Replay(h) = After(h)[Len(h)] /\ After(h) = CHOOSE g : Runs(Len(h), g)
  BY Zenon DEF Replay, After, Nothing
<1>. HIDE DEF Step
<1>2. 0 \in N
  <2>1. Runs(0, [k \in 0..0 |-> Nothing])
    OBVIOUS
  <2>. HIDE DEF Runs
  <2>. QED  BY <2>1
<1>3. ASSUME NEW n \in Nat, n \in N
      PROVE  n + 1 \in N
  <2>1. PICK g : Runs(n, g)
    BY <1>3, Zenon
  <2>. DEFINE f == [k \in 0..(n + 1) |-> IF k <= n THEN g[k] ELSE Step(g[n], n + 1)]
  <2>2. ASSUME NEW k \in 0..(n + 1)
        PROVE  f[k] = IF k = 0 THEN Nothing ELSE Step(f[k - 1], k)
    <3>1. CASE k <= n
      BY <2>1, <3>1
    <3>2. CASE k = n + 1
      <4>1. f[k] = Step(g[n], n + 1) /\ k - 1 = n /\ f[n] = g[n] /\ k # 0
        BY <3>2
      <4>. QED  BY <3>2, <4>1
    <3>. QED  BY <3>1, <3>2
  <2>3. Runs(n + 1, f)
    BY <2>2
  <2>. HIDE DEF Runs
  <2>. QED  BY <2>3
<1>4. Len(h) \in N
  <2>. HIDE DEF N
  <2>. QED  BY <1>2, <1>3, Induction, Zenon
<1>5. Runs(Len(h), After(h))
  BY <1>1, <1>4, Zenon
<1>. DEFINE A == After(h)
            L == Len(h)
<1>. HIDE DEF A, L
<1>6. L \in Nat /\ A = [k \in 0..L |-> IF k = 0 THEN Nothing ELSE Step(A[k - 1], k)]
  BY <1>5, Zenon DEF A, L
<1>7. A[0] = Nothing /\ \A k \in 1..L : A[k] = Step(A[k - 1], k)
  BY <1>6
<1>. QED  BY <1>1, <1>7, Zenon DEF A, L, Step

(* A reload that finds one row more. *)
LEMMA ReplayAppend ==
  ASSUME NEW h \in Seq(Row), NEW r \in Row
  PROVE  Replay(Append(h, r)) = Replayed(Replay(h), r)
<1>. DEFINE n == Len(h)
            g == Append(h, r)
            A == After(h)
            B == After(g)
            N == {k \in Nat : k <= n => A[k] = B[k]}
<1>1. /\ n \in Nat /\ Len(g) = n + 1 /\ g[n + 1] = r
      /\ \A k \in 1..n : g[k] = h[k]
  BY AppendProperties, LenProperties
<1>. HIDE DEF g
<1>2. Replay(h) = A[n] /\ A[0] = Nothing /\ \A k \in 1..n : A[k] = Replayed(A[k - 1], h[k])
  BY <1>1, ReplayRounds, Zenon
<1>3. Len(g) \in Nat
  BY <1>1
<1>4. Replay(g) = B[Len(g)] /\ B[0] = Nothing /\ \A k \in 1..Len(g) : B[k] = Replayed(B[k - 1], g[k])
  BY <1>3, ReplayRounds, Zenon
<1>. HIDE DEF A, B, n
<1>5. 0 \in N
  BY <1>2, <1>4
<1>6. ASSUME NEW k \in Nat, k \in N
      PROVE  k + 1 \in N
  <2>. SUFFICES ASSUME k + 1 <= n PROVE A[k + 1] = B[k + 1]
    OBVIOUS
  <2>1. k + 1 \in 1..n /\ k + 1 \in 1..Len(g) /\ (k + 1) - 1 = k /\ A[k] = B[k]
    BY <1>1, <1>6
  <2>2. A[k + 1] = Replayed(A[k], h[k + 1]) /\ B[k + 1] = Replayed(B[k], g[k + 1]) /\ g[k + 1] = h[k + 1]
    BY <1>1, <1>2, <1>4, <2>1
  <2>. QED  BY <2>1, <2>2, Zenon
<1>7. n \in N
  <2>. HIDE DEF N
  <2>. QED  BY <1>1, <1>5, <1>6, Induction, Zenon
<1>8. A[n] = B[n]
  BY <1>1, <1>7
<1>9. n + 1 \in 1..Len(g) /\ (n + 1) - 1 = n
  BY <1>1
<1>10. B[n + 1] = Replayed(B[n], g[n + 1])
  BY <1>4, <1>9
<1>. QED  BY <1>1, <1>2, <1>4, <1>8, <1>10, Zenon DEF g

(* A reload without a history. *)
LEMMA ReplayEmpty == Replay(<<>>) = Nothing
<1>1. Len(<<>>) = 0 /\ 0 \in Nat
  OBVIOUS
<1>. QED  BY <1>1, ReplayRounds, Zenon

(* What is left of a buffer. *)
LEMMA WithoutProperties ==
  ASSUME NEW b \in Seq(Messages), NEW S
  PROVE  /\ Without(b, S) \in Seq(Messages) /\ Len(Without(b, S)) <= Len(b)
         /\ Range(Without(b, S)) = Range(b) \ S
         /\ IsInjective(b) => IsInjective(Without(b, S))
         /\ Range(b) \cap S = {} => Without(b, S) = b
<1>. DEFINE n == Len(b)
            K == Kept(b, S)
            Upto(k) == {b[j] : j \in 1..k}
            P(k) == /\ K[k] \in Seq(Messages) /\ Len(K[k]) <= k
                    /\ Range(K[k]) = Upto(k) \ S
                    /\ IsInjective(b) => IsInjective(K[k])
                    /\ Range(b) \cap S = {} => Len(K[k]) = k /\ \A i \in 1..k : K[k][i] = b[i]
            N == {k \in Nat : k <= n => P(k)}
<1>1. n \in Nat /\ DOMAIN b = 1..n /\ \A i \in 1..n : b[i] \in Messages
  BY LenProperties
<1>. HIDE DEF K, n
<1>2. /\ Without(b, S) = K[n] /\ K[0] = <<>>
      /\ \A k \in 1..n : K[k] = IF b[k] \in S THEN K[k - 1] ELSE Append(K[k - 1], b[k])
  <2>1. Len(b) \in Nat
    BY <1>1 DEF n
  <2>2. /\ Without(b, S) = Kept(b, S)[Len(b)] /\ Kept(b, S)[0] = <<>>
        /\ \A k \in 1..Len(b) :
             Kept(b, S)[k] = IF b[k] \in S THEN Kept(b, S)[k - 1] ELSE Append(Kept(b, S)[k - 1], b[k])
    BY <2>1, KeptRounds
  <2>. QED  BY <2>2, Zenon DEF K, n
<1>3. 0 \in N
  <2>1. K[0] \in Seq(Messages) /\ Len(K[0]) = 0 /\ DOMAIN K[0] = {} /\ 1..0 = {}
    BY <1>2
  <2>2. Upto(0) = {}
    BY <2>1, Zenon
  <2>3. Range(K[0]) = {} /\ IsInjective(K[0])
    BY <2>1, Zenon DEF Range, IsInjective
  <2>. QED  BY <2>1, <2>2, <2>3
<1>4. ASSUME NEW k \in Nat, k \in N
      PROVE  k + 1 \in N
  <2>. SUFFICES ASSUME k + 1 <= n PROVE P(k + 1)
    OBVIOUS
  <2>. DEFINE s == K[k]
              x == b[k + 1]
              t == K[k + 1]
  <2>1. /\ k + 1 \in 1..n /\ (k + 1) - 1 = k /\ 1..(k + 1) = 1..k \cup {k + 1} /\ 1..k \subseteq 1..n
        /\ k + 1 \notin 1..k /\ k <= k + 1
    BY <1>1
  <2>2. P(k)
    BY <1>4, <1>1
  <2>3. t = IF x \in S THEN s ELSE Append(s, x)
    BY <1>2, <2>1
  <2>4. Upto(k + 1) = Upto(k) \cup {x} /\ x \in Messages
    BY <1>1, <2>1
  <2>5. s \in Seq(Messages) /\ Len(s) <= k /\ Len(s) \in Nat /\ DOMAIN s = 1..Len(s)
    BY <2>2, LenProperties, Zenon
  <2>10. Range(s) = Upto(k) \ S
    BY <2>2, Zenon
  <2>11. IsInjective(b) => IsInjective(s)
    BY <2>2, Zenon
  <2>12. Range(b) \cap S = {} => Len(s) = k /\ \A i \in 1..k : s[i] = b[i]
    BY <2>2, Zenon
  <2>6. IsInjective(b) => x \notin Upto(k)
    BY <1>1, <2>1, Zenon DEF IsInjective
  <2>7. x \in Range(b)
    BY <1>1, <2>1, Zenon DEF Range
  <2>. HIDE DEF Upto, s, x, t
  <2>8. CASE x \in S
    <3>1. t = s
      BY <2>3, <2>8
    <3>2. Range(t) = Upto(k + 1) \ S /\ ~(Range(b) \cap S = {})
      BY <2>4, <2>7, <2>8, <2>10, <3>1, Zenon
    <3>3. Len(t) <= k + 1
      BY <2>5, <3>1
    <3>. QED  BY <2>5, <2>11, <3>1, <3>2, <3>3, Zenon DEF t
  <2>9. CASE x \notin S
    <3>1. t = Append(s, x)
      BY <2>3, <2>9
    <3>2. /\ t \in Seq(Messages) /\ Len(t) = Len(s) + 1 /\ DOMAIN t = 1..(Len(s) + 1)
          /\ \A i \in 1..Len(s) : t[i] = s[i]
          /\ t[Len(s) + 1] = x
      BY <2>4, <2>5, <3>1, AppendProperties, LenProperties
    <3>3. DOMAIN t = DOMAIN s \cup {Len(s) + 1} /\ Len(s) + 1 \notin DOMAIN s /\ Len(t) <= k + 1
      BY <2>5, <3>2
    <3>4. \A i \in DOMAIN s : t[i] = s[i]
      BY <2>5, <3>2
    <3>5. Range(t) = Range(s) \cup {x}
      <4>1. Len(s) + 1 \in DOMAIN t /\ DOMAIN s \subseteq DOMAIN t
        BY <3>3
      <4>2. \A y \in Range(t) : y \in Range(s) \/ y = x
        BY <3>2, <3>3, <3>4, Zenon DEF Range
      <4>3. x \in Range(t)
        BY <3>2, <4>1, Zenon DEF Range
      <4>4. Range(s) \subseteq Range(t)
        BY <3>4, <4>1, Zenon DEF Range
      <4>. QED  BY <4>2, <4>3, <4>4, Zenon
    <3>6. Range(t) = Upto(k + 1) \ S
      BY <2>4, <2>9, <2>10, <3>5, Zenon
    <3>7. ASSUME IsInjective(b)
          PROVE  IsInjective(t)
      <4>1. IsInjective(s) /\ x \notin Range(s)
        BY <2>6, <2>10, <2>11, <3>7, Zenon
      <4>2. \A i \in DOMAIN s : s[i] # x
        BY <4>1, Zenon DEF Range
      <4>3. \A i, j \in DOMAIN s : s[i] = s[j] => i = j
        BY <4>1, Zenon DEF IsInjective
      <4>4. \A i \in DOMAIN t : i \in DOMAIN s \/ i = Len(s) + 1
        BY <3>3
      <4>5. \A i, j \in DOMAIN t : t[i] = t[j] => i = j
        BY <3>2, <3>4, <4>2, <4>3, <4>4, Zenon
      <4>. QED  BY <4>5, Zenon DEF IsInjective
    <3>8. ASSUME Range(b) \cap S = {} 
          PROVE  Len(t) = k + 1 /\ \A i \in 1..(k + 1) : t[i] = b[i]
      <4>1. Len(s) = k /\ \A i \in 1..k : s[i] = b[i]
        BY <2>12, <3>8, Zenon
      <4>. QED  BY <2>1, <3>2, <4>1 DEF x
    <3>. QED  BY <3>2, <3>3, <3>6, <3>7, <3>8, Zenon DEF t
  <2>. QED  BY <2>8, <2>9
<1>5. n \in N
  <2>. HIDE DEF N
  <2>. QED  BY <1>1, <1>3, <1>4, Induction, Zenon
<1>6. P(n)
  BY <1>1, <1>5
<1>7. Upto(n) = Range(b)
  BY <1>1, Zenon DEF Range
<1>8. Range(b) \cap S = {} => K[n] = b
  BY <1>1, <1>6, SeqEqual DEF n
<1>. HIDE DEF Upto
<1>. QED  BY <1>2, <1>6, <1>7, <1>8, Zenon DEF n

-----------------------------------------------------------------------------
(* An index of a set S by the values of key, and what joining and leaving do to
   the entry of a key. *)
Index(S, K, key) == [n \in K |-> {t \in S : key[t] = n}]
Enter(f, k, s) == [f EXCEPT ![k] = @ \cup {s}]
Leave(f, k, s) == [f EXCEPT ![k] = @ \ {s}]

(* A memory as the engine keeps it, and as a reload builds it: the indexes agree
   with the subscriptions, the buffer keeps its limit, and nobody waits for a
   message of it. *)
Good(c) ==
  /\ c \in Memory
  /\ Len(c.buffer) <= MaxBuffer /\ IsInjective(c.buffer)
  /\ c.byName = Index(c.subs, Names, Name) /\ c.byInstance = Index(c.subs, Instances, Instance)
  /\ \A m \in Range(c.buffer), s \in c.subs : ~Matches(s, m)

LEMMA MemoryFields ==
  ASSUME NEW c \in Memory
  PROVE  /\ c = [subs |-> c.subs, byName |-> c.byName, byInstance |-> c.byInstance, buffer |-> c.buffer]
         /\ c.subs \subseteq Subs /\ c.buffer \in Seq(Messages)
         /\ c.byName \in [Names -> SUBSET Subs] /\ c.byInstance \in [Instances -> SUBSET Subs]
         /\ Range(c.buffer) \subseteq Messages
<1>1. /\ c = [subs |-> c.subs, byName |-> c.byName, byInstance |-> c.byInstance, buffer |-> c.buffer]
      /\ c.subs \subseteq Subs /\ c.buffer \in Seq(Messages)
      /\ c.byName \in [Names -> SUBSET Subs] /\ c.byInstance \in [Instances -> SUBSET Subs]
  BY DEF Memory
<1>2. \A i \in DOMAIN c.buffer : c.buffer[i] \in Messages
  BY <1>1
<1>. QED  BY <1>1, <1>2, Zenon DEF Range

LEMMA Constants ==
  ASSUME NEW s \in Subs
  PROVE  Name[s] \in Names /\ Instance[s] \in Instances /\ s \notin Messages
BY CorrelationAssumption

(* The indexes follow the subscriptions. *)
LEMMA IndexEnter ==
  ASSUME NEW K, NEW key, NEW S, NEW s, key[s] \in K
  PROVE  Enter(Index(S, K, key), key[s], s) = Index(S \cup {s}, K, key)
BY Zenon DEF Index, Enter

LEMMA IndexLeave ==
  ASSUME NEW K, NEW key, NEW S, NEW s, key[s] \in K
  PROVE  Leave(Index(S, K, key), key[s], s) = Index(S \ {s}, K, key)
BY Zenon DEF Index, Leave

LEMMA IndexTyped ==
  ASSUME NEW K, NEW key, NEW S, S \subseteq Subs
  PROVE  Index(S, K, key) \in [K -> SUBSET Subs]
BY DEF Index

(* subscribe_message *)
LEMMA AddSubGood ==
  ASSUME NEW c, Good(c), NEW s \in Subs
  PROVE  /\ Good(AddSub(c, s))
         /\ AddSub(c, s).subs = c.subs \cup {s}
         /\ AddSub(c, s).buffer = Without(c.buffer, Taken(c, s))
         /\ Range(AddSub(c, s).buffer) = Range(c.buffer) \ Taken(c, s)
<1>. DEFINE d == AddSub(c, s)
            w == Without(c.buffer, Taken(c, s))
            S == c.subs \cup {s}
<1>1. c \in Memory /\ Len(c.buffer) <= MaxBuffer /\ IsInjective(c.buffer)
  BY Zenon DEF Good
<1>2. /\ c = [subs |-> c.subs, byName |-> c.byName, byInstance |-> c.byInstance, buffer |-> c.buffer]
      /\ c.subs \subseteq Subs /\ c.buffer \in Seq(Messages)
  BY <1>1, MemoryFields, Zenon
<1>. DEFINE N == Enter(c.byName, Name[s], s)
            I == Enter(c.byInstance, Instance[s], s)
<1>3. /\ d.subs = S /\ d.byName = N /\ d.byInstance = I /\ d.buffer = w
      /\ d = [subs |-> d.subs, byName |-> d.byName, byInstance |-> d.byInstance, buffer |-> d.buffer]
  <2>1. d = [c EXCEPT !.subs = S, !.byName = N, !.byInstance = I, !.buffer = w]
    BY Zenon DEF AddSub, Enter
  <2>. HIDE DEF d, S, N, I, w
  <2>. QED  BY <1>2, <2>1, Zenon
<1>4. /\ w \in Seq(Messages) /\ Len(w) <= Len(c.buffer) /\ IsInjective(w)
      /\ Range(w) = Range(c.buffer) \ Taken(c, s)
  BY <1>1, <1>2, WithoutProperties, Zenon
<1>. HIDE DEF d, w
<1>5. d.byName = Index(S, Names, Name) /\ d.byInstance = Index(S, Instances, Instance)
  <2>1. c.byName = Index(c.subs, Names, Name) /\ c.byInstance = Index(c.subs, Instances, Instance)
    BY Zenon DEF Good
  <2>2. Name[s] \in Names /\ Instance[s] \in Instances
    BY Constants
  <2>3. d.byName = Enter(c.byName, Name[s], s)
    BY <1>3
  <2>4. d.byInstance = Enter(c.byInstance, Instance[s], s)
    BY <1>3
  <2>5. Enter(Index(c.subs, Names, Name), Name[s], s) = Index(c.subs \cup {s}, Names, Name)
    BY <2>2, IndexEnter
  <2>6. Enter(Index(c.subs, Instances, Instance), Instance[s], s) = Index(c.subs \cup {s}, Instances, Instance)
    BY <2>2, IndexEnter
  <2>. QED  BY <2>1, <2>3, <2>4, <2>5, <2>6
<1>6. S \subseteq Subs
  BY <1>2
<1>7. d \in Memory
  <2>1. d.byName \in [Names -> SUBSET Subs] /\ d.byInstance \in [Instances -> SUBSET Subs]
    BY <1>5, <1>6, IndexTyped
  <2>. QED  BY <1>3, <1>4, <1>6, <2>1 DEF Memory
<1>8. Len(w) <= MaxBuffer
  <2>1. Len(w) \in Nat /\ Len(c.buffer) \in Nat /\ MaxBuffer \in Nat
    BY <1>2, <1>4, LenProperties, CorrelationAssumption
  <2>. QED  BY <1>1, <1>4, <2>1
<1>9. \A m \in Range(w), t \in S : ~Matches(t, m)
  <2>1. \A m \in Range(c.buffer), t \in c.subs : ~Matches(t, m)
    BY Zenon DEF Good
  <2>2. \A m \in Range(w) : m \in Range(c.buffer) /\ ~Matches(s, m)
    BY <1>4, Zenon DEF Taken
  <2>. QED  BY <2>1, <2>2, Zenon
<1>10. Good(d)
  BY <1>3, <1>4, <1>5, <1>7, <1>8, <1>9, Zenon DEF Good
<1>. QED  BY <1>3, <1>4, <1>10, Zenon DEF d, w

(* unsubscribe_message *)
LEMMA DropSubGood ==
  ASSUME NEW c, Good(c), NEW s \in Subs
  PROVE  /\ Good(DropSub(c, s))
         /\ DropSub(c, s).subs = c.subs \ {s}
         /\ DropSub(c, s).buffer = c.buffer
<1>1. CASE s \notin c.subs
  <2>1. DropSub(c, s) = c /\ c.subs \ {s} = c.subs
    BY <1>1, Zenon DEF DropSub
  <2>. QED  BY <2>1, Zenon
<1>2. CASE s \in c.subs
  <2>. DEFINE d == DropSub(c, s)
              S == c.subs \ {s}
  <2>1. c \in Memory /\ Len(c.buffer) <= MaxBuffer /\ IsInjective(c.buffer)
    BY Zenon DEF Good
  <2>2. /\ c = [subs |-> c.subs, byName |-> c.byName, byInstance |-> c.byInstance, buffer |-> c.buffer]
        /\ c.subs \subseteq Subs /\ c.buffer \in Seq(Messages)
    BY <2>1, MemoryFields, Zenon
  <2>. DEFINE N == Leave(c.byName, Name[s], s)
              I == Leave(c.byInstance, Instance[s], s)
  <2>3. /\ d.subs = S /\ d.byName = N /\ d.byInstance = I /\ d.buffer = c.buffer
        /\ d = [subs |-> d.subs, byName |-> d.byName, byInstance |-> d.byInstance, buffer |-> d.buffer]
    <3>1. d = [c EXCEPT !.subs = S, !.byName = N, !.byInstance = I]
      BY <1>2, Zenon DEF DropSub, Leave
    <3>. HIDE DEF d, S, N, I
    <3>. QED  BY <2>2, <3>1, Zenon
  <2>. HIDE DEF d
  <2>5. d.byName = Index(S, Names, Name) /\ d.byInstance = Index(S, Instances, Instance)
    <3>1. c.byName = Index(c.subs, Names, Name) /\ c.byInstance = Index(c.subs, Instances, Instance)
      BY Zenon DEF Good
    <3>2. Name[s] \in Names /\ Instance[s] \in Instances
      BY Constants
    <3>3. d.byName = Leave(c.byName, Name[s], s)
      BY <2>3
    <3>4. d.byInstance = Leave(c.byInstance, Instance[s], s)
      BY <2>3
    <3>5. Leave(Index(c.subs, Names, Name), Name[s], s) = Index(c.subs \ {s}, Names, Name)
      BY <3>2, IndexLeave
    <3>6. Leave(Index(c.subs, Instances, Instance), Instance[s], s) = Index(c.subs \ {s}, Instances, Instance)
      BY <3>2, IndexLeave
    <3>. QED  BY <3>1, <3>3, <3>4, <3>5, <3>6
  <2>6. S \subseteq Subs
    BY <2>2
  <2>7. d \in Memory
    <3>1. d.byName \in [Names -> SUBSET Subs] /\ d.byInstance \in [Instances -> SUBSET Subs]
      BY <2>5, <2>6, IndexTyped
    <3>. QED  BY <2>2, <2>3, <2>6, <3>1 DEF Memory
  <2>8. \A m \in Range(c.buffer), t \in S : ~Matches(t, m)
    BY Zenon DEF Good
  <2>9. Good(d)
    BY <2>1, <2>3, <2>5, <2>7, <2>8, Zenon DEF Good
  <2>. QED  BY <2>3, <2>9, Zenon DEF d
<1>. QED  BY <1>1, <1>2, Zenon

(* A memory that gets another buffer. *)
LEMMA NewBuffer ==
  ASSUME NEW c, Good(c), NEW b \in Seq(Messages), Len(b) <= MaxBuffer, IsInjective(b),
         \A m \in Range(b), s \in c.subs : ~Matches(s, m)
  PROVE  LET d == [c EXCEPT !.buffer = b]
         IN  Good(d) /\ d.subs = c.subs /\ d.buffer = b
<1>. DEFINE d == [c EXCEPT !.buffer = b]
<1>1. c \in Memory
  BY Zenon DEF Good
<1>2. /\ c = [subs |-> c.subs, byName |-> c.byName, byInstance |-> c.byInstance, buffer |-> c.buffer]
      /\ c.subs \subseteq Subs
      /\ c.byName \in [Names -> SUBSET Subs] /\ c.byInstance \in [Instances -> SUBSET Subs]
  BY <1>1, MemoryFields, Zenon
<1>3. /\ d.subs = c.subs /\ d.buffer = b /\ d.byName = c.byName /\ d.byInstance = c.byInstance
      /\ d = [subs |-> d.subs, byName |-> d.byName, byInstance |-> d.byInstance, buffer |-> d.buffer]
  BY <1>2
<1>. HIDE DEF d
<1>4. d \in Memory
  BY <1>2, <1>3 DEF Memory
<1>5. Good(d)
  BY <1>3, <1>4, Zenon DEF Good
<1>. QED  BY <1>3, <1>5, Zenon DEF d

(* A message appended to the buffer, and the oldest one evicted. *)
LEMMA AppendNew ==
  ASSUME NEW b \in Seq(Messages), IsInjective(b), NEW m \in Messages, m \notin Range(b)
  PROVE  /\ Append(b, m) \in Seq(Messages) /\ Append(b, m) # <<>> /\ Len(Append(b, m)) = Len(b) + 1
         /\ IsInjective(Append(b, m)) /\ Range(Append(b, m)) = Range(b) \cup {m}
<1>. DEFINE t == Append(b, m)
<1>1. /\ t \in Seq(Messages) /\ t # <<>> /\ Len(b) \in Nat /\ DOMAIN b = 1..Len(b)
      /\ Len(t) = Len(b) + 1 /\ DOMAIN t = 1..(Len(b) + 1)
      /\ \A i \in 1..Len(b) : t[i] = b[i]
      /\ t[Len(b) + 1] = m
  BY AppendProperties, LenProperties
<1>. HIDE DEF t
<1>2. /\ Len(b) + 1 \in DOMAIN t /\ DOMAIN b \subseteq DOMAIN t
      /\ \A i \in DOMAIN t : i \in DOMAIN b \/ i = Len(b) + 1
  BY <1>1
<1>3. \A i \in DOMAIN b : t[i] = b[i] /\ b[i] # m
  BY <1>1, Zenon DEF Range
<1>4. IsInjective(t)
  BY <1>1, <1>2, <1>3, Zenon DEF IsInjective
<1>5. Range(t) \subseteq Range(b) \cup {m}
  BY <1>1, <1>2, <1>3, Zenon DEF Range
<1>6. Range(b) \subseteq Range(t) /\ m \in Range(t)
  BY <1>1, <1>2, <1>3, Zenon DEF Range
<1>. QED  BY <1>1, <1>4, <1>5, <1>6, Zenon DEF t

LEMMA TailOfBuffer ==
  ASSUME NEW b \in Seq(Messages), IsInjective(b), b # <<>>
  PROVE  /\ Tail(b) \in Seq(Messages) /\ Len(Tail(b)) = Len(b) - 1 /\ IsInjective(Tail(b))
         /\ Range(Tail(b)) \cup {Head(b)} = Range(b)
<1>. DEFINE t == Tail(b)
<1>1. /\ t \in Seq(Messages) /\ Len(t) = Len(b) - 1 /\ Head(b) = b[1]
      /\ \A i \in 1..Len(t) : t[i] = b[i + 1]
  BY HeadTailProperties
<1>2. Len(b) \in Nat /\ Len(b) # 0 /\ DOMAIN b = 1..Len(b) /\ DOMAIN t = 1..Len(t)
  BY <1>1, LenProperties
<1>. HIDE DEF t
<1>3. \A i \in DOMAIN t : i + 1 \in DOMAIN b /\ t[i] = b[i + 1]
  BY <1>1, <1>2
<1>4. \A i \in DOMAIN b : i # 1 => \E j \in DOMAIN t : t[j] = b[i]
  <2>. SUFFICES ASSUME NEW i \in DOMAIN b, i # 1 PROVE i - 1 \in DOMAIN t /\ t[i - 1] = b[i]
    OBVIOUS
  <2>1. i - 1 \in 1..Len(t) /\ (i - 1) + 1 = i
    BY <1>1, <1>2
  <2>2. t[i - 1] = b[(i - 1) + 1]
    BY <1>1, <2>1, Zenon
  <2>. QED  BY <1>2, <2>1, <2>2
<1>5. 1 \in DOMAIN b /\ \A i, j \in DOMAIN t : i + 1 = j + 1 => i = j
  BY <1>2
<1>6. IsInjective(t)
  <2>1. \A i, j \in DOMAIN b : b[i] = b[j] => i = j
    BY Zenon DEF IsInjective
  <2>2. \A i, j \in DOMAIN t : t[i] = t[j] => i = j
    BY <1>3, <1>5, <2>1
  <2>. QED  BY <2>2, Zenon DEF IsInjective
<1>7. \A x \in Range(t) : x \in Range(b)
  <2>. SUFFICES ASSUME NEW i \in DOMAIN t PROVE t[i] \in Range(b)
    BY Zenon DEF Range
  <2>. QED  BY <1>3 DEF Range
<1>8. Head(b) \in Range(b)
  BY <1>1, <1>5, Zenon DEF Range
<1>9. \A x \in Range(b) : x \in Range(t) \/ x = Head(b)
  <2>. SUFFICES ASSUME NEW i \in DOMAIN b PROVE b[i] \in Range(t) \/ b[i] = Head(b)
    BY Zenon DEF Range
  <2>1. Head(b) = b[1]
    BY <1>1
  <2>. QED  BY <1>4, <2>1, Zenon DEF Range
<1>. QED  BY <1>1, <1>6, <1>7, <1>8, <1>9, Zenon DEF t

(* _buffer_message *)
LEMMA AddMessageGood ==
  ASSUME NEW c, Good(c), NEW m \in Messages, m \notin Range(c.buffer), \A s \in c.subs : ~Matches(s, m)
  PROVE  /\ Good(AddMessage(c, m))
         /\ AddMessage(c, m).subs = c.subs
         /\ Range(AddMessage(c, m).buffer) \cup Evicted(c, m) = Range(c.buffer) \cup {m}
<1>. DEFINE b == Append(c.buffer, m)
            t == IF Full(c) THEN Tail(b) ELSE b
<1>1. c \in Memory /\ c.buffer \in Seq(Messages) /\ Len(c.buffer) <= MaxBuffer /\ IsInjective(c.buffer)
  BY MemoryFields, Zenon DEF Good
<1>2. /\ b \in Seq(Messages) /\ b # <<>> /\ Len(b) = Len(c.buffer) + 1
      /\ IsInjective(b) /\ Range(b) = Range(c.buffer) \cup {m}
  BY <1>1, AppendNew, Zenon
<1>3. Len(c.buffer) \in Nat /\ MaxBuffer \in Nat
  BY <1>1, LenProperties, CorrelationAssumption
<1>4. /\ AddMessage(c, m) = [c EXCEPT !.buffer = t]
      /\ Evicted(c, m) = IF Full(c) THEN {Head(b)} ELSE {}
  BY Zenon DEF AddMessage, Evicted
<1>. HIDE DEF b
<1>5. /\ t \in Seq(Messages) /\ Len(t) <= MaxBuffer /\ IsInjective(t)
      /\ Range(t) \cup Evicted(c, m) = Range(b)
  <2>1. CASE Full(c)
    <3>1. /\ Tail(b) \in Seq(Messages) /\ Len(Tail(b)) = Len(b) - 1 /\ IsInjective(Tail(b))
          /\ Range(Tail(b)) \cup {Head(b)} = Range(b)
      BY <1>2, TailOfBuffer, Zenon
    <3>2. t = Tail(b) /\ Evicted(c, m) = {Head(b)}
      BY <1>4, <2>1, Zenon
    <3>3. Len(Tail(b)) <= MaxBuffer
      BY <1>1, <1>2, <1>3, <3>1
    <3>. QED  BY <3>1, <3>2, <3>3, Zenon
  <2>2. CASE ~Full(c)
    <3>1. t = b /\ Evicted(c, m) = {}
      BY <1>4, <2>2, Zenon
    <3>2. Len(b) <= MaxBuffer
      BY <1>2, <1>3, <2>2 DEF Full
    <3>. QED  BY <1>2, <3>1, <3>2, Zenon
  <2>. QED  BY <2>1, <2>2, Zenon
<1>. HIDE DEF t
<1>6. \A x \in Range(t), s \in c.subs : ~Matches(s, x)
  <2>1. \A x \in Range(c.buffer), s \in c.subs : ~Matches(s, x)
    BY Zenon DEF Good
  <2>. QED  BY <1>2, <1>5, <2>1, Zenon
<1>7. Good([c EXCEPT !.buffer = t]) /\ [c EXCEPT !.buffer = t].subs = c.subs /\ [c EXCEPT !.buffer = t].buffer = t
  BY <1>5, <1>6, NewBuffer, Zenon
<1>. QED  BY <1>2, <1>4, <1>5, <1>7, Zenon

(* Messages that leave a buffer, and a message that has left it already. *)
LEMMA WithoutGood ==
  ASSUME NEW c, Good(c), NEW S
  PROVE  LET d == [c EXCEPT !.buffer = Without(@, S)]
         IN  /\ Good(d) /\ d.subs = c.subs
             /\ Range(d.buffer) = Range(c.buffer) \ S
             /\ Range(c.buffer) \cap S = {} => d = c
<1>. DEFINE w == Without(c.buffer, S)
<1>1. /\ c \in Memory /\ c.buffer \in Seq(Messages) /\ Len(c.buffer) <= MaxBuffer /\ IsInjective(c.buffer)
      /\ c = [subs |-> c.subs, byName |-> c.byName, byInstance |-> c.byInstance, buffer |-> c.buffer]
  BY MemoryFields, Zenon DEF Good
<1>2. /\ w \in Seq(Messages) /\ Len(w) <= Len(c.buffer) /\ IsInjective(w)
      /\ Range(w) = Range(c.buffer) \ S /\ (Range(c.buffer) \cap S = {} => w = c.buffer)
  BY <1>1, WithoutProperties, Zenon
<1>. HIDE DEF w
<1>3. Len(w) <= MaxBuffer
  <2>1. Len(w) \in Nat /\ Len(c.buffer) \in Nat /\ MaxBuffer \in Nat
    BY <1>1, <1>2, LenProperties, CorrelationAssumption
  <2>. QED  BY <1>1, <1>2, <2>1
<1>4. \A m \in Range(w), s \in c.subs : ~Matches(s, m)
  BY <1>2, Zenon DEF Good
<1>5. Good([c EXCEPT !.buffer = w]) /\ [c EXCEPT !.buffer = w].subs = c.subs /\ [c EXCEPT !.buffer = w].buffer = w
  BY <1>2, <1>3, <1>4, NewBuffer, Zenon
<1>6. [c EXCEPT !.buffer = c.buffer] = c
  BY <1>1
<1>. QED  BY <1>2, <1>5, <1>6, Zenon DEF w

-----------------------------------------------------------------------------
(* The inductive invariant.  End is what a reload at this moment would end in. *)
End == Replay(rows)

SubscribedRow(s) == [action |-> "subscribed", id |-> s]
UnsubscribedRow(s) == [action |-> "unsubscribed", id |-> s]
BufferedRow(m) == [action |-> "buffered", id |-> m]
RemovedRow(m) == [action |-> "removed", id |-> m]

(* m has a "buffered" row, s a "subscribed" one; m is in the buffer, or would be
   after a reload; s has consumed m, is about to, or would after a reload. *)
Buffered(m) == BufferedRow(m) \in Range(rows)
Subscribed(s) == SubscribedRow(s) \in Range(rows)
InMem(m) == m \in Range(mem.buffer)
InEnd(m) == m \in Range(End.mem.buffer)
Consumes(s, m) == <<s, m>> \in tasks \cup notified \cup End.tasks

Types ==
  /\ rows \in Seq(Row)
  /\ tasks \subseteq Subs \X Messages /\ forget \subseteq Messages
  /\ stage \in [Messages -> {"new", "notifying", "sent"}]
  /\ todo \in [Messages -> SUBSET Subs]
  /\ cleaning \in [Instances -> SUBSET Subs]
  /\ reloads \in 0..MaxReloads
  /\ notified \subseteq Subs \X Messages
  /\ gone \subseteq Messages /\ expired \in BOOLEAN /\ doomed \subseteq Subs
  /\ Good(mem)

(* A reload would keep the subscriptions and, unless a message has expired, the
   buffer. *)
EndInv ==
  /\ End = [mem |-> End.mem, tasks |-> End.tasks, gone |-> End.gone]
  /\ Good(End.mem) /\ End.tasks \subseteq Subs \X Messages /\ End.gone \subseteq Messages
  /\ End.mem.subs = mem.subs
  /\ ~expired => End.mem.buffer = mem.buffer

(* A buffered message was sent; it is in a buffer, gone or consumed, in the
   present and after a reload; its consumer is one subscription, and none is left
   for it in either buffer.  A row that a task will append is that of a consumed
   message. *)
MessageInv(m) ==
  /\ Buffered(m) => stage[m] = "sent"
  /\ InMem(m) \/ InEnd(m) => Buffered(m)
  /\ m \in forget => Buffered(m) /\ \E s \in Subs : Consumes(s, m)
  /\ \A s \in Subs :
       /\ Consumes(s, m) => stage[m] # "new"
       /\ <<s, m>> \in End.tasks => Buffered(m)
       /\ Consumes(s, m) /\ Buffered(m) => ~InMem(m) /\ ~InEnd(m) /\ \A t \in Subs : Consumes(t, m) => s = t
  /\ stage[m] # "new" => Buffered(m) \/ \E s \in Subs : <<s, m>> \in notified
  /\ Buffered(m) =>
       /\ InMem(m) \/ m \in gone \/ \E s \in Subs : <<s, m>> \in tasks \cup notified
       /\ InEnd(m) \/ m \in End.gone \/ \E s \in Subs : <<s, m>> \in End.tasks

(* A subscription that exists, is being cleaned up or was, has had its row, so
   subscribe_message never adds it again. *)
SubsInv ==
  /\ \A s \in mem.subs \cup doomed : Subscribed(s)
  /\ \A i \in Instances : \A s \in cleaning[i] : Subscribed(s)
  /\ doomed \cap mem.subs = {}

IInv == Types /\ EndInv /\ (\A m \in Messages : MessageInv(m)) /\ SubsInv

-----------------------------------------------------------------------------
(* The rows. *)

LEMMA RowsDiffer ==
  /\ \A s \in Subs : SubscribedRow(s) \in Row /\ UnsubscribedRow(s) \in Row
  /\ \A m \in Messages : BufferedRow(m) \in Row /\ RemovedRow(m) \in Row
  /\ \A s, t : /\ SubscribedRow(s) # UnsubscribedRow(t) /\ SubscribedRow(s) # BufferedRow(t)
               /\ SubscribedRow(s) # RemovedRow(t) /\ BufferedRow(s) # UnsubscribedRow(t)
               /\ BufferedRow(s) # RemovedRow(t)
               /\ BufferedRow(s) = BufferedRow(t) => s = t
BY DEF SubscribedRow, UnsubscribedRow, BufferedRow, RemovedRow, Row

(* A step that appends a row, and one that does not. *)
LEMMA RowAdded ==
  ASSUME rows \in Seq(Row), NEW r \in Row, rows' = Append(rows, r)
  PROVE  /\ rows' \in Seq(Row) /\ Range(rows') = Range(rows) \cup {r}
         /\ End' = Replayed(End, r)
<1>. DEFINE t == Append(rows, r)
<1>1. /\ t \in Seq(Row) /\ Len(rows) \in Nat /\ DOMAIN rows = 1..Len(rows)
      /\ DOMAIN t = 1..(Len(rows) + 1)
      /\ \A i \in 1..Len(rows) : t[i] = rows[i]
      /\ t[Len(rows) + 1] = r
  BY AppendProperties, LenProperties
<1>2. End' = Replay(t) /\ Replay(t) = Replayed(End, r)
  BY ReplayAppend, Zenon DEF End
<1>. HIDE DEF t
<1>3. /\ Len(rows) + 1 \in DOMAIN t /\ DOMAIN rows \subseteq DOMAIN t
      /\ \A i \in DOMAIN t : i \in DOMAIN rows \/ i = Len(rows) + 1
  BY <1>1
<1>4. \A i \in DOMAIN rows : t[i] = rows[i]
  BY <1>1
<1>5. Range(t) \subseteq Range(rows) \cup {r}
  BY <1>1, <1>3, <1>4, Zenon DEF Range
<1>6. Range(rows) \subseteq Range(t) /\ r \in Range(t)
  BY <1>1, <1>3, <1>4, Zenon DEF Range
<1>. QED  BY <1>1, <1>2, <1>5, <1>6, Zenon DEF t

LEMMA RowsKept ==
  ASSUME UNCHANGED rows
  PROVE  End' = End /\ Range(rows') = Range(rows)
BY Zenon DEF End

(* What each kind of row does to a replay. *)
LEMMA ReplayedRow ==
  ASSUME NEW a, a = [mem |-> a.mem, tasks |-> a.tasks, gone |-> a.gone], NEW x
  PROVE  /\ Replayed(a, SubscribedRow(x)) =
              [mem |-> AddSub(a.mem, x), tasks |-> a.tasks \cup ({x} \X Taken(a.mem, x)), gone |-> a.gone]
         /\ Replayed(a, UnsubscribedRow(x)) = [mem |-> DropSub(a.mem, x), tasks |-> a.tasks, gone |-> a.gone]
         /\ Replayed(a, BufferedRow(x)) =
              [mem |-> AddMessage(a.mem, x), tasks |-> a.tasks, gone |-> a.gone \cup Evicted(a.mem, x)]
         /\ Replayed(a, RemovedRow(x)) = [mem |-> DropMessage(a.mem, x), tasks |-> a.tasks, gone |-> a.gone]
<1>1. /\ SubscribedRow(x).action = "subscribed" /\ SubscribedRow(x).id = x
      /\ UnsubscribedRow(x).action = "unsubscribed" /\ UnsubscribedRow(x).id = x
      /\ BufferedRow(x).action = "buffered" /\ BufferedRow(x).id = x
      /\ RemovedRow(x).action = "removed" /\ RemovedRow(x).id = x
  BY DEF SubscribedRow, UnsubscribedRow, BufferedRow, RemovedRow
<1>2. Replayed(a, SubscribedRow(x)) = [a EXCEPT !.mem = AddSub(@, x), !.tasks = @ \cup ({x} \X Taken(a.mem, x))]
  BY <1>1 DEF Replayed
<1>3. Replayed(a, UnsubscribedRow(x)) = [a EXCEPT !.mem = DropSub(@, x)]
  BY <1>1 DEF Replayed
<1>4. Replayed(a, BufferedRow(x)) = [a EXCEPT !.mem = AddMessage(@, x), !.gone = @ \cup Evicted(a.mem, x)]
  BY <1>1 DEF Replayed
<1>5. Replayed(a, RemovedRow(x)) = [a EXCEPT !.mem = DropMessage(@, x)]
  BY <1>1 DEF Replayed
<1>. QED  BY <1>2, <1>3, <1>4, <1>5, Zenon

-----------------------------------------------------------------------------
(* One lemma for each action. *)

LEMMA MatchIndexed ==
  ASSUME NEW c, Good(c), NEW m \in Messages
  PROVE  /\ FindMatches(c, m) = {s \in c.subs : Matches(s, m)}
         /\ FindMatches(c, m) \subseteq Subs
<1>1. c.byName = Index(c.subs, Names, Name) /\ c.subs \subseteq Subs /\ Name[m] \in Names
  BY MemoryFields, CorrelationAssumption DEF Good
<1>2. c.byName[Name[m]] = {s \in c.subs : Name[s] = Name[m]}
  BY <1>1 DEF Index
<1>. QED  BY <1>1, <1>2, Zenon DEF FindMatches, Matches

LEMMA SubscribeInv ==
  ASSUME IInv, NEW s \in Subs, Subscribe(s)
  PROVE  IInv'
<1>. DEFINE tm == Taken(mem, s)
            te == Taken(End.mem, s)
<1>1. /\ \A k \in DOMAIN rows : rows[k] # SubscribedRow(s)
      /\ mem' = AddSub(mem, s)
      /\ tasks' = tasks \cup ({s} \X tm) /\ forget' = forget \cup tm
      /\ rows' = Append(rows, SubscribedRow(s))
      /\ UNCHANGED <<stage, todo, cleaning, reloads, notified, gone, expired, doomed>>
  BY Zenon DEF Subscribe, SubscribedRow
<1>2. Types /\ EndInv /\ SubsInv /\ \A m \in Messages : MessageInv(m)
  BY Zenon DEF IInv
<1>3. Good(mem) /\ Good(End.mem) /\ rows \in Seq(Row) /\ SubscribedRow(s) \in Row
  BY <1>2, RowsDiffer, Zenon DEF Types, EndInv
<1>4. /\ rows' \in Seq(Row) /\ Range(rows') = Range(rows) \cup {SubscribedRow(s)}
      /\ End' = Replayed(End, SubscribedRow(s))
  BY <1>1, <1>3, RowAdded, Zenon
<1>5. /\ End'.mem = AddSub(End.mem, s) /\ End'.tasks = End.tasks \cup ({s} \X te) /\ End'.gone = End.gone
      /\ End' = [mem |-> End'.mem, tasks |-> End'.tasks, gone |-> End'.gone]
  <2>1. End = [mem |-> End.mem, tasks |-> End.tasks, gone |-> End.gone]
    BY <1>2 DEF EndInv
  <2>2. End' = [mem |-> AddSub(End.mem, s), tasks |-> End.tasks \cup ({s} \X te), gone |-> End.gone]
    BY <1>4, <2>1, ReplayedRow, Zenon
  <2>. QED  BY <2>2
<1>6. /\ Good(mem') /\ mem'.subs = mem.subs \cup {s}
      /\ mem'.buffer = Without(mem.buffer, tm) /\ Range(mem'.buffer) = Range(mem.buffer) \ tm
  BY <1>1, <1>3, AddSubGood, Zenon
<1>7. /\ Good(End'.mem) /\ End'.mem.subs = End.mem.subs \cup {s}
      /\ End'.mem.buffer = Without(End.mem.buffer, te) /\ Range(End'.mem.buffer) = Range(End.mem.buffer) \ te
  <2>1. /\ Good(AddSub(End.mem, s)) /\ AddSub(End.mem, s).subs = End.mem.subs \cup {s}
        /\ AddSub(End.mem, s).buffer = Without(End.mem.buffer, te)
        /\ Range(AddSub(End.mem, s).buffer) = Range(End.mem.buffer) \ te
    BY <1>3, AddSubGood, Zenon
  <2>2. End'.mem = AddSub(End.mem, s)
    BY <1>5
  <2>. QED  BY <2>1, <2>2
<1>8. tm \subseteq Messages /\ te \subseteq Messages
  BY <1>3, MemoryFields, Zenon DEF Taken, Good
<1>9. Types'
  <2>1. tasks' \subseteq Subs \X Messages /\ forget' \subseteq Messages
    BY <1>1, <1>2, <1>8 DEF Types
  <2>. QED  BY <1>1, <1>2, <1>4, <1>6, <2>1, Zenon DEF Types
<1>10. EndInv'
  <2>1. End'.tasks \subseteq Subs \X Messages /\ End'.gone \subseteq Messages
    BY <1>2, <1>5, <1>8 DEF EndInv
  <2>2. End'.mem.subs = mem'.subs
    BY <1>2, <1>6, <1>7, Zenon DEF EndInv
  <2>3. ASSUME ~expired' PROVE End'.mem.buffer = mem'.buffer
    <3>1. End.mem.buffer = mem.buffer
      BY <1>1, <1>2, <2>3, Zenon DEF EndInv
    <3>2. te = tm
      BY <3>1, Zenon DEF Taken
    <3>. QED  BY <1>6, <1>7, <3>1, <3>2, Zenon
  <2>. QED  BY <1>5, <1>7, <2>1, <2>2, <2>3, Zenon DEF EndInv
<1>11. ASSUME NEW m \in Messages
       PROVE  MessageInv(m)'
  <2>1. MessageInv(m)
    BY <1>2
  <2>2. (m \in tm <=> InMem(m) /\ Matches(s, m)) /\ (m \in te <=> InEnd(m) /\ Matches(s, m))
    BY Zenon DEF Taken, InMem, InEnd
  <2>3. /\ Buffered(m)' <=> Buffered(m)
        /\ InMem(m)' <=> InMem(m) /\ ~Matches(s, m)
        /\ InEnd(m)' <=> InEnd(m) /\ ~Matches(s, m)
    <3>1. BufferedRow(m) # SubscribedRow(s)
      BY RowsDiffer, Zenon
    <3>. QED  BY <1>4, <1>6, <1>7, <2>2, <3>1, Zenon DEF Buffered, InMem, InEnd
  <2>. DEFINE new == Matches(s, m) /\ (InMem(m) \/ InEnd(m))
  <2>4. \A t \in Subs :
          /\ <<t, m>> \in tasks' <=> <<t, m>> \in tasks \/ (t = s /\ m \in tm)
          /\ <<t, m>> \in End'.tasks <=> <<t, m>> \in End.tasks \/ (t = s /\ m \in te)
    BY <1>1, <1>5
  <2>5. \A t \in Subs : Consumes(t, m)' <=> Consumes(t, m) \/ (t = s /\ new)
    BY <1>1, <2>2, <2>4, Zenon DEF Consumes
  <2>7. stage' = stage /\ notified' = notified /\ gone' = gone /\ End'.gone = End.gone
    BY <1>1, <1>5
  <2>8. m \in forget' <=> m \in forget \/ m \in tm
    BY <1>1, Zenon
  <2>. QED  BY <2>1, <2>2, <2>3, <2>4, <2>5, <2>7, <2>8, Zenon DEF MessageInv
<1>12. SubsInv'
  <2>1. ~Subscribed(s)
    BY <1>1, Zenon DEF Subscribed, Range
  <2>2. \A t : Subscribed(t) => Subscribed(t)'
    BY <1>4, Zenon DEF Subscribed
  <2>3. Subscribed(s)'
    BY <1>4, Zenon DEF Subscribed
  <2>. QED  BY <1>1, <1>2, <1>6, <2>1, <2>2, <2>3, Zenon DEF SubsInv
<1>. QED  BY <1>9, <1>10, <1>11, <1>12, Zenon DEF IInv

(* The steps that only remove a subscription. *)
LEMMA DroppedInv ==
  ASSUME IInv, NEW s \in Subs, Dropped(s),
         UNCHANGED <<tasks, forget, stage, todo, reloads, notified, gone, expired>>
  PROVE  /\ rows' \in Seq(Row) /\ Good(mem') /\ EndInv'
         /\ \A m \in Messages : MessageInv(m)'
         /\ mem'.subs = mem.subs \ {s}
         /\ \A t \in Subs : Subscribed(t) => Subscribed(t)'
<1>. DEFINE r == UnsubscribedRow(s)
<1>1. /\ mem' = DropSub(mem, s)
      /\ rows' = IF s \in mem.subs THEN Append(rows, r) ELSE rows
  BY Zenon DEF Dropped, UnsubscribedRow
<1>2. Types /\ EndInv /\ \A m \in Messages : MessageInv(m)
  BY Zenon DEF IInv
<1>3. Good(mem) /\ Good(End.mem) /\ rows \in Seq(Row) /\ r \in Row /\ End.mem.subs = mem.subs
  BY <1>2, RowsDiffer, Zenon DEF Types, EndInv
<1>4. Good(mem') /\ mem'.subs = mem.subs \ {s} /\ mem'.buffer = mem.buffer
  BY <1>1, <1>3, DropSubGood, Zenon
<1>5. End = [mem |-> End.mem, tasks |-> End.tasks, gone |-> End.gone]
  BY <1>2 DEF EndInv
<1>6. /\ rows' \in Seq(Row) /\ Range(rows) \subseteq Range(rows') /\ Range(rows') \subseteq Range(rows) \cup {r}
      /\ End' = [mem |-> DropSub(End.mem, s), tasks |-> End.tasks, gone |-> End.gone]
  <2>1. CASE s \in mem.subs
    <3>1. rows' = Append(rows, r)
      BY <1>1, <2>1, Zenon
    <3>2. rows' \in Seq(Row) /\ Range(rows') = Range(rows) \cup {r} /\ End' = Replayed(End, r)
      BY <1>3, <3>1, RowAdded, Zenon
    <3>3. Replayed(End, r) = [mem |-> DropSub(End.mem, s), tasks |-> End.tasks, gone |-> End.gone]
      BY <1>5, ReplayedRow, Zenon
    <3>. QED  BY <3>2, <3>3, Zenon
  <2>2. CASE s \notin mem.subs
    <3>1. UNCHANGED rows
      BY <1>1, <2>2, Zenon
    <3>2. End' = End /\ Range(rows') = Range(rows)
      BY <3>1, RowsKept, Zenon
    <3>3. DropSub(End.mem, s) = End.mem
      BY <1>3, <2>2, Zenon DEF DropSub
    <3>4. End' = [mem |-> DropSub(End.mem, s), tasks |-> End.tasks, gone |-> End.gone]
      BY <1>5, <3>2, <3>3
    <3>. QED  BY <1>3, <3>1, <3>2, <3>4, Zenon
  <2>. QED  BY <2>1, <2>2, Zenon
<1>7. End'.mem = DropSub(End.mem, s) /\ End'.tasks = End.tasks /\ End'.gone = End.gone
  BY <1>6
<1>8. Good(End'.mem) /\ End'.mem.subs = End.mem.subs \ {s} /\ End'.mem.buffer = End.mem.buffer
  <2>1. /\ Good(DropSub(End.mem, s)) /\ DropSub(End.mem, s).subs = End.mem.subs \ {s}
        /\ DropSub(End.mem, s).buffer = End.mem.buffer
    BY <1>3, DropSubGood, Zenon
  <2>. QED  BY <1>7, <2>1
<1>9. EndInv'
  <2>1. End' = [mem |-> End'.mem, tasks |-> End'.tasks, gone |-> End'.gone]
    BY <1>6
  <2>2. End.tasks \subseteq Subs \X Messages /\ End.gone \subseteq Messages
        /\ (~expired => End.mem.buffer = mem.buffer)
    BY <1>2, Zenon DEF EndInv
  <2>3. gone' = gone
    OBVIOUS
  <2>4. ~expired' => End'.mem.buffer = mem'.buffer
    BY <1>4, <1>8, <2>2, <2>3, Zenon
  <2>5. End'.tasks \subseteq Subs \X Messages /\ End'.gone \subseteq Messages
    BY <1>7, <2>2
  <2>6. End'.mem.subs = mem'.subs
    BY <1>3, <1>4, <1>8
  <2>. QED  BY <1>8, <2>1, <2>4, <2>5, <2>6, Zenon DEF EndInv
<1>10. ASSUME NEW m \in Messages
       PROVE  MessageInv(m)'
  <2>1. MessageInv(m)
    BY <1>2
  <2>2. BufferedRow(m) # r
    BY RowsDiffer, Zenon
  <2>3. (Buffered(m)' <=> Buffered(m)) /\ (InMem(m)' <=> InMem(m)) /\ (InEnd(m)' <=> InEnd(m))
    BY <1>4, <1>6, <1>8, <2>2, Zenon DEF Buffered, InMem, InEnd
  <2>4. \A t \in Subs : Consumes(t, m)' <=> Consumes(t, m)
    BY <1>7, Zenon DEF Consumes
  <2>. QED  BY <1>7, <2>1, <2>3, <2>4, Zenon DEF MessageInv
<1>11. \A t \in Subs : Subscribed(t) => Subscribed(t)'
  BY <1>6, Zenon DEF Subscribed
<1>. QED  BY <1>4, <1>6, <1>9, <1>10, <1>11, Zenon

LEMMA SubsTyped ==
  ASSUME IInv
  PROVE  mem.subs \subseteq Subs /\ doomed \subseteq Subs /\ \A i \in Instances : cleaning[i] \subseteq Subs
<1>1. Good(mem) /\ cleaning \in [Instances -> SUBSET Subs] /\ doomed \subseteq Subs
  BY Zenon DEF IInv, Types
<1>2. mem.subs \subseteq Subs
  BY <1>1, MemoryFields, Zenon DEF Good
<1>. QED  BY <1>1, <1>2

LEMMA UnsubscribeInv ==
  ASSUME IInv, NEW s \in Subs, Unsubscribe(s)
  PROVE  IInv'
<1>1. Dropped(s) /\ UNCHANGED <<tasks, forget, stage, todo, cleaning, reloads, notified, gone, expired, doomed>>
  BY Zenon DEF Unsubscribe
<1>2. UNCHANGED <<tasks, forget, stage, todo, reloads, notified, gone, expired>>
  BY <1>1, Zenon
<1>3. /\ rows' \in Seq(Row) /\ Good(mem') /\ EndInv'
      /\ \A m \in Messages : MessageInv(m)'
      /\ mem'.subs = mem.subs \ {s}
      /\ \A t \in Subs : Subscribed(t) => Subscribed(t)'
  BY <1>1, <1>2, DroppedInv, Zenon
<1>4. Types'
  BY <1>1, <1>3, Zenon DEF IInv, Types
<1>5. SubsInv'
  BY <1>1, <1>3, SubsTyped, Zenon DEF IInv, SubsInv
<1>. QED  BY <1>3, <1>4, <1>5, Zenon DEF IInv

LEMMA CleanUpNextInv ==
  ASSUME IInv, NEW i \in Instances, CleanUpNext(i)
  PROVE  IInv'
<1>1. PICK s \in cleaning[i] :
        /\ Dropped(s) /\ cleaning' = [cleaning EXCEPT ![i] = @ \ {s}]
        /\ doomed' = doomed \cup {s}
        /\ UNCHANGED <<tasks, forget, stage, todo, reloads, notified, gone, expired>>
  BY Zenon DEF CleanUpNext
<1>2. /\ mem.subs \subseteq Subs /\ doomed \subseteq Subs /\ s \in Subs
      /\ \A j \in Instances : cleaning[j] \subseteq Subs
  BY SubsTyped, Zenon
<1>3. /\ rows' \in Seq(Row) /\ Good(mem') /\ EndInv'
      /\ \A m \in Messages : MessageInv(m)'
      /\ mem'.subs = mem.subs \ {s}
      /\ \A t \in Subs : Subscribed(t) => Subscribed(t)'
  BY <1>1, <1>2, DroppedInv, Zenon
<1>4. cleaning' \in [Instances -> SUBSET Subs] /\ \A j \in Instances : cleaning'[j] \subseteq cleaning[j]
  <2>1. cleaning \in [Instances -> SUBSET Subs]
    BY Zenon DEF IInv, Types
  <2>. QED  BY <1>1, <2>1
<1>5. Types'
  <2>1. doomed' \subseteq Subs
    BY <1>1, <1>2, Zenon
  <2>. QED  BY <1>1, <1>3, <1>4, <2>1, Zenon DEF IInv, Types
<1>6. SubsInv'
  <2>1. /\ \A t \in mem.subs \cup doomed : Subscribed(t)
        /\ \A j \in Instances : \A t \in cleaning[j] : Subscribed(t)
        /\ doomed \cap mem.subs = {}
    BY Zenon DEF IInv, SubsInv
  <2>2. \A t \in mem'.subs \cup doomed' : Subscribed(t)'
    BY <1>1, <1>2, <1>3, <2>1, Zenon
  <2>3. \A j \in Instances : \A t \in cleaning'[j] : Subscribed(t)'
    BY <1>2, <1>3, <1>4, <2>1, Zenon
  <2>4. doomed' \cap mem'.subs = {}
    BY <1>1, <1>3, <2>1, Zenon
  <2>. QED  BY <2>2, <2>3, <2>4, Zenon DEF SubsInv
<1>. QED  BY <1>3, <1>5, <1>6, Zenon DEF IInv

(* Steps that leave the memory and the rows alone. *)
LEMMA SameMemory ==
  ASSUME IInv, UNCHANGED <<mem, rows, gone, expired, doomed, reloads>>
  PROVE  /\ EndInv' /\ End' = End /\ Good(mem')
         /\ \A m \in Messages : /\ Buffered(m)' <=> Buffered(m)
                                /\ InMem(m)' <=> InMem(m)
                                /\ InEnd(m)' <=> InEnd(m)
         /\ \A s \in Subs : Subscribed(s)' <=> Subscribed(s)
<1>1. End' = End /\ Range(rows') = Range(rows)
  BY RowsKept, Zenon
<1>2. EndInv'
  BY <1>1, Zenon DEF IInv, EndInv
<1>3. \A m \in Messages : /\ Buffered(m)' <=> Buffered(m)
                          /\ InMem(m)' <=> InMem(m)
                          /\ InEnd(m)' <=> InEnd(m)
  BY <1>1, Zenon DEF Buffered, InMem, InEnd
<1>4. \A s \in Subs : Subscribed(s)' <=> Subscribed(s)
  BY <1>1, Zenon DEF Subscribed
<1>5. Good(mem')
  BY Zenon DEF IInv, Types
<1>. QED  BY <1>1, <1>2, <1>3, <1>4, <1>5, Zenon

LEMMA CleanUpInv ==
  ASSUME IInv, NEW i \in Instances, CleanUp(i)
  PROVE  IInv'
<1>1. /\ cleaning' = [cleaning EXCEPT ![i] = mem.byInstance[i]]
      /\ UNCHANGED <<mem, rows, tasks, forget, stage, todo, reloads, notified, gone, expired, doomed>>
  BY Zenon DEF CleanUp
<1>2. UNCHANGED <<mem, rows, gone, expired, doomed, reloads>>
  BY <1>1, Zenon
<1>3. /\ EndInv' /\ End' = End /\ Good(mem')
      /\ \A m \in Messages : /\ Buffered(m)' <=> Buffered(m)
                             /\ InMem(m)' <=> InMem(m)
                             /\ InEnd(m)' <=> InEnd(m)
      /\ \A s \in Subs : Subscribed(s)' <=> Subscribed(s)
  BY <1>2, SameMemory, Zenon
<1>4. mem.byInstance[i] \subseteq mem.subs
  <2>1. mem.byInstance = Index(mem.subs, Instances, Instance)
    BY Zenon DEF IInv, Types, Good
  <2>. QED  BY <2>1 DEF Index
<1>5. mem.subs \subseteq Subs /\ doomed \subseteq Subs /\ \A j \in Instances : cleaning[j] \subseteq Subs
  BY SubsTyped, Zenon
<1>6. /\ cleaning' \in [Instances -> SUBSET Subs]
      /\ \A j \in Instances : cleaning'[j] = IF j = i THEN mem.byInstance[i] ELSE cleaning[j]
  <2>1. cleaning \in [Instances -> SUBSET Subs] /\ mem.byInstance[i] \subseteq Subs
    BY <1>4, <1>5, Zenon DEF IInv, Types
  <2>. QED  BY <1>1, <2>1
<1>7. Types'
  BY <1>1, <1>6, Zenon DEF IInv, Types
<1>8. SubsInv'
  <2>1. /\ \A t \in mem.subs \cup doomed : Subscribed(t)
        /\ \A j \in Instances : \A t \in cleaning[j] : Subscribed(t)
        /\ doomed \cap mem.subs = {}
    BY Zenon DEF IInv, SubsInv
  <2>2. \A t \in mem'.subs \cup doomed' : Subscribed(t)'
    BY <1>1, <1>3, <1>5, <2>1, Zenon
  <2>3. \A j \in Instances : \A t \in cleaning'[j] : Subscribed(t)'
    <3>. SUFFICES ASSUME NEW j \in Instances, NEW t \in cleaning'[j] PROVE Subscribed(t)'
      OBVIOUS
    <3>1. t \in mem.subs \/ t \in cleaning[j]
      BY <1>4, <1>6, Zenon
    <3>. QED  BY <1>3, <1>5, <2>1, <3>1, Zenon
  <2>. QED  BY <1>1, <2>1, <2>2, <2>3, Zenon DEF SubsInv
<1>9. ASSUME NEW m \in Messages
      PROVE  MessageInv(m)'
  <2>1. MessageInv(m)
    BY Zenon DEF IInv
  <2>2. \A t \in Subs : Consumes(t, m)' <=> Consumes(t, m)
    BY <1>1, <1>3, Zenon DEF Consumes
  <2>. QED  BY <1>1, <1>3, <2>1, <2>2, Zenon DEF MessageInv
<1>. QED  BY <1>3, <1>7, <1>8, <1>9, Zenon DEF IInv

(* Another notification, and the end of correlate_message.  The message was
   never buffered. *)
LEMMA NotifiedInv ==
  ASSUME IInv, NEW m \in Messages, ~Buffered(m), NEW N, N \subseteq Subs \X {m},
         notified' = notified \cup N, NEW v \in {"notifying", "sent"}, NEW T, T \subseteq Subs,
         stage' = [stage EXCEPT ![m] = v], todo' = [todo EXCEPT ![m] = T],
         stage[m] # "new" \/ N # {},
         UNCHANGED <<mem, rows, tasks, forget, cleaning, reloads, gone, expired, doomed>>
  PROVE  IInv'
<1>1. UNCHANGED <<mem, rows, gone, expired, doomed, reloads>>
  BY Zenon
<1>2. /\ EndInv' /\ End' = End /\ Good(mem')
      /\ \A x \in Messages : /\ Buffered(x)' <=> Buffered(x)
                             /\ InMem(x)' <=> InMem(x)
                             /\ InEnd(x)' <=> InEnd(x)
      /\ \A s \in Subs : Subscribed(s)' <=> Subscribed(s)
  BY <1>1, SameMemory, Zenon
<1>3. /\ stage \in [Messages -> {"new", "notifying", "sent"}] /\ todo \in [Messages -> SUBSET Subs]
      /\ notified \subseteq Subs \X Messages
  BY Zenon DEF IInv, Types
<1>4. /\ stage' \in [Messages -> {"new", "notifying", "sent"}]
      /\ \A x \in Messages : stage'[x] = IF x = m THEN v ELSE stage[x]
  BY <1>3
<1>5. todo' \in [Messages -> SUBSET Subs] /\ notified' \subseteq Subs \X Messages
  BY <1>3
<1>6. Types'
  BY <1>4, <1>5, Zenon DEF IInv, Types
<1>7. SubsInv'
  BY <1>2, SubsTyped, Zenon DEF IInv, SubsInv
<1>8. ASSUME NEW x \in Messages
      PROVE  MessageInv(x)'
  <2>1. MessageInv(x)
    BY Zenon DEF IInv
  <2>2. CASE x # m
    <3>1. \A t \in Subs : <<t, x>> \in notified' <=> <<t, x>> \in notified
      BY <2>2
    <3>2. \A t \in Subs : Consumes(t, x)' <=> Consumes(t, x)
      BY <1>2, <3>1, Zenon DEF Consumes
    <3>3. stage'[x] = stage[x]
      BY <1>4, <2>2, Zenon
    <3>. QED  BY <1>2, <2>1, <3>1, <3>2, <3>3, Zenon DEF MessageInv
  <2>3. CASE x = m
    <3>1. stage'[x] # "new" /\ ~Buffered(x)'
      BY <1>2, <1>4, <2>3, Zenon
    <3>2. \E t \in Subs : <<t, x>> \in notified'
      <4>1. CASE N # {}
        BY <2>3, <4>1
      <4>2. CASE stage[m] # "new"
        BY <2>1, <2>3, <4>2, Zenon DEF MessageInv
      <4>. QED  BY <4>1, <4>2
    <3>. QED  BY <1>2, <2>1, <2>3, <3>1, <3>2, Zenon DEF MessageInv
  <2>. QED  BY <2>2, <2>3, Zenon
<1>. QED  BY <1>2, <1>6, <1>7, <1>8, Zenon DEF IInv

(* A message that nobody waits for. *)
LEMMA BufferInv ==
  ASSUME IInv, NEW x \in Messages, stage[x] = "new", FindMatches(mem, x) = {},
         mem' = AddMessage(mem, x), gone' = gone \cup Evicted(mem, x), rows' = Append(rows, BufferedRow(x)),
         stage' = [stage EXCEPT ![x] = "sent"],
         UNCHANGED <<notified, todo, tasks, forget, cleaning, reloads, expired, doomed>>
  PROVE  IInv'
<1>. DEFINE r == BufferedRow(x)
            vm == Evicted(mem, x)
            ve == Evicted(End.mem, x)
<1>1. /\ Good(mem) /\ Good(End.mem) /\ End.mem.subs = mem.subs /\ rows \in Seq(Row) /\ r \in Row
      /\ stage \in [Messages -> {"new", "notifying", "sent"}] /\ gone \subseteq Messages
      /\ End.tasks \subseteq Subs \X Messages /\ End.gone \subseteq Messages
      /\ (~expired => End.mem.buffer = mem.buffer)
  BY RowsDiffer, Zenon DEF IInv, Types, EndInv
<1>2. End = [mem |-> End.mem, tasks |-> End.tasks, gone |-> End.gone]
  BY DEF IInv, EndInv
<1>3. ~Buffered(x) /\ ~InMem(x) /\ ~InEnd(x) /\ \A s \in Subs : ~Consumes(s, x)
  <2>1. MessageInv(x)
    BY Zenon DEF IInv
  <2>. QED  BY <2>1, Zenon DEF MessageInv
<1>4. \A s \in mem.subs : ~Matches(s, x)
  BY <1>1, MatchIndexed, Zenon
<1>5. Good(mem') /\ mem'.subs = mem.subs /\ Range(mem'.buffer) \cup vm = Range(mem.buffer) \cup {x}
  BY <1>1, <1>3, <1>4, AddMessageGood, Zenon DEF InMem
<1>6. rows' \in Seq(Row) /\ Range(rows') = Range(rows) \cup {r} /\ End' = Replayed(End, r)
  BY <1>1, RowAdded, Zenon
<1>7. End' = [mem |-> AddMessage(End.mem, x), tasks |-> End.tasks, gone |-> End.gone \cup ve]
  <2>1. Replayed(End, r) = [mem |-> AddMessage(End.mem, x), tasks |-> End.tasks, gone |-> End.gone \cup ve]
    BY <1>2, ReplayedRow, Zenon
  <2>. QED  BY <1>6, <2>1, Zenon
<1>8. End'.mem = AddMessage(End.mem, x) /\ End'.tasks = End.tasks /\ End'.gone = End.gone \cup ve
  BY <1>7
<1>9. /\ Good(End'.mem) /\ End'.mem.subs = mem.subs
      /\ Range(End'.mem.buffer) \cup ve = Range(End.mem.buffer) \cup {x}
  <2>1. /\ Good(AddMessage(End.mem, x)) /\ AddMessage(End.mem, x).subs = End.mem.subs
        /\ Range(AddMessage(End.mem, x).buffer) \cup ve = Range(End.mem.buffer) \cup {x}
    BY <1>1, <1>3, <1>4, AddMessageGood, Zenon DEF InEnd
  <2>. QED  BY <1>1, <1>8, <2>1
<1>10. vm \subseteq Messages /\ ve \subseteq Messages
  <2>1. Range(mem.buffer) \subseteq Messages /\ Range(End.mem.buffer) \subseteq Messages
    BY <1>1, MemoryFields, Zenon DEF Good
  <2>. QED  BY <1>5, <1>9, <2>1, Zenon
<1>11. /\ stage' \in [Messages -> {"new", "notifying", "sent"}]
       /\ \A m \in Messages : stage'[m] = IF m = x THEN "sent" ELSE stage[m]
  BY <1>1
<1>12. Types'
  <2>1. gone' \subseteq Messages
    BY <1>1, <1>10, Zenon
  <2>. QED  BY <1>5, <1>6, <1>11, <2>1, Zenon DEF IInv, Types
<1>13. EndInv'
  <2>1. End' = [mem |-> End'.mem, tasks |-> End'.tasks, gone |-> End'.gone]
    BY <1>7
  <2>2. End'.tasks \subseteq Subs \X Messages /\ End'.gone \subseteq Messages
    BY <1>1, <1>8, <1>10
  <2>3. ASSUME ~expired' PROVE End'.mem.buffer = mem'.buffer
    <3>1. End.mem.buffer = mem.buffer
      BY <1>1, <2>3, Zenon
    <3>2. Full(End.mem) <=> Full(mem)
      BY <3>1 DEF Full
    <3>. DEFINE b == Append(mem.buffer, x)
                t == IF Full(mem) THEN Tail(b) ELSE b
    <3>3. AddMessage(mem, x) = [mem EXCEPT !.buffer = t]
      BY Zenon DEF AddMessage
    <3>4. AddMessage(End.mem, x) = [End.mem EXCEPT !.buffer = t]
      BY <3>1, <3>2, Zenon DEF AddMessage
    <3>. HIDE DEF t
    <3>5. /\ mem = [subs |-> mem.subs, byName |-> mem.byName, byInstance |-> mem.byInstance, buffer |-> mem.buffer]
          /\ End.mem = [subs |-> End.mem.subs, byName |-> End.mem.byName, byInstance |-> End.mem.byInstance, buffer |-> End.mem.buffer]
      BY <1>1, MemoryFields, Zenon DEF Good
    <3>6. AddMessage(mem, x).buffer = t
      BY <3>3, <3>5
    <3>7. AddMessage(End.mem, x).buffer = t
      BY <3>4, <3>5
    <3>. QED  BY <1>8, <3>6, <3>7
  <2>4. End'.mem.subs = mem'.subs
    BY <1>5, <1>9
  <2>. QED  BY <1>9, <2>1, <2>2, <2>3, <2>4, Zenon DEF EndInv
<1>14. ASSUME NEW m \in Messages
       PROVE  MessageInv(m)'
  <2>1. MessageInv(m)
    BY Zenon DEF IInv
  <2>2. /\ Buffered(m)' <=> Buffered(m) \/ m = x
        /\ InMem(m)' \/ m \in vm <=> InMem(m) \/ m = x
        /\ InEnd(m)' \/ m \in ve <=> InEnd(m) \/ m = x
    <3>1. BufferedRow(m) = r => m = x
      BY RowsDiffer, Zenon
    <3>2. Buffered(m)' <=> Buffered(m) \/ m = x
      BY <1>6, <3>1, Zenon DEF Buffered
    <3>3. InMem(m)' \/ m \in vm <=> InMem(m) \/ m = x
      <4>1. m \in Range(mem'.buffer) \cup vm <=> m \in Range(mem.buffer) \cup {x}
        BY <1>5
      <4>. QED  BY <4>1, Zenon DEF InMem
    <3>4. InEnd(m)' \/ m \in ve <=> InEnd(m) \/ m = x
      <4>1. m \in Range(End'.mem.buffer) \cup ve <=> m \in Range(End.mem.buffer) \cup {x}
        BY <1>9
      <4>. QED  BY <4>1, Zenon DEF InEnd
    <3>. QED  BY <3>2, <3>3, <3>4, Zenon
  <2>3. \A t \in Subs : Consumes(t, m)' <=> Consumes(t, m)
    BY <1>8, Zenon DEF Consumes
  <2>4. (m \in gone' <=> m \in gone \/ m \in vm) /\ (m \in End'.gone <=> m \in End.gone \/ m \in ve)
    BY <1>8, Zenon
  <2>5. stage'[m] = IF m = x THEN "sent" ELSE stage[m]
    BY <1>11, Zenon
  <2>6. <<tasks, notified, forget, End.tasks>>' = <<tasks, notified, forget, End.tasks>>
    BY <1>8, Zenon
  <2>. HIDE DEF vm, ve
  <2>7. CASE m = x
    <3>1. stage'[m] = "sent" /\ Buffered(m)' /\ \A s \in Subs : ~Consumes(s, m)' /\ <<s, m>> \notin End'.tasks
      BY <1>3, <1>8, <2>2, <2>3, <2>5, <2>7, Zenon DEF Consumes
    <3>2. m \notin forget'
      BY <1>3, <2>1, <2>7, Zenon DEF MessageInv
    <3>. QED  BY <2>2, <2>4, <2>7, <3>1, <3>2, Zenon DEF MessageInv
  <2>8. CASE m # x
    <3>1. stage'[m] = stage[m] /\ (Buffered(m)' <=> Buffered(m))
      BY <2>2, <2>5, <2>8, Zenon
    <3>2. (InMem(m)' \/ m \in vm <=> InMem(m)) /\ (InEnd(m)' \/ m \in ve <=> InEnd(m))
      BY <2>2, <2>8, Zenon
    <3>3. tasks' = tasks /\ notified' = notified /\ forget' = forget /\ End'.tasks = End.tasks
      BY <1>8
    <3>. QED  BY <2>1, <2>3, <2>4, <3>1, <3>2, <3>3, Zenon DEF MessageInv
  <2>. QED  BY <2>7, <2>8, Zenon
<1>15. SubsInv'
  <2>1. \A t \in Subs : Subscribed(t) => Subscribed(t)'
    BY <1>6, Zenon DEF Subscribed
  <2>. QED  BY <1>5, <2>1, SubsTyped, Zenon DEF IInv, SubsInv
<1>. QED  BY <1>12, <1>13, <1>14, <1>15, Zenon DEF IInv

LEMMA CorrelateInv ==
  ASSUME IInv, NEW m \in Messages, Correlate(m)
  PROVE  IInv'
<1>1. stage[m] = "new" /\ UNCHANGED <<tasks, forget, cleaning, reloads, expired, doomed>>
  BY Zenon DEF Correlate
<1>2. ASSUME NEW s \in FindMatches(mem, m),
             notified' = notified \cup {<<s, m>>}, todo' = [todo EXCEPT ![m] = FindMatches(mem, m) \ {s}],
             stage' = [stage EXCEPT ![m] = "notifying"], UNCHANGED <<mem, rows, gone>>
      PROVE  IInv'
  <2>1. FindMatches(mem, m) \subseteq Subs
    BY MatchIndexed, Zenon DEF IInv, Types
  <2>2. ~Buffered(m)
    <3>1. MessageInv(m)
      BY Zenon DEF IInv
    <3>. QED  BY <1>1, <3>1 DEF MessageInv
  <2>. DEFINE N == {<<s, m>>}
              T == FindMatches(mem, m) \ {s}
  <2>3. N \subseteq Subs \X {m} /\ T \subseteq Subs /\ N # {}
    BY <2>1
  <2>4. notified' = notified \cup N /\ todo' = [todo EXCEPT ![m] = T]
    BY <1>2, Zenon
  <2>5. UNCHANGED <<mem, rows, tasks, forget, cleaning, reloads, gone, expired, doomed>>
    BY <1>1, <1>2, Zenon
  <2>6. "notifying" \in {"notifying", "sent"}
    OBVIOUS
  <2>. HIDE DEF N, T
  <2>. QED  BY <1>2, <2>2, <2>3, <2>4, <2>5, <2>6, NotifiedInv, Zenon
<1>3. ASSUME FindMatches(mem, m) = {}, mem' = AddMessage(mem, m), gone' = gone \cup Evicted(mem, m),
             rows' = Append(rows, [action |-> "buffered", id |-> m]),
             stage' = [stage EXCEPT ![m] = "sent"], UNCHANGED <<notified, todo>>
      PROVE  IInv'
  <2>1. rows' = Append(rows, BufferedRow(m))
    BY <1>3, Zenon DEF BufferedRow
  <2>2. UNCHANGED <<notified, todo, tasks, forget, cleaning, reloads, expired, doomed>>
    BY <1>1, <1>3, Zenon
  <2>. QED  BY <1>1, <1>3, <2>1, <2>2, BufferInv, Zenon
<1>. QED  BY <1>2, <1>3, Zenon DEF Correlate

LEMMA NotifyNextInv ==
  ASSUME IInv, NEW m \in Messages, NotifyNext(m)
  PROVE  IInv'
<1>. DEFINE live == todo[m] \cap mem.subs
<1>1. /\ stage[m] = "notifying"
      /\ \/ \E s \in live : /\ notified' = notified \cup {<<s, m>>}
                            /\ todo' = [todo EXCEPT ![m] = live \ {s}]
                            /\ UNCHANGED stage
         \/ /\ stage' = [stage EXCEPT ![m] = "sent"]
            /\ todo' = [todo EXCEPT ![m] = {}]
            /\ UNCHANGED notified
      /\ UNCHANGED <<mem, rows, tasks, forget, cleaning, reloads, gone, expired, doomed>>
  BY Zenon DEF NotifyNext
<1>2. /\ ~Buffered(m) /\ live \subseteq Subs
      /\ stage \in [Messages -> {"new", "notifying", "sent"}]
  <2>1. MessageInv(m) /\ stage \in [Messages -> {"new", "notifying", "sent"}]
    BY Zenon DEF IInv, Types
  <2>2. ~Buffered(m)
    BY <1>1, <2>1 DEF MessageInv
  <2>. QED  BY <2>1, <2>2, SubsTyped, Zenon
<1>. HIDE DEF live
<1>3. "notifying" \in {"notifying", "sent"} /\ "sent" \in {"notifying", "sent"} /\ stage[m] # "new"
  BY <1>1
<1>4. ASSUME NEW s \in live, notified' = notified \cup {<<s, m>>},
             todo' = [todo EXCEPT ![m] = live \ {s}], UNCHANGED stage
      PROVE  IInv'
  <2>. DEFINE N == {<<s, m>>}
              T == live \ {s}
  <2>1. stage' = [stage EXCEPT ![m] = "notifying"]
    BY <1>1, <1>2, <1>4
  <2>2. N \subseteq Subs \X {m} /\ T \subseteq Subs
    BY <1>2
  <2>3. notified' = notified \cup N /\ todo' = [todo EXCEPT ![m] = T]
    BY <1>4, Zenon
  <2>. HIDE DEF N, T
  <2>. QED  BY <1>1, <1>2, <1>3, <2>1, <2>2, <2>3, NotifiedInv, Zenon
<1>5. ASSUME stage' = [stage EXCEPT ![m] = "sent"], todo' = [todo EXCEPT ![m] = {}], UNCHANGED notified
      PROVE  IInv'
  <2>. DEFINE N == {}
  <2>1. notified' = notified \cup N /\ N \subseteq Subs \X {m} /\ N \subseteq Subs /\ todo' = [todo EXCEPT ![m] = N]
    BY <1>5
  <2>. HIDE DEF N
  <2>. QED  BY <1>1, <1>2, <1>3, <1>5, <2>1, NotifiedInv, Zenon
<1>. QED  BY <1>1, <1>4, <1>5, Zenon

LEMMA NotifyTaskInv ==
  ASSUME IInv, NEW s \in Subs, NEW x \in Messages, NotifyTask(s, x)
  PROVE  IInv'
<1>1. /\ <<s, x>> \in tasks /\ tasks' = tasks \ {<<s, x>>} /\ notified' = notified \cup {<<s, x>>}
      /\ UNCHANGED <<mem, rows, forget, stage, todo, cleaning, reloads, gone, expired, doomed>>
  BY Zenon DEF NotifyTask
<1>2. UNCHANGED <<mem, rows, gone, expired, doomed, reloads>>
  BY <1>1, Zenon
<1>3. /\ EndInv' /\ End' = End /\ Good(mem')
      /\ \A m \in Messages : /\ Buffered(m)' <=> Buffered(m)
                             /\ InMem(m)' <=> InMem(m)
                             /\ InEnd(m)' <=> InEnd(m)
      /\ \A t \in Subs : Subscribed(t)' <=> Subscribed(t)
  BY <1>2, SameMemory, Zenon
<1>4. Types'
  <2>1. tasks' \subseteq Subs \X Messages /\ notified' \subseteq Subs \X Messages
    BY <1>1 DEF IInv, Types
  <2>. QED  BY <1>1, <2>1, Zenon DEF IInv, Types
<1>5. SubsInv'
  BY <1>1, <1>3, SubsTyped, Zenon DEF IInv, SubsInv
<1>6. ASSUME NEW m \in Messages
      PROVE  MessageInv(m)'
  <2>1. MessageInv(m)
    BY Zenon DEF IInv
  <2>2. \A t \in Subs : /\ <<t, m>> \in tasks' \cup notified' <=> <<t, m>> \in tasks \cup notified
                        /\ <<t, m>> \in notified => <<t, m>> \in notified'
    BY <1>1, Zenon
  <2>3. \A t \in Subs : Consumes(t, m)' <=> Consumes(t, m)
    BY <1>3, <2>2, Zenon DEF Consumes
  <2>. QED  BY <1>1, <1>3, <2>1, <2>2, <2>3, Zenon DEF MessageInv
<1>. QED  BY <1>3, <1>4, <1>5, <1>6, Zenon DEF IInv

(* The row of a message that has been consumed does not change the replay. *)
LEMMA ForgetTaskInv ==
  ASSUME IInv, NEW x \in Messages, ForgetTask(x)
  PROVE  IInv'
<1>. DEFINE r == RemovedRow(x)
<1>1. /\ x \in forget /\ forget' = forget \ {x} /\ rows' = Append(rows, r)
      /\ UNCHANGED <<mem, tasks, stage, todo, cleaning, reloads, notified, gone, expired, doomed>>
  BY Zenon DEF ForgetTask, RemovedRow
<1>2. Good(mem) /\ Good(End.mem) /\ rows \in Seq(Row) /\ r \in Row /\ forget \subseteq Messages
  BY RowsDiffer, Zenon DEF IInv, Types, EndInv
<1>3. End = [mem |-> End.mem, tasks |-> End.tasks, gone |-> End.gone]
  BY DEF IInv, EndInv
<1>4. rows' \in Seq(Row) /\ Range(rows') = Range(rows) \cup {r} /\ End' = Replayed(End, r)
  BY <1>1, <1>2, RowAdded, Zenon
<1>5. Range(End.mem.buffer) \cap {x} = {}
  <2>1. MessageInv(x)
    BY Zenon DEF IInv
  <2>2. ~InEnd(x)
    BY <1>1, <2>1, Zenon DEF MessageInv
  <2>. QED  BY <2>2, Zenon DEF InEnd
<1>6. DropMessage(End.mem, x) = End.mem
  BY <1>2, <1>5, WithoutGood, Zenon DEF DropMessage
<1>7. End' = End
  <2>1. Replayed(End, r) = [mem |-> DropMessage(End.mem, x), tasks |-> End.tasks, gone |-> End.gone]
    BY <1>3, ReplayedRow, Zenon
  <2>. QED  BY <1>3, <1>4, <1>6, <2>1
<1>8. Types'
  BY <1>1, <1>2, <1>4, Zenon DEF IInv, Types
<1>9. EndInv'
  BY <1>1, <1>7, Zenon DEF IInv, EndInv
<1>10. ASSUME NEW m \in Messages
       PROVE  MessageInv(m)'
  <2>1. MessageInv(m)
    BY Zenon DEF IInv
  <2>2. BufferedRow(m) # r
    BY RowsDiffer, Zenon
  <2>3. (Buffered(m)' <=> Buffered(m)) /\ (InMem(m)' <=> InMem(m)) /\ (InEnd(m)' <=> InEnd(m))
    BY <1>1, <1>4, <1>7, <2>2, Zenon DEF Buffered, InMem, InEnd
  <2>4. \A t \in Subs : Consumes(t, m)' <=> Consumes(t, m)
    BY <1>1, <1>7, Zenon DEF Consumes
  <2>5. m \in forget' => m \in forget
    BY <1>1, Zenon
  <2>. QED  BY <1>1, <1>7, <2>1, <2>3, <2>4, <2>5, Zenon DEF MessageInv
<1>11. SubsInv'
  <2>1. \A t \in Subs : Subscribed(t) => Subscribed(t)'
    BY <1>4, Zenon DEF Subscribed
  <2>. QED  BY <1>1, <2>1, SubsTyped, Zenon DEF IInv, SubsInv
<1>. QED  BY <1>8, <1>9, <1>10, <1>11, Zenon DEF IInv

LEMMA CleanUpExpiredInv ==
  ASSUME IInv, NEW old \in SUBSET Ttl, CleanUpExpired(old)
  PROVE  IInv'
<1>1. /\ old \cap Range(mem.buffer) # {}
      /\ mem' = [mem EXCEPT !.buffer = Without(@, old)]
      /\ gone' = gone \cup (old \cap Range(mem.buffer)) /\ expired' = TRUE
      /\ UNCHANGED <<rows, tasks, forget, stage, todo, cleaning, reloads, notified, doomed>>
  BY Zenon DEF CleanUpExpired
<1>2. Good(mem) /\ gone \subseteq Messages
  BY Zenon DEF IInv, Types
<1>3. Good(mem') /\ mem'.subs = mem.subs /\ Range(mem'.buffer) = Range(mem.buffer) \ old
  BY <1>1, <1>2, WithoutGood, Zenon
<1>4. End' = End /\ Range(rows') = Range(rows)
  BY <1>1, RowsKept, Zenon
<1>5. Types'
  <2>1. Range(mem.buffer) \subseteq Messages
    BY <1>2, MemoryFields, Zenon DEF Good
  <2>2. gone' \subseteq Messages /\ expired' \in BOOLEAN
    BY <1>1, <1>2, <2>1, Zenon
  <2>. QED  BY <1>1, <1>3, <2>2, Zenon DEF IInv, Types
<1>6. EndInv'
  <2>1. expired'
    BY <1>1
  <2>. QED  BY <1>1, <1>3, <1>4, <2>1, Zenon DEF IInv, EndInv
<1>7. ASSUME NEW m \in Messages
      PROVE  MessageInv(m)'
  <2>1. MessageInv(m)
    BY Zenon DEF IInv
  <2>2. /\ Buffered(m)' <=> Buffered(m)
        /\ InEnd(m)' <=> InEnd(m)
        /\ InMem(m)' => InMem(m)
        /\ InMem(m) => InMem(m)' \/ m \in gone'
        /\ m \in gone => m \in gone'
    BY <1>1, <1>3, <1>4, Zenon DEF Buffered, InMem, InEnd
  <2>3. \A t \in Subs : Consumes(t, m)' <=> Consumes(t, m)
    BY <1>1, <1>4, Zenon DEF Consumes
  <2>. QED  BY <1>1, <1>4, <2>1, <2>2, <2>3, Zenon DEF MessageInv
<1>8. SubsInv'
  <2>1. \A t \in Subs : Subscribed(t) => Subscribed(t)'
    BY <1>4, Zenon DEF Subscribed
  <2>. QED  BY <1>1, <1>3, <2>1, SubsTyped, Zenon DEF IInv, SubsInv
<1>. QED  BY <1>5, <1>6, <1>7, <1>8, Zenon DEF IInv

LEMMA ReloadInv ==
  ASSUME IInv, Reload
  PROVE  IInv'
<1>1. /\ reloads < MaxReloads /\ reloads' = reloads + 1 /\ mem' = End.mem /\ tasks' = tasks \cup End.tasks
      /\ forget' = forget \cup {t[2] : t \in End.tasks} /\ gone' = gone \cup End.gone
      /\ UNCHANGED <<rows, stage, todo, cleaning, notified, expired, doomed>>
  BY Zenon DEF Reload, End
<1>2. /\ Good(End.mem) /\ End.mem.subs = mem.subs
      /\ End.tasks \subseteq Subs \X Messages /\ End.gone \subseteq Messages
  BY Zenon DEF IInv, EndInv
<1>3. End' = End /\ Range(rows') = Range(rows)
  BY <1>1, RowsKept, Zenon
<1>4. ASSUME NEW m \in {t[2] : t \in End.tasks}
      PROVE  \E s \in Subs : <<s, m>> \in End.tasks
  <2>1. PICK t \in End.tasks : m = t[2]
    BY Zenon
  <2>2. t = <<t[1], t[2]>> /\ t[1] \in Subs
    BY <1>2
  <2>. QED  BY <2>1, <2>2, Zenon
<1>5. Types'
  <2>1. tasks' \subseteq Subs \X Messages /\ gone' \subseteq Messages
    BY <1>1, <1>2, Zenon DEF IInv, Types
  <2>2. {t[2] : t \in End.tasks} \subseteq Messages
    BY <1>2
  <2>3. forget' \subseteq Messages
    BY <1>1, <2>2, Zenon DEF IInv, Types
  <2>4. reloads' \in 0..MaxReloads
    <3>1. reloads \in 0..MaxReloads /\ MaxReloads \in Nat
      BY CorrelationAssumption DEF IInv, Types
    <3>. QED  BY <1>1, <3>1
  <2>. QED  BY <1>1, <1>2, <2>1, <2>3, <2>4, Zenon DEF IInv, Types
<1>6. EndInv'
  BY <1>1, <1>3, Zenon DEF IInv, EndInv
<1>7. ASSUME NEW m \in Messages
      PROVE  MessageInv(m)'
  <2>1. MessageInv(m)
    BY Zenon DEF IInv
  <2>2. /\ Buffered(m)' <=> Buffered(m)
        /\ InEnd(m)' <=> InEnd(m)
        /\ InMem(m)' <=> InEnd(m)
    BY <1>1, <1>3, Zenon DEF Buffered, InMem, InEnd
  <2>3. \A t \in Subs : Consumes(t, m)' <=> Consumes(t, m)
    BY <1>1, <1>3, Zenon DEF Consumes
  <2>4. \A s \in Subs : <<s, m>> \in End.tasks => Consumes(s, m) /\ Buffered(m) /\ <<s, m>> \in tasks'
    BY <1>1, <2>1, Zenon DEF MessageInv, Consumes
  <2>5. m \in forget' => Buffered(m) /\ \E s \in Subs : Consumes(s, m)
    <3>1. m \in forget => Buffered(m) /\ \E s \in Subs : Consumes(s, m)
      BY <2>1, Zenon DEF MessageInv
    <3>. QED  BY <1>1, <1>4, <2>4, <3>1, Zenon
  <2>6. m \in End.gone => m \in gone'
    BY <1>1, Zenon
  <2>. QED  BY <1>1, <1>3, <2>1, <2>2, <2>3, <2>4, <2>5, <2>6, Zenon DEF MessageInv
<1>8. SubsInv'
  <2>1. \A t \in Subs : Subscribed(t) => Subscribed(t)'
    BY <1>3, Zenon DEF Subscribed
  <2>. QED  BY <1>1, <1>2, <2>1, SubsTyped, Zenon DEF IInv, SubsInv
<1>. QED  BY <1>5, <1>6, <1>7, <1>8, Zenon DEF IInv

-----------------------------------------------------------------------------
(* The theorems. *)

LEMMA InitInv == Init => IInv
<1>. SUFFICES ASSUME Init PROVE IInv
  OBVIOUS
<1>1. Empty.subs = {} /\ Empty.buffer = <<>> /\ Range(<<>>) = {} /\ IsInjective(<<>>)
  BY DEF Empty, Range, IsInjective
<1>2. Good(Empty)
  <2>1. Empty.byName = Index({}, Names, Name) /\ Empty.byInstance = Index({}, Instances, Instance)
    BY DEF Empty, Index
  <2>2. Empty \in Memory
    BY DEF Empty, Memory
  <2>3. Len(<<>>) <= MaxBuffer
    BY CorrelationAssumption
  <2>. QED  BY <1>1, <2>1, <2>2, <2>3 DEF Good
<1>3. mem = Empty /\ rows = <<>>
  BY DEF Init
<1>4. End = Nothing /\ Range(rows) = {}
  BY <1>1, <1>3, ReplayEmpty, Zenon DEF End
<1>5. End.mem = Empty /\ End.tasks = {} /\ End.gone = {} /\ End = [mem |-> End.mem, tasks |-> End.tasks, gone |-> End.gone]
  BY <1>4 DEF Nothing
<1>6. Types
  <2>1. rows \in Seq(Row) /\ reloads \in 0..MaxReloads
    BY CorrelationAssumption DEF Init
  <2>2. /\ stage \in [Messages -> {"new", "notifying", "sent"}] /\ todo \in [Messages -> SUBSET Subs]
        /\ cleaning \in [Instances -> SUBSET Subs]
    BY DEF Init
  <2>3. tasks = {} /\ forget = {} /\ notified = {} /\ gone = {} /\ expired = FALSE /\ doomed = {}
    BY DEF Init
  <2>. QED  BY <1>2, <1>3, <2>1, <2>2, <2>3, Zenon DEF Types
<1>7. EndInv
  BY <1>2, <1>3, <1>5, Zenon DEF EndInv
<1>8. ASSUME NEW m \in Messages PROVE MessageInv(m)
  <2>1. stage[m] = "new" /\ m \notin forget /\ tasks = {} /\ notified = {}
    BY DEF Init
  <2>2. ~Buffered(m) /\ ~InMem(m) /\ ~InEnd(m)
    BY <1>1, <1>3, <1>4, <1>5, Zenon DEF Buffered, InMem, InEnd
  <2>3. \A s \in Subs : ~Consumes(s, m)
    BY <1>5, <2>1, Zenon DEF Consumes
  <2>. QED  BY <1>5, <2>1, <2>2, <2>3, Zenon DEF MessageInv
<1>9. SubsInv
  <2>1. doomed = {} /\ \A i \in Instances : cleaning[i] = {}
    BY DEF Init
  <2>. QED  BY <1>1, <1>3, <2>1, Zenon DEF SubsInv
<1>. QED  BY <1>6, <1>7, <1>8, <1>9, Zenon DEF IInv

LEMMA NextInv ==
  ASSUME IInv, [Next]_vars
  PROVE  IInv'
<1>1. CASE UNCHANGED vars
  <2>1. UNCHANGED <<mem, rows, tasks, forget, stage, todo, cleaning, reloads, notified, gone, expired, doomed>>
    BY <1>1, Zenon DEF vars
  <2>2. UNCHANGED <<mem, rows, gone, expired, doomed, reloads>>
    BY <2>1, Zenon
  <2>3. /\ EndInv' /\ End' = End /\ Good(mem')
        /\ \A m \in Messages : /\ Buffered(m)' <=> Buffered(m)
                               /\ InMem(m)' <=> InMem(m)
                               /\ InEnd(m)' <=> InEnd(m)
        /\ \A t \in Subs : Subscribed(t)' <=> Subscribed(t)
    BY <2>2, SameMemory, Zenon
  <2>4. Types'
    BY <2>1, Zenon DEF IInv, Types
  <2>5. SubsInv'
    BY <2>1, <2>3, SubsTyped, Zenon DEF IInv, SubsInv
  <2>6. ASSUME NEW m \in Messages PROVE MessageInv(m)'
    <3>1. \A t \in Subs : Consumes(t, m)' <=> Consumes(t, m)
      BY <2>1, <2>3, Zenon DEF Consumes
    <3>2. MessageInv(m)
      BY Zenon DEF IInv
    <3>. QED  BY <2>1, <2>3, <3>1, <3>2, Zenon DEF MessageInv
  <2>. QED  BY <2>3, <2>4, <2>5, <2>6, Zenon DEF IInv
<1>2. CASE Next
  BY <1>2, SubscribeInv, UnsubscribeInv, CleanUpInv, CleanUpNextInv, CorrelateInv, NotifyNextInv, ForgetTaskInv,
     NotifyTaskInv, CleanUpExpiredInv, ReloadInv, Zenon DEF Next
<1>. QED  BY <1>1, <1>2, Zenon

(* What the memory holds and what a reload would rebuild from the rows stay in
   step, whatever correlate_message, subscriptions, tasks, cleanups and reloads do
   in between. *)
THEOREM Invariance == Spec => []IInv
BY InitInv, NextInv, PTL DEF Spec

(* The buffer keeps max_buffer_size and holds no message twice, and the indexes by
   name and by instance agree with message_subscriptions, also after a reload. *)
THEOREM TypeCorrect == Spec => []TypeOK
<1>1. IInv => TypeOK
  <2>. SUFFICES ASSUME IInv PROVE TypeOK
    OBVIOUS
  <2>1. /\ mem \in Memory /\ Len(mem.buffer) <= MaxBuffer /\ IsInjective(mem.buffer)
        /\ mem.byName = Index(mem.subs, Names, Name) /\ mem.byInstance = Index(mem.subs, Instances, Instance)
    BY Zenon DEF IInv, Types, Good
  <2>2. /\ mem.byName = [n \in Names |-> {s \in mem.subs : Name[s] = n}]
        /\ mem.byInstance = [i \in Instances |-> {s \in mem.subs : Instance[s] = i}]
    BY <2>1, Zenon DEF Index
  <2>. QED  BY <2>1, <2>2, Zenon DEF IInv, Types, TypeOK
<1>. QED  BY <1>1, Invariance, PTL

(* No message waits in the buffer next to a subscription that matches it:
   subscribe_message takes it out, correlate_message does not put it in. *)
THEOREM BufferHasNoMatch == Spec => []BufferUnmatched
<1>1. IInv => BufferUnmatched
  BY Zenon DEF IInv, Types, Good, BufferUnmatched
<1>. QED  BY <1>1, Invariance, PTL

(* A message given to correlate_message is in the buffer, has been or is about to
   be notified to a subscription, or was evicted or expired. *)
THEOREM NothingLost == Spec => []MessageAccounted
<1>1. IInv => MessageAccounted
  <2>. SUFFICES ASSUME IInv, NEW m \in Messages, stage[m] # "new"
                PROVE  m \in Range(mem.buffer) \cup gone \/ \E s \in Subs : <<s, m>> \in tasks \cup notified
    BY Zenon DEF MessageAccounted
  <2>1. MessageInv(m)
    BY Zenon DEF IInv
  <2>. QED  BY <2>1, Zenon DEF MessageInv, InMem
<1>. QED  BY <1>1, Invariance, PTL

(* A message that was ever buffered is notified to one subscription at most,
   however often reload_from_history replays its consumption. *)
THEOREM SingleConsumer == Spec => []OneConsumer
<1>1. IInv => OneConsumer
  <2>. SUFFICES ASSUME IInv, NEW k \in DOMAIN rows, rows[k].action = "buffered", NEW s \in Subs, NEW t \in Subs,
                       {<<s, rows[k].id>>, <<t, rows[k].id>>} \subseteq tasks \cup notified
                PROVE  s = t
    BY Zenon DEF OneConsumer
  <2>. DEFINE m == rows[k].id
  <2>1. rows \in Seq(Row)
    BY Zenon DEF IInv, Types
  <2>2. rows[k] \in Row
    BY <2>1
  <2>3. m \in Messages /\ rows[k] = BufferedRow(m)
    BY <2>2 DEF Row, BufferedRow
  <2>4. Buffered(m)
    BY <2>3, Zenon DEF Buffered, Range
  <2>5. MessageInv(m)
    BY <2>3, Zenon DEF IInv
  <2>6. Consumes(s, m) /\ Consumes(t, m)
    BY Zenon DEF Consumes
  <2>. HIDE DEF m
  <2>. QED  BY <2>4, <2>5, <2>6, Zenon DEF MessageInv
<1>. QED  BY <1>1, Invariance, PTL

(* What cleanup_instance_subscriptions_persisted has removed never comes back, not
   even by a reload at any moment. *)
THEOREM StaysCleanedUp == Spec => []CleanedUp
<1>1. IInv => CleanedUp
  BY Zenon DEF IInv, SubsInv, CleanedUp
<1>. QED  BY <1>1, Invariance, PTL

(* reload_from_history restores the subscriptions and, unless a message has
   expired, the buffer with its order. *)
THEOREM Restores == Spec => ReloadRestores
<1>. DEFINE A == reloads' # reloads =>
                   /\ mem'.subs = mem.subs
                   /\ ~expired => mem'.buffer = mem.buffer
<1>1. ASSUME IInv, [Next]_vars PROVE [A]_vars
  <2>. SUFFICES ASSUME Next, reloads' # reloads PROVE A
    BY <1>1, Zenon DEF vars
  <2>1. Reload
    BY Zenon DEF Next, Subscribe, Unsubscribe, CleanUp, CleanUpNext, Correlate, NotifyNext, ForgetTask, NotifyTask, CleanUpExpired
  <2>2. mem' = End.mem
    BY <2>1, Zenon DEF Reload, End
  <2>. QED  BY <1>1, <2>2, Zenon DEF IInv, EndInv
<1>. QED  BY <1>1, Invariance, PTL DEF Spec, ReloadRestores

-----------------------------------------------------------------------------
(* What the refinement needs besides: correlate_message has only subscriptions
   with a row on its list; what a replay consumes matches, and was consumed
   already unless a message has expired. *)
MInv ==
  /\ \A m \in Messages : \A s \in todo[m] : Subscribed(s)
  /\ \A s \in Subs, m \in Messages :
       <<s, m>> \in End.tasks => Matches(s, m) /\ (~expired => <<s, m>> \in tasks \cup notified)

(* Only a "subscribed" row makes a replay consume. *)
LEMMA TasksKept ==
  ASSUME IInv, NEW x, NEW r \in {UnsubscribedRow(x), BufferedRow(x), RemovedRow(x)}, r \in Row, rows' = Append(rows, r)
  PROVE  End'.tasks = End.tasks /\ \A t : Subscribed(t)' <=> Subscribed(t)
<1>1. rows \in Seq(Row) /\ End = [mem |-> End.mem, tasks |-> End.tasks, gone |-> End.gone]
  BY Zenon DEF IInv, Types, EndInv
<1>2. Range(rows') = Range(rows) \cup {r} /\ End' = Replayed(End, r)
  BY <1>1, RowAdded, Zenon
<1>3. Replayed(End, r).tasks = End.tasks
  <2>1. CASE r = UnsubscribedRow(x)
    BY <1>1, <2>1, ReplayedRow
  <2>2. CASE r = BufferedRow(x)
    BY <1>1, <2>2, ReplayedRow
  <2>3. CASE r = RemovedRow(x)
    BY <1>1, <2>3, ReplayedRow
  <2>. QED  BY <2>1, <2>2, <2>3, Zenon
<1>4. \A t : SubscribedRow(t) # r
  BY RowsDiffer, Zenon
<1>. QED  BY <1>2, <1>3, <1>4, Zenon DEF Subscribed

(* Steps that do not consume from the buffer. *)
LEMMA MInvKept ==
  ASSUME IInv, MInv, End'.tasks = End.tasks, \A t : Subscribed(t) => Subscribed(t)',
         \A m \in Messages : \A s \in todo'[m] : s \in todo[m] \/ s \in mem.subs,
         tasks \cup notified \subseteq tasks' \cup notified', expired => expired'
  PROVE  MInv'
<1>1. \A m \in Messages : \A s \in todo'[m] : Subscribed(s)
  BY Zenon DEF MInv, IInv, SubsInv
<1>2. \A s \in Subs, m \in Messages :
       <<s, m>> \in End'.tasks => Matches(s, m) /\ (~expired' => <<s, m>> \in tasks' \cup notified')
  BY Zenon DEF MInv
<1>. QED  BY <1>1, <1>2, Zenon DEF MInv

LEMMA DroppedTasks ==
  ASSUME IInv, NEW s \in Subs, Dropped(s)
  PROVE  End'.tasks = End.tasks /\ \A t : Subscribed(t)' <=> Subscribed(t)
<1>1. CASE s \in mem.subs
  <2>1. rows' = Append(rows, UnsubscribedRow(s))
    BY <1>1, Zenon DEF Dropped, UnsubscribedRow
  <2>2. UnsubscribedRow(s) \in Row
    BY RowsDiffer, Zenon
  <2>. QED  BY <2>1, <2>2, TasksKept, Zenon
<1>2. CASE s \notin mem.subs
  <2>1. rows' = rows
    BY <1>2, Zenon DEF Dropped
  <2>. QED  BY <2>1, RowsKept, Zenon DEF Subscribed
<1>. QED  BY <1>1, <1>2, Zenon

LEMMA SubscribeMInv ==
  ASSUME IInv, MInv, NEW s \in Subs, Subscribe(s)
  PROVE  MInv'
<1>. DEFINE r == SubscribedRow(s)
            te == Taken(End.mem, s)
            tm == Taken(mem, s)
<1>1. /\ rows' = Append(rows, r) /\ tasks' = tasks \cup ({s} \X tm)
      /\ UNCHANGED <<todo, notified, expired>>
  BY Zenon DEF Subscribe, SubscribedRow
<1>2. /\ rows \in Seq(Row) /\ r \in Row /\ (~expired => End.mem.buffer = mem.buffer)
      /\ End = [mem |-> End.mem, tasks |-> End.tasks, gone |-> End.gone]
  BY RowsDiffer, Zenon DEF IInv, Types, EndInv
<1>3. Range(rows') = Range(rows) \cup {r} /\ End' = Replayed(End, r)
  BY <1>1, <1>2, RowAdded, Zenon
<1>4. End'.tasks = End.tasks \cup ({s} \X te)
  <2>1. Replayed(End, r) = [mem |-> AddSub(End.mem, s), tasks |-> End.tasks \cup ({s} \X te), gone |-> End.gone]
    BY <1>2, ReplayedRow, Zenon
  <2>. HIDE DEF te
  <2>. QED  BY <1>3, <2>1
<1>5. ~expired => te = tm
  BY <1>2, Zenon DEF Taken
<1>6. \A m : m \in te => Matches(s, m)
  BY Zenon DEF Taken
<1>. HIDE DEF te, tm
<1>7. ASSUME NEW t \in Subs, NEW m \in Messages, <<t, m>> \in End'.tasks
      PROVE  Matches(t, m) /\ (~expired' => <<t, m>> \in tasks' \cup notified')
  <2>1. CASE <<t, m>> \in End.tasks
    BY <1>1, <2>1, Zenon DEF MInv
  <2>2. CASE t = s /\ m \in te
    <3>1. Matches(t, m)
      BY <1>6, <2>2, Zenon
    <3>2. ASSUME ~expired' PROVE <<t, m>> \in tasks'
      BY <1>1, <1>5, <2>2, <3>2, Zenon
    <3>. QED  BY <3>1, <3>2, Zenon
  <2>3. <<t, m>> \in End.tasks \/ (t = s /\ m \in te)
    BY <1>4, <1>7
  <2>. QED  BY <2>1, <2>2, <2>3, Zenon
<1>8. \A m \in Messages : \A t \in todo'[m] : Subscribed(t)'
  BY <1>1, <1>3, Zenon DEF MInv, Subscribed
<1>. QED  BY <1>7, <1>8, Zenon DEF MInv

LEMMA CorrelateMInv ==
  ASSUME IInv, MInv, NEW m \in Messages, Correlate(m)
  PROVE  MInv'
<1>1. tasks' = tasks /\ expired' = expired /\ todo \in [Messages -> SUBSET Subs]
  BY Zenon DEF Correlate, IInv, Types
<1>2. ASSUME NEW s \in FindMatches(mem, m),
             notified' = notified \cup {<<s, m>>}, todo' = [todo EXCEPT ![m] = FindMatches(mem, m) \ {s}],
             rows' = rows
      PROVE  MInv'
  <2>1. FindMatches(mem, m) \subseteq mem.subs
    BY Zenon DEF FindMatches
  <2>. DEFINE F == FindMatches(mem, m) \ {s}
  <2>2. F \subseteq mem.subs
    BY <2>1, Zenon
  <2>. HIDE DEF F
  <2>3. ASSUME NEW n \in Messages, NEW t \in todo'[n] PROVE t \in todo[n] \/ t \in mem.subs
    <3>1. todo' = [todo EXCEPT ![m] = F]
      BY <1>2, Zenon DEF F
    <3>2. todo'[n] = IF n = m THEN F ELSE todo[n]
      BY <1>1, <3>1
    <3>. QED  BY <2>2, <2>3, <3>2, Zenon
  <2>4. End'.tasks = End.tasks /\ \A t : Subscribed(t) => Subscribed(t)'
    BY <1>2, RowsKept, Zenon DEF Subscribed
  <2>5. tasks \cup notified \subseteq tasks' \cup notified'
    BY <1>1, <1>2, Zenon
  <2>. QED  BY <1>1, <2>3, <2>4, <2>5, MInvKept, Zenon
<1>3. ASSUME rows' = Append(rows, BufferedRow(m)), UNCHANGED <<notified, todo>>
      PROVE  MInv'
  <2>1. BufferedRow(m) \in Row
    BY RowsDiffer, Zenon
  <2>2. End'.tasks = End.tasks /\ \A t : Subscribed(t) => Subscribed(t)'
    BY <1>3, <2>1, TasksKept, Zenon
  <2>. QED  BY <1>1, <1>3, <2>2, MInvKept, Zenon
<1>. QED  BY <1>2, <1>3, Zenon DEF Correlate, BufferedRow

LEMMA NotifyNextMInv ==
  ASSUME IInv, MInv, NEW m \in Messages, NotifyNext(m)
  PROVE  MInv'
<1>. DEFINE live == todo[m] \cap mem.subs
<1>1. UNCHANGED <<rows, tasks, expired>> /\ todo \in [Messages -> SUBSET Subs]
  BY Zenon DEF NotifyNext, IInv, Types
<1>2. PICK T : todo' = [todo EXCEPT ![m] = T] /\ T \subseteq todo[m] /\ notified \subseteq notified'
  <2>1. CASE \E s \in live : notified' = notified \cup {<<s, m>>} /\ todo' = [todo EXCEPT ![m] = live \ {s}]
    BY <2>1, Zenon
  <2>2. CASE notified' = notified /\ todo' = [todo EXCEPT ![m] = {}]
    <3>. DEFINE none == {}
    <3>1. todo' = [todo EXCEPT ![m] = none] /\ none \subseteq todo[m] /\ notified \subseteq notified'
      BY <2>2, Zenon
    <3>. HIDE DEF none
    <3>. QED  BY <3>1, Zenon
  <2>. QED  BY <2>1, <2>2, Zenon DEF NotifyNext
<1>3. ASSUME NEW n \in Messages, NEW t \in todo'[n] PROVE t \in todo[n]
  <2>1. todo'[n] = IF n = m THEN T ELSE todo[n]
    BY <1>1, <1>2
  <2>. QED  BY <1>2, <1>3, <2>1, Zenon
<1>4. End'.tasks = End.tasks /\ \A t : Subscribed(t) => Subscribed(t)'
  BY <1>1, RowsKept, Zenon DEF Subscribed
<1>5. tasks \cup notified \subseteq tasks' \cup notified'
  BY <1>1, <1>2, Zenon
<1>. QED  BY <1>1, <1>3, <1>4, <1>5, MInvKept, Zenon

LEMMA OtherMInv ==
  ASSUME IInv, MInv,
         \/ \E s \in Subs : Unsubscribe(s)
         \/ \E i \in Instances : CleanUp(i) \/ CleanUpNext(i)
         \/ \E m \in Messages : ForgetTask(m)
         \/ \E s \in Subs, m \in Messages : NotifyTask(s, m)
         \/ \E old \in SUBSET Ttl : CleanUpExpired(old)
         \/ Reload
         \/ UNCHANGED vars
  PROVE  MInv'
<1>1. todo' = todo /\ (expired => expired')
  <2>1. todo' = todo /\ (expired' = expired \/ expired' = TRUE)
    BY Zenon DEF Unsubscribe, CleanUp, CleanUpNext, ForgetTask, NotifyTask, CleanUpExpired, Reload, vars
  <2>. QED  BY <2>1
<1>2. tasks \cup notified \subseteq tasks' \cup notified'
  <2>1. ASSUME NEW s \in Subs, NEW m \in Messages, NotifyTask(s, m)
        PROVE  tasks \cup notified \subseteq tasks' \cup notified'
    BY <2>1 DEF NotifyTask
  <2>2. CASE Reload
    <3>1. tasks \subseteq tasks' /\ notified' = notified
      BY <2>2, Zenon DEF Reload
    <3>. QED  BY <3>1, Zenon
  <2>3. CASE tasks' = tasks /\ notified' = notified
    BY <2>3, Zenon
  <2>. QED
    BY <2>1, <2>2, <2>3, Zenon DEF Unsubscribe, CleanUp, CleanUpNext, ForgetTask, CleanUpExpired, vars
<1>3. End'.tasks = End.tasks /\ \A t : Subscribed(t) => Subscribed(t)'
  <2>1. CASE rows' = rows
    BY <2>1, RowsKept, Zenon DEF Subscribed
  <2>2. CASE \E s \in Subs : Dropped(s)
    BY <2>2, DroppedTasks, Zenon
  <2>3. CASE \E m \in Messages : ForgetTask(m)
    <3>1. PICK m \in Messages : rows' = Append(rows, RemovedRow(m))
      BY <2>3, Zenon DEF ForgetTask, RemovedRow
    <3>2. RemovedRow(m) \in Row
      BY RowsDiffer, Zenon
    <3>. QED  BY <3>1, <3>2, TasksKept, Zenon
  <2>4. \A i \in Instances : cleaning[i] \subseteq Subs
    BY DEF IInv, Types
  <2>. QED
    BY <2>1, <2>2, <2>3, <2>4, Zenon DEF Unsubscribe, CleanUp, CleanUpNext, NotifyTask, CleanUpExpired, Reload, vars
<1>. QED  BY <1>1, <1>2, <1>3, MInvKept, Zenon

LEMMA NextMInv ==
  ASSUME IInv, MInv, [Next]_vars
  PROVE  MInv'
BY SubscribeMInv, CorrelateMInv, NotifyNextMInv, OtherMInv, Zenon DEF Next

LEMMA InitMInv == Init => MInv
<1>. SUFFICES ASSUME Init PROVE MInv
  OBVIOUS
<1>1. End = Nothing
  BY ReplayEmpty, Zenon DEF Init, End
<1>2. End.tasks = {}
  BY <1>1 DEF Nothing
<1>3. \A m \in Messages : todo[m] = {}
  BY DEF Init
<1>. QED  BY <1>2, <1>3, Zenon DEF MInv

(* Rendezvous uses the operators of Correlation. *)
LEMMA SameOperators ==
  /\ \A f : Meeting!Range(f) = Range(f)
  /\ \A f : Meeting!IsInjective(f) <=> IsInjective(f)
  /\ \A b, S : Meeting!Without(b, S) = Without(b, S)
BY Zenon DEF Meeting!Range, Range, Meeting!IsInjective, IsInjective, Meeting!Without, Without

(* Who fits is who matches. *)
LEMMA FitsMatches == \A s \in Subs, m \in Messages : <<s, m>> \in Fits <=> Matches(s, m)
BY DEF Fits

(* The initial states map to initial states. *)
LEMMA InitMeeting == Init => Meeting!Init
<1>. SUFFICES ASSUME Init PROVE Meeting!Init
  OBVIOUS
<1>1. mem.subs = {} /\ mem.buffer = <<>> /\ Range(rows) = {}
  BY DEF Init, Empty, Range
<1>2. Left = {}
  BY <1>1, Zenon DEF Left
<1>3. Sent = {} /\ Owed = [m \in Messages |-> {}]
  BY DEF Init, Sent, Owed
<1>4. tasks \cup notified = {} /\ expired = FALSE
  BY DEF Init
<1>. QED  BY <1>1, <1>2, <1>3, <1>4, Zenon DEF Meeting!Init

(* Whoever has left has a row and no subscription. *)
LEMMA LeftMembers == \A t : t \in Left <=> t \in Subs /\ Subscribed(t) /\ t \notin mem.subs
BY Zenon DEF Left, Subscribed, SubscribedRow

(* Invisible are which of the consumers have been told already, rows other than
   those of subscriptions, and the end of a correlate_message. *)
LEMMA Stutter ==
  ASSUME mem'.subs = mem.subs, mem'.buffer = mem.buffer, \A s \in Subs : Subscribed(s)' <=> Subscribed(s),
         UNCHANGED expired, \A m \in Messages : stage'[m] # "new" <=> stage[m] # "new",
         \A m \in Messages : todo'[m] \cap mem.subs = todo[m] \cap mem.subs,
         tasks' \cup notified' = tasks \cup notified
  PROVE  UNCHANGED Meeting!vars
<1>1. Left' = Left
  BY Zenon DEF Left, Subscribed, SubscribedRow
<1>2. Sent' = Sent
  BY Zenon DEF Sent
<1>3. Owed' = Owed
  BY DEF Owed
<1>. QED  BY <1>1, <1>2, <1>3, Zenon DEF Meeting!vars

(* A new subscription hears what waits for it in the buffer; its id is fresh, so
   no correlate_message has it on its list. *)
LEMMA JoinStep ==
  ASSUME IInv, MInv, NEW s \in Subs, Subscribe(s)
  PROVE  Meeting!Join(s)
<1>. DEFINE tm == Taken(mem, s)
            mine == {m \in Range(mem.buffer) : <<s, m>> \in Fits}
<1>1. /\ mem' = AddSub(mem, s) /\ tasks' = tasks \cup ({s} \X tm) /\ rows' = Append(rows, SubscribedRow(s))
      /\ UNCHANGED <<stage, todo, notified, expired>>
  BY Zenon DEF Subscribe, SubscribedRow
<1>2. ~Subscribed(s)
  BY Zenon DEF Subscribe, Subscribed, SubscribedRow, Range
<1>3. s \notin mem.subs \cup Left
  BY <1>2, LeftMembers, Zenon DEF IInv, SubsInv
<1>4. Good(mem) /\ rows \in Seq(Row) /\ SubscribedRow(s) \in Row
  BY RowsDiffer, Zenon DEF IInv, Types
<1>5. mem'.subs = mem.subs \cup {s} /\ mem'.buffer = Without(mem.buffer, tm)
  BY <1>1, <1>4, AddSubGood, Zenon
<1>6. Range(rows') = Range(rows) \cup {SubscribedRow(s)}
  BY <1>1, <1>4, RowAdded, Zenon
<1>7. mine = tm
  <2>1. Range(mem.buffer) \subseteq Messages
    BY <1>4, MemoryFields, Zenon DEF Good
  <2>. QED  BY <2>1, FitsMatches, Zenon DEF Taken
<1>8. tasks' \cup notified' = (tasks \cup notified) \cup ({s} \X mine)
  <2>. HIDE DEF mine, tm
  <2>. QED  BY <1>1, <1>7
<1>9. Left' = Left
  <2>1. \A t : t \in Left' <=> t \in Subs /\ Subscribed(t)' /\ t \notin mem'.subs
    BY Zenon DEF Left, Subscribed, SubscribedRow
  <2>2. \A t : Subscribed(t)' <=> Subscribed(t) \/ SubscribedRow(t) = SubscribedRow(s)
    BY <1>6, Zenon DEF Subscribed
  <2>3. \A t : SubscribedRow(t) = SubscribedRow(s) => t = s
    BY DEF SubscribedRow
  <2>4. \A t : t \in Left' <=> t \in Left
    BY <1>3, <1>5, <2>1, <2>2, <2>3, LeftMembers, Zenon
  <2>. QED  BY <2>4, Zenon
<1>10. Sent' = Sent
  BY <1>1, Zenon DEF Sent
<1>11. Owed' = Owed
  <2>1. ASSUME NEW m \in Messages PROVE todo'[m] \cap mem'.subs = todo[m] \cap mem.subs
    <3>1. s \notin todo[m] /\ todo' = todo
      BY <1>1, <1>2, Zenon DEF MInv
    <3>. QED  BY <1>5, <3>1
  <2>. QED  BY <2>1 DEF Owed
<1>. HIDE DEF mine, tm
<1>12. mem'.buffer = Meeting!Without(mem.buffer, mine)
  BY <1>5, <1>7, SameOperators, Zenon
<1>13. mine = {m \in Meeting!Range(mem.buffer) : <<s, m>> \in Fits}
  BY SameOperators, Zenon DEF mine
<1>. QED  BY <1>1, <1>3, <1>5, <1>8, <1>9, <1>10, <1>11, <1>12, <1>13, Zenon DEF Meeting!Join

(* Unsubscribing, alone or in the cleanup of an instance: somebody leaves, unless
   the subscription is gone already. *)
LEMMA LeaveStep ==
  ASSUME IInv, NEW s \in Subs, Dropped(s), UNCHANGED <<tasks, stage, todo, notified, expired>>
  PROVE  Meeting!Leave(s) \/ UNCHANGED Meeting!vars
<1>1. \A t : Subscribed(t)' <=> Subscribed(t)
  BY DroppedTasks, Zenon
<1>2. CASE s \in mem.subs
  <2>1. Good(mem) /\ mem' = DropSub(mem, s) /\ Subscribed(s)
    BY <1>2, Zenon DEF IInv, Types, Dropped, SubsInv
  <2>2. mem'.subs = mem.subs \ {s} /\ mem'.buffer = mem.buffer
    BY <2>1, DropSubGood, Zenon
  <2>3. Left' = Left \cup {s}
    <3>1. \A t : t \in Left' <=> t \in Subs /\ Subscribed(t)' /\ t \notin mem'.subs
      BY Zenon DEF Left, Subscribed, SubscribedRow
    <3>2. \A t : t \in Left' <=> t \in Left \cup {s}
      BY <1>1, <2>1, <2>2, <3>1, LeftMembers, Zenon
    <3>. QED  BY <3>2, Zenon
  <2>4. Sent' = Sent
    BY Zenon DEF Sent
  <2>5. Owed' = [m \in Messages |-> Owed[m] \ {s}]
    BY <2>2 DEF Owed
  <2>. QED  BY <1>2, <2>2, <2>3, <2>4, <2>5, Zenon DEF Meeting!Leave
<1>3. CASE s \notin mem.subs
  <2>1. mem' = mem
    BY <1>3, Zenon DEF Dropped, DropSub
  <2>. QED  BY <1>1, <2>1, Stutter, Zenon
<1>. QED  BY <1>2, <1>3, Zenon

(* correlate_message up to its first suspension. *)
LEMMA SendStep ==
  ASSUME IInv, NEW m \in Messages, Correlate(m)
  PROVE  Meeting!Send(m)
<1>. DEFINE all == {s \in mem.subs : <<s, m>> \in Fits}
            longer == Append(mem.buffer, m)
<1>1. stage[m] = "new" /\ stage \in [Messages -> {"new", "notifying", "sent"}] /\ UNCHANGED <<tasks, expired>>
  BY Zenon DEF Correlate, IInv, Types
<1>2. m \notin Sent
  BY <1>1, Zenon DEF Sent
<1>3. ASSUME NEW v \in {"notifying", "sent"}, stage' = [stage EXCEPT ![m] = v]
      PROVE  Sent' = Sent \cup {m}
  BY <1>1, <1>3 DEF Sent
<1>4. Good(mem) /\ mem.subs \subseteq Subs /\ mem.buffer \in Seq(Messages)
  BY MemoryFields, Zenon DEF IInv, Types, Good
<1>5. FindMatches(mem, m) = all
  <2>1. \A s : s \in FindMatches(mem, m) <=> s \in mem.subs /\ Matches(s, m)
    BY <1>4, MatchIndexed, Zenon
  <2>. QED  BY <1>4, <2>1, FitsMatches, Zenon
<1>6. ASSUME NEW s \in all,
             notified' = notified \cup {<<s, m>>}, todo' = [todo EXCEPT ![m] = all \ {s}],
             stage' = [stage EXCEPT ![m] = "notifying"], UNCHANGED <<mem, rows>>
      PROVE  Meeting!Send(m)
  <2>1. tasks' \cup notified' = (tasks \cup notified) \cup {<<s, m>>}
    BY <1>1, <1>6, Zenon
  <2>2. Owed' = [Owed EXCEPT ![m] = all \ {s}]
    <3>1. todo \in [Messages -> SUBSET Subs] /\ all \ {s} \subseteq mem.subs
      BY Zenon DEF IInv, Types
    <3>. DEFINE T == all \ {s}
    <3>. HIDE DEF T, all
    <3>2. todo' = [todo EXCEPT ![m] = T] /\ T \subseteq mem.subs /\ mem' = mem
      BY <1>6, <3>1, Zenon DEF T
    <3>3. Owed' = [Owed EXCEPT ![m] = T]
      BY <3>1, <3>2, Zenon DEF Owed
    <3>. QED  BY <3>3, Zenon DEF T
  <2>3. Left' = Left
    BY <1>6, Zenon DEF Left
  <2>4. Sent' = Sent \cup {m}
    BY <1>3, <1>6, Zenon
  <2>5. s \in all /\ mem' = mem
    BY <1>6, Zenon
  <2>. QED  BY <1>1, <1>2, <2>1, <2>2, <2>3, <2>4, <2>5, Zenon DEF Meeting!Send
<1>7. ASSUME all = {}, mem' = AddMessage(mem, m), rows' = Append(rows, BufferedRow(m)),
             stage' = [stage EXCEPT ![m] = "sent"], UNCHANGED <<notified, todo>>
      PROVE  Meeting!Send(m)
  <2>2. mem'.subs = mem.subs /\ mem'.buffer = IF Len(longer) > MaxBuffer THEN Tail(longer) ELSE longer
    <3>1. mem.buffer \in Seq(Messages) /\ mem = [subs |-> mem.subs, byName |-> mem.byName, byInstance |-> mem.byInstance, buffer |-> mem.buffer]
      BY <1>4, MemoryFields, Zenon DEF Good
    <3>2. Len(longer) = Len(mem.buffer) + 1
      BY <3>1
    <3>. HIDE DEF longer
    <3>3. mem' = [mem EXCEPT !.buffer = IF Full(mem) THEN Tail(longer) ELSE longer]
      BY <1>7, Zenon DEF AddMessage, longer
    <3>4. mem'.subs = mem.subs /\ mem'.buffer = IF Full(mem) THEN Tail(longer) ELSE longer
      BY <3>1, <3>3
    <3>. QED  BY <3>2, <3>4 DEF Full
  <2>3. \A t : Subscribed(t)' <=> Subscribed(t)
    <3>1. BufferedRow(m) \in Row
      BY RowsDiffer, Zenon
    <3>. QED  BY <1>7, <3>1, TasksKept, Zenon
  <2>4. Left' = Left
    <3>1. \A t : t \in Left' <=> t \in Subs /\ Subscribed(t)' /\ t \notin mem'.subs
      BY Zenon DEF Left, Subscribed, SubscribedRow
    <3>2. \A t : t \in Left' <=> t \in Left
      BY <2>2, <2>3, <3>1, LeftMembers, Zenon
    <3>. QED  BY <3>2, Zenon
  <2>5. Sent' = Sent \cup {m}
    BY <1>3, <1>7, Zenon
  <2>6. Owed' = Owed
    BY <1>7, <2>2, Zenon DEF Owed
  <2>. QED  BY <1>1, <1>2, <1>7, <2>2, <2>4, <2>5, <2>6, Zenon DEF Meeting!Send
<1>. HIDE DEF all
<1>. QED  BY <1>5, <1>6, <1>7, Zenon DEF Correlate, BufferedRow

(* The loop of correlate_message goes on: one more of those who are still
   subscribed hears the message, or nobody is left. *)
LEMMA PassStep ==
  ASSUME IInv, NEW m \in Messages, NotifyNext(m)
  PROVE  Meeting!Pass(m) \/ UNCHANGED Meeting!vars
<1>. DEFINE live == todo[m] \cap mem.subs
<1>1. /\ UNCHANGED <<mem, rows, tasks, expired>> /\ stage[m] = "notifying"
      /\ todo \in [Messages -> SUBSET Subs] /\ stage \in [Messages -> {"new", "notifying", "sent"}]
  BY Zenon DEF NotifyNext, IInv, Types
<1>2. Owed[m] = live
  BY DEF Owed
<1>3. ASSUME NEW s \in live, notified' = notified \cup {<<s, m>>}, todo' = [todo EXCEPT ![m] = live \ {s}],
             UNCHANGED stage
      PROVE  Meeting!Pass(m)
  <2>1. tasks' \cup notified' = (tasks \cup notified) \cup {<<s, m>>}
    BY <1>1, <1>3, Zenon
  <2>2. Owed' = [Owed EXCEPT ![m] = Owed[m] \ {s}]
    BY <1>1, <1>2, <1>3, Zenon DEF Owed
  <2>3. Left' = Left /\ Sent' = Sent
    BY <1>1, <1>3, Zenon DEF Left, Sent
  <2>4. s \in Owed[m]
    BY <1>2, <1>3, Zenon
  <2>. QED  BY <1>1, <2>1, <2>2, <2>3, <2>4, Zenon DEF Meeting!Pass
<1>4. ASSUME live = {}, stage' = [stage EXCEPT ![m] = "sent"], todo' = [todo EXCEPT ![m] = {}], UNCHANGED notified
      PROVE  UNCHANGED Meeting!vars
  <2>1. \A n \in Messages : todo'[n] \cap mem.subs = todo[n] \cap mem.subs
    BY <1>1, <1>4
  <2>2. \A n \in Messages : stage'[n] # "new" <=> stage[n] # "new"
    BY <1>1, <1>4
  <2>3. \A s \in Subs : Subscribed(s)' <=> Subscribed(s)
    BY <1>1, Zenon DEF Subscribed
  <2>. QED  BY <1>1, <1>4, <2>1, <2>2, <2>3, Stutter, Zenon
<1>. QED  BY <1>3, <1>4, Zenon DEF NotifyNext

(* cleanup_expired_messages. *)
LEMMA FadeStep ==
  ASSUME IInv, NEW old \in SUBSET Ttl, CleanUpExpired(old)
  PROVE  Meeting!Fade(old)
<1>1. /\ mem' = [mem EXCEPT !.buffer = Without(@, old)] /\ expired' = TRUE
      /\ UNCHANGED <<rows, tasks, stage, todo, notified>>
  BY Zenon DEF CleanUpExpired
<1>2. Good(mem) /\ mem.buffer = mem.buffer
  BY Zenon DEF IInv, Types
<1>3. mem'.subs = mem.subs
  BY <1>1, <1>2, WithoutGood, Zenon
<1>4. mem'.buffer = Meeting!Without(mem.buffer, old)
  <2>1. mem = [subs |-> mem.subs, byName |-> mem.byName, byInstance |-> mem.byInstance, buffer |-> mem.buffer]
    BY <1>2, MemoryFields, Zenon DEF Good
  <2>2. mem'.buffer = Without(mem.buffer, old)
    BY <1>1, <2>1
  <2>. QED  BY <2>2, SameOperators, Zenon
<1>5. Left' = Left /\ Sent' = Sent /\ Owed' = Owed
  BY <1>1, <1>3, Zenon DEF Left, Sent, Owed
<1>6. tasks' \cup notified' = tasks \cup notified
  BY <1>1, Zenon
<1>. QED  BY <1>1, <1>3, <1>4, <1>5, <1>6, Zenon DEF Meeting!Fade

(* A reload is invisible as long as nothing has expired.  Afterwards it may bring
   messages back, to nobody but their one consumer. *)
LEMMA ReturnStep ==
  ASSUME IInv, MInv, Reload
  PROVE  Meeting!Return \/ UNCHANGED Meeting!vars
<1>1. /\ mem' = End.mem /\ tasks' = tasks \cup End.tasks
      /\ UNCHANGED <<rows, stage, todo, notified, expired>>
  BY Zenon DEF Reload, End
<1>2. /\ Good(End.mem) /\ End.mem.subs = mem.subs /\ End.tasks \subseteq Subs \X Messages
      /\ ~expired => End.mem.buffer = mem.buffer
  BY Zenon DEF IInv, EndInv
<1>3. \A s \in Subs : Subscribed(s)' <=> Subscribed(s)
  BY <1>1, Zenon DEF Subscribed
<1>4. ASSUME ~expired PROVE UNCHANGED Meeting!vars
  <2>1. ASSUME NEW p \in End.tasks PROVE p \in tasks \cup notified
    <3>1. PICK s \in Subs, m \in Messages : p = <<s, m>>
      BY <1>2, <2>1
    <3>. QED  BY <1>4, <2>1, <3>1, Zenon DEF MInv
  <2>2. tasks' \cup notified' = tasks \cup notified
    BY <1>1, <2>1, Zenon
  <2>. QED  BY <1>1, <1>2, <1>3, <1>4, <2>2, Stutter, Zenon
<1>5. ASSUME expired PROVE Meeting!Return
  <2>1. End.mem.buffer \in Seq(Messages) /\ Len(End.mem.buffer) <= MaxBuffer /\ IsInjective(End.mem.buffer)
    BY <1>2, MemoryFields, Zenon DEF Good
  <2>2. ASSUME NEW m \in Messages, Buffered(m) PROVE m \in Sent
    <3>1. MessageInv(m)
      BY Zenon DEF IInv
    <3>2. stage[m] = "sent"
      BY <2>2, <3>1, Zenon DEF MessageInv
    <3>. QED  BY <3>2 DEF Sent
  <2>3. End.mem.buffer \in Seq(Sent)
    <3>1. ASSUME NEW i \in DOMAIN End.mem.buffer PROVE End.mem.buffer[i] \in Sent
      <4>. DEFINE m == End.mem.buffer[i]
      <4>1. m \in Messages
        BY <2>1
      <4>2. InEnd(m)
        BY Zenon DEF InEnd, Range
      <4>. HIDE DEF m
      <4>3. Buffered(m)
        BY <4>1, <4>2, Zenon DEF IInv, MessageInv
      <4>. QED  BY <2>2, <4>1, <4>3, Zenon DEF m
    <3>. QED  BY <2>1, <3>1
  <2>4. \A s \in mem.subs, m \in Range(End.mem.buffer) : <<s, m>> \notin Fits
    <3>1. Range(End.mem.buffer) \subseteq Messages /\ mem.subs \subseteq Subs
      BY <1>2, MemoryFields, Zenon DEF Good
    <3>. QED  BY <1>2, <3>1, FitsMatches, Zenon DEF Good
  <2>5. tasks \cup notified \subseteq tasks' \cup notified'
    BY <1>1, Zenon
  <2>6. ASSUME NEW s \in Subs, NEW m \in Messages, <<s, m>> \in (tasks' \cup notified') \ (tasks \cup notified)
        PROVE  m \in Sent /\ <<s, m>> \in Fits /\ \A t \in Subs : <<t, m>> \in tasks' \cup notified' => s = t
    <3>1. <<s, m>> \in End.tasks
      BY <1>1, <2>6, Zenon
    <3>2. MessageInv(m)
      BY Zenon DEF IInv
    <3>3. Buffered(m) /\ Consumes(s, m)
      BY <3>1, <3>2, Zenon DEF MessageInv, Consumes
    <3>4. \A t \in Subs : <<t, m>> \in tasks' \cup notified' => Consumes(t, m)
      BY <1>1, Zenon DEF Consumes
    <3>5. \A t \in Subs : Consumes(t, m) => s = t
      BY <3>2, <3>3, Zenon DEF MessageInv
    <3>6. <<s, m>> \in Fits
      BY <3>1, FitsMatches, Zenon DEF MInv
    <3>. QED  BY <2>2, <3>3, <3>4, <3>5, <3>6, Zenon
  <2>7. mem'.subs = mem.subs /\ mem'.buffer = End.mem.buffer
    BY <1>1, <1>2, Zenon
  <2>8. Left' = Left /\ Sent' = Sent /\ Owed' = Owed
    BY <1>1, <2>7, Zenon DEF Left, Sent, Owed
  <2>9. /\ mem'.buffer \in Seq(Sent) /\ Len(mem'.buffer) <= MaxBuffer /\ Meeting!IsInjective(mem'.buffer)
        /\ \A s \in mem.subs, m \in Meeting!Range(mem'.buffer) : <<s, m>> \notin Fits
    BY <2>1, <2>3, <2>4, <2>7, SameOperators, Zenon
  <2>10. \A s \in Subs, m \in Messages :
           <<s, m>> \in (tasks' \cup notified') \ (tasks \cup notified) =>
             m \in Sent /\ <<s, m>> \in Fits /\ \A t \in Subs : <<t, m>> \in tasks' \cup notified' => s = t
    BY <2>6, Zenon
  <2>. QED  BY <1>1, <1>5, <2>5, <2>7, <2>8, <2>9, <2>10, Zenon DEF Meeting!Return
<1>. QED  BY <1>4, <1>5, Zenon

(* The start of a cleanup and the tasks of a consumption are invisible. *)
LEMMA OtherSteps ==
  ASSUME IInv,
         \/ \E i \in Instances : CleanUp(i)
         \/ \E m \in Messages : ForgetTask(m)
         \/ \E s \in Subs, m \in Messages : NotifyTask(s, m)
         \/ UNCHANGED vars
  PROVE  UNCHANGED Meeting!vars
<1>1. UNCHANGED <<mem, stage, todo, expired>>
  BY Zenon DEF CleanUp, ForgetTask, NotifyTask, vars
<1>2. tasks' \cup notified' = tasks \cup notified
  <2>1. ASSUME NEW s \in Subs, NEW m \in Messages, NotifyTask(s, m)
        PROVE  tasks' \cup notified' = tasks \cup notified
    BY <2>1 DEF NotifyTask
  <2>2. CASE tasks' = tasks /\ notified' = notified
    BY <2>2, Zenon
  <2>. QED  BY <2>1, <2>2, Zenon DEF CleanUp, ForgetTask, vars
<1>3. \A t : Subscribed(t)' <=> Subscribed(t)
  <2>1. CASE rows' = rows
    BY <2>1, Zenon DEF Subscribed
  <2>2. ASSUME NEW m \in Messages, ForgetTask(m)
        PROVE  \A t : Subscribed(t)' <=> Subscribed(t)
    <3>1. rows' = Append(rows, RemovedRow(m)) /\ RemovedRow(m) \in Row
      BY <2>2, RowsDiffer, Zenon DEF ForgetTask, RemovedRow
    <3>. QED  BY <3>1, TasksKept, Zenon
  <2>. QED  BY <2>1, <2>2, Zenon DEF CleanUp, NotifyTask, vars
<1>. QED  BY <1>1, <1>2, <1>3, Stutter, Zenon

(* Every step maps to a step of Rendezvous or to none. *)
LEMMA StepMeeting ==
  ASSUME IInv, MInv, [Next]_vars
  PROVE  [Meeting!Next]_(Meeting!vars)
<1>1. ASSUME NEW s \in Subs, Unsubscribe(s)
      PROVE  Meeting!Leave(s) \/ UNCHANGED Meeting!vars
  BY <1>1, LeaveStep, Zenon DEF Unsubscribe
<1>2. ASSUME NEW i \in Instances, CleanUpNext(i)
      PROVE  \E s \in Subs : Meeting!Leave(s) \/ UNCHANGED Meeting!vars
  <2>1. PICK s \in cleaning[i] : Dropped(s) /\ UNCHANGED <<tasks, stage, todo, notified, expired>>
    BY <1>2, Zenon DEF CleanUpNext
  <2>2. s \in Subs
    BY <2>1 DEF IInv, Types
  <2>. QED  BY <2>1, <2>2, LeaveStep, Zenon
<1>. QED  BY <1>1, <1>2, JoinStep, SendStep, PassStep, FadeStep, ReturnStep, OtherSteps, Zenon DEF Next, Meeting!Next

(* The correlation engine, with its tasks, its history rows and a reload at any
   moment, implements Rendezvous, in which a message is heard or kept in one
   step and nothing is reloaded. *)
THEOREM ImplementsRendezvous == Spec => RendezvousSpec
<1>1. Spec => [](IInv /\ MInv)
  <2>1. (IInv /\ MInv) /\ [Next]_vars => MInv'
    BY NextMInv, Zenon
  <2>. QED  BY <2>1, InitMInv, Invariance, PTL DEF Spec
<1>. QED  BY <1>1, InitMeeting, StepMeeting, PTL DEF Spec, RendezvousSpec, Meeting!Spec
=============================================================================
