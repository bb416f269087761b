--------------------------- MODULE MhTimerProofs ---------------------------
(***************************************************************************)
(* Theorems about the min-heap timer manager, for any number of callers,   *)
(* workers and timers and any intervals.                                   *)
(***************************************************************************)
EXTENDS MhTimer, NatLemmas, FiniteSetTheorems

-----------------------------------------------------------------------------
(* The heap as an array: slots, their parents and the way to the root.     *)
LEMMA ParentFacts ==
  ASSUME NEW i \in Nat \ {0}
  PROVE  Parent(i) \in Nat /\ Parent(i) < i
BY DEF Parent

PathBody(f, s) == [i \in 0 .. s |-> IF i = 0 THEN {0} ELSE {i} \cup f[Parent(i)]]
Path(s) == CHOOSE f : f = PathBody(f, s)

(* What Above computes, for each slot on the way.                          *)
LEMMA PathSteps ==
  ASSUME NEW s \in Nat
  PROVE  /\ Above(s) = Path(s)[s]
         /\ \A i \in 0 .. s : Path(s)[i] = IF i = 0 THEN {0} ELSE {i} \cup Path(s)[Parent(i)]
<1>. DEFINE D == 0 .. s
            R == SUBSET D
            base == [i \in D |-> {0}]
            g == [p \in D \X R |-> {p[1]} \cup p[2]]
            nxt == [i \in D |-> IF i = 0 THEN 0 ELSE Parent(i)]
            m == [i \in D |-> i]
<1>1. Descends(D, {0}, nxt, m, s)
  BY ParentFacts DEF Descends
<1>2. base \in [D -> R] /\ g \in [D \X R -> R]
  OBVIOUS
<1>3. \E f : f = PathBody(f, s)
  <2>1. PICK f \in [D -> R] : Recurses(f, D, {0}, nxt, base, g)
    <3>. HIDE DEF base, g, nxt, m, R, D
    <3>. QED
      BY <1>1, <1>2, RecursionExists
  <2>2. \A i \in D : f[i] = IF i = 0 THEN {0} ELSE {i} \cup f[Parent(i)]
    <3>1. ASSUME NEW i \in D, i # 0 PROVE f[i] = {i} \cup f[Parent(i)]
      <4>1. nxt[i] = Parent(i) /\ Parent(i) \in D /\ i \in D
        BY <3>1, ParentFacts
      <4>2. f[i] = g[<<i, f[nxt[i]]>>]
        BY <2>1, <3>1 DEF Recurses
      <4>3. f[Parent(i)] \in R
        BY <4>1
      <4>. QED
        BY <4>1, <4>2, <4>3
    <3>2. 0 \in D => f[0] = {0}
      BY <2>1 DEF Recurses
    <3>. QED
      BY <3>1, <3>2
  <2>3. f = [i \in D |-> f[i]]
    OBVIOUS
  <2>4. f = PathBody(f, s)
    BY <2>2, <2>3 DEF PathBody
  <2>. QED
    BY <2>4
<1>4. Path(s) = PathBody(Path(s), s)
  BY <1>3, Zenon DEF Path
<1>5. Above(s) = Path(s)[s]
  BY Zenon DEF Above, Path, PathBody
<1>. HIDE DEF Path
<1>. QED
  BY <1>4, <1>5 DEF PathBody

(* The way from s to the root: it goes from parent to parent, and is one.  *)
OnWay(A, s) ==
  /\ A \subseteq 0 .. s /\ 0 \in A /\ s \in A
  /\ \A i \in A \ {0} : Parent(i) \in A
  /\ \A i, j \in A : i < j => i <= Parent(j)

LEMMA AboveIsWay ==
  ASSUME NEW s \in Nat
  PROVE  OnWay(Above(s), s)
<1>. DEFINE up == Path(s)
            Good == {k \in 0 .. s : \A i \in 0 .. s : i <= k => OnWay(up[i], i)}
<1>0. up[0] = {0} /\ \A i \in 0 .. s : i # 0 => up[i] = {i} \cup up[Parent(i)]
  <2>1. \A i \in 0 .. s : up[i] = IF i = 0 THEN {0} ELSE {i} \cup up[Parent(i)]
    BY PathSteps
  <2>2. 0 \in 0 .. s
    OBVIOUS
  <2>. QED
    BY <2>1, <2>2, Zenon
<1>. HIDE DEF up
<1>1. 0 \in Good
  BY <1>0 DEF OnWay
<1>2. ASSUME NEW k \in 0 .. s, k < s, k \in Good PROVE k + 1 \in Good
  <2>1. ASSUME NEW i \in 0 .. s, i <= k + 1 PROVE OnWay(up[i], i)
    <3>1. CASE i <= k
      BY <1>2, <3>1
    <3>2. CASE i = k + 1
      <4>1. i \in Nat \ {0} /\ up[i] = {i} \cup up[Parent(i)]
        BY <1>0, <3>2
      <4>2. Parent(i) \in Nat /\ Parent(i) < i
        BY <4>1, ParentFacts
      <4>3. OnWay(up[Parent(i)], Parent(i))
        BY <1>2, <3>2, <4>2
      <4>4. up[i] \subseteq 0 .. i /\ 0 \in up[i] /\ i \in up[i] /\ Parent(i) \in up[i]
        BY <4>1, <4>2, <4>3 DEF OnWay
      <4>5. \A j \in up[i] \ {0} : Parent(j) \in up[i]
        BY <4>1, <4>3, <4>4 DEF OnWay
      <4>6. \A h, j \in up[i] : h < j => h <= Parent(j)
        BY <4>1, <4>2, <4>3 DEF OnWay
      <4>. QED
        BY <4>4, <4>5, <4>6 DEF OnWay
    <3>. QED
      BY <2>1, <3>1, <3>2
  <2>2. k + 1 \in 0 .. s
    BY <1>2
  <2>. QED
    BY <2>1, <2>2
<1>3. s \in Good
  <2>1. s \in 0 .. s
    OBVIOUS
  <2>. HIDE DEF Good
  <2>. QED
    BY <1>1, <1>2, <2>1, UpTo
<1>4. OnWay(up[s], s)
  BY <1>3
<1>. QED
  BY <1>4, PathSteps DEF up

(***************************************************************************)
(* Where a timer that climbs comes to rest: below a parent that expires    *)
(* before it, or at the root, past parents that do not.                    *)
(***************************************************************************)
RestBody(f, q, time, s, t) ==
  [i \in 0 .. s |-> IF i = 0 \/ time[q[Parent(i)]] < time[t] THEN i ELSE f[Parent(i)]]

LEMMA PlaceIsRest ==
  ASSUME NEW q, NEW time, NEW s \in Nat, NEW t
  PROVE  LET p == Place(q, time, s, t)
         IN  /\ p \in Above(s)
             /\ p # 0 => time[q[Parent(p)]] < time[t]
             /\ \A i \in Above(s) : i > p => ~ (time[q[Parent(i)]] < time[t])
<1>. DEFINE D == 0 .. s
            Stop == {i \in D : i = 0 \/ time[q[Parent(i)]] < time[t]}
            nxt == [i \in D |-> IF i = 0 THEN 0 ELSE Parent(i)]
            m == [i \in D |-> i]
            rest == CHOOSE f : f = RestBody(f, q, time, s, t)
            P == {i \in Above(s) : \A j \in Above(s) : j > i => j \notin Stop}
<1>0. \A i \in D \ {0} : nxt[i] = Parent(i) /\ Parent(i) \in D /\ Parent(i) < i
  BY ParentFacts
<1>1. Descends(D, Stop, nxt, m, s)
  <2>1. nxt \in [D -> D]
    BY <1>0
  <2>. QED
    BY <1>0, <2>1 DEF Descends
<1>2. \E f : f = RestBody(f, q, time, s, t)
  <2>1. PICK f \in [D -> D] : Iterates(f, D, Stop, nxt)
    <3>. HIDE DEF D, Stop, nxt, m
    <3>. QED
      BY <1>1, LoopExists
  <2>2. \A i \in D : f[i] = IF i = 0 \/ time[q[Parent(i)]] < time[t] THEN i ELSE f[Parent(i)]
    BY <1>0, <2>1 DEF Iterates
  <2>3. f = [i \in D |-> f[i]]
    BY <2>1 DEF Iterates
  <2>. QED
    BY <2>2, <2>3 DEF RestBody
<1>3. rest = RestBody(rest, q, time, s, t)
  BY <1>2, Zenon
<1>4. Place(q, time, s, t) = rest[s]
  BY Zenon DEF Place, RestBody
<1>. HIDE DEF rest
<1>5. rest = [i \in D |-> IF i \in Stop THEN i ELSE rest[nxt[i]]]
  BY <1>0, <1>3 DEF RestBody
<1>6. Iterates(rest, D, Stop, nxt)
  BY <1>5 DEF Iterates
<1>7. Closed(P, D, Stop, nxt)
  <2>1. OnWay(Above(s), s)
    BY AboveIsWay
  <2>2. Above(s) \subseteq D
    BY <2>1 DEF OnWay
  <2>3. ASSUME NEW i \in P, i \notin Stop PROVE nxt[i] \in P
    <3>1. i \in D /\ i # 0
      BY <2>2, <2>3
    <3>2. nxt[i] = Parent(i) /\ Parent(i) \in Above(s) /\ Parent(i) < i /\ Parent(i) \in D
      BY <1>0, <2>1, <2>3, <3>1 DEF OnWay
    <3>3. ASSUME NEW j \in Above(s), j > Parent(i) PROVE j \notin Stop
      <4>1. j >= i
        BY <2>1, <2>2, <2>3, <3>1, <3>2, <3>3 DEF OnWay
      <4>. QED
        BY <2>2, <2>3, <3>1, <4>1
    <3>. QED
      BY <3>2, <3>3
  <2>. QED
    BY <2>2, <2>3 DEF Closed
<1>8. s \in P
  BY AboveIsWay DEF OnWay
<1>9. rest[s] \in P \cap Stop
  <2>. HIDE DEF D, Stop, nxt, m, P
  <2>. QED
    BY <1>1, <1>6, <1>7, <1>8, LoopKeeps
<1>. QED
  <2>1. Above(s) \subseteq D
    BY AboveIsWay DEF OnWay
  <2>. QED
    BY <1>4, <1>9, <2>1

(* A slot of the way, the last apart, has a child on it.                   *)
LEMMA ChildOnWay ==
  ASSUME NEW n \in Nat, NEW A, OnWay(A, n), NEW s \in A, s < n
  PROVE  \E j \in A : j > s /\ Parent(j) = s
<1>. DEFINE Later == {j \in A : j > s}
<1>1. Later \in SUBSET Nat /\ n \in Later /\ s \in Nat
  <2>1. A \subseteq 0 .. n /\ n \in A
    BY DEF OnWay
  <2>2. A \subseteq Nat
    BY <2>1
  <2>. QED
    BY <2>1, <2>2
<1>2. PICK j \in Later : \A i \in Later : j <= i
  <2>. HIDE DEF Later
  <2>. QED
    BY <1>1, LeastNat
<1>3. j \in Nat \ {0} /\ j \in A /\ j > s
  BY <1>1, <1>2
<1>4. Parent(j) \in A /\ Parent(j) < j /\ Parent(j) \in Nat
  BY <1>3, ParentFacts DEF OnWay
<1>5. s <= Parent(j)
  BY <1>3 DEF OnWay
<1>6. ~ (Parent(j) > s)
  <2>. SUFFICES ASSUME Parent(j) > s PROVE FALSE
    OBVIOUS
  <2>1. Parent(j) \in Later
    BY <1>4
  <2>2. j <= Parent(j)
    BY <1>2, <2>1
  <2>. QED
    BY <1>3, <1>4, <2>2
<1>. QED
  BY <1>1, <1>3, <1>4, <1>5, <1>6

(***************************************************************************)
(* r is q with t put in at slot p, after the timers on the way A from slot *)
(* n to p have come down.                                                  *)
(***************************************************************************)
CameDown(r, q, time, n, t, p, A) ==
  /\ OnWay(A, n) /\ p \in A /\ r \in [Slot -> Cell \cup {Null}]
  /\ r[p] = t
  /\ p # 0 => time[q[Parent(p)]] < time[t]
  /\ \A s \in A : s > p => /\ r[s] = q[Parent(s)]
                           /\ Parent(s) \in A /\ Parent(s) >= p /\ Parent(s) < s
                           /\ ~ (time[q[Parent(s)]] < time[t])
  /\ \A s \in Slot : s # p /\ ~ (s \in A /\ s > p) => r[s] = q[s]

LEMMA PutInCameDown ==
  ASSUME NEW q \in Queues, NEW time, NEW n \in Slot, NEW t \in Cell
  PROVE  \E p, A : CameDown(PutIn(q, time, n, t), q, time, n, t, p, A)
<1>. DEFINE r == PutIn(q, time, n, t)
            p == Place(q, time, n, t)
            A == Above(n)
<1>1. n \in Nat /\ OnWay(A, n)
  BY HeapAssumption, AboveIsWay DEF Slot
<1>2. /\ p \in A /\ (p # 0 => time[q[Parent(p)]] < time[t])
      /\ \A i \in A : i > p => ~ (time[q[Parent(i)]] < time[t])
  BY <1>1, PlaceIsRest
<1>3. r = [s \in Slot |-> IF s = p THEN t
                          ELSE IF s \in A /\ s > p THEN q[Parent(s)] ELSE q[s]]
  BY DEF PutIn
<1>. HIDE DEF r, p, A
<1>4. A \subseteq Slot /\ A \subseteq Nat
  BY <1>1, HeapAssumption DEF OnWay, Slot
<1>5. ASSUME NEW s \in A, s > p
      PROVE  Parent(s) \in A /\ Parent(s) >= p /\ Parent(s) < s
  <2>1. p \in Nat /\ s \in Nat \ {0}
    BY <1>2, <1>4, <1>5
  <2>. QED
    BY <1>1, <1>2, <1>5, <2>1, ParentFacts DEF OnWay
<1>6. r \in [Slot -> Cell \cup {Null}]
  BY <1>3, <1>4, <1>5 DEF Queues
<1>7. \A s \in A : s > p => r[s] = q[Parent(s)]
  BY <1>2, <1>3, <1>4
<1>8. \A s \in Slot : s # p /\ ~ (s \in A /\ s > p) => r[s] = q[s]
  BY <1>3
<1>9. r[p] = t
  BY <1>2, <1>3, <1>4
<1>10. CameDown(r, q, time, n, t, p, A)
  BY <1>1, <1>2, <1>5, <1>6, <1>7, <1>8, <1>9 DEF CameDown
<1>. QED
  BY <1>10 DEF r

(* The first n slots of q hold timers, and the others nothing; no two hold *)
(* the same; and no timer expires before its parent.                       *)
Filled(q, n) == \A s \in Slot : q[s] # Null <=> s < n
Distinct(q, n) == \A s, u \in 0 .. n - 1 : q[s] = q[u] => s = u
Ordered(q, time, n) == \A s \in 1 .. n - 1 : time[q[Parent(s)]] <= time[q[s]]

(* A timer that is put in is counted, whatever the times are.              *)
LEMMA PutInFills ==
  ASSUME NEW q \in Queues, NEW time, NEW n \in Slot, NEW t \in Cell, Filled(q, n)
  PROVE  /\ PutIn(q, time, n, t) \in Queues
         /\ Filled(PutIn(q, time, n, t), n + 1)
         /\ Held(PutIn(q, time, n, t)) = Held(q) \cup {t}
<1>. DEFINE r == PutIn(q, time, n, t)
<1>1. PICK p, A : CameDown(r, q, time, n, t, p, A)
  <2>. HIDE DEF r
  <2>. QED
    BY PutInCameDown DEF r
<1>. HIDE DEF r
<1>2. n \in Nat /\ A \subseteq 0 .. n /\ A \subseteq Slot /\ p \in 0 .. n /\ p \in Slot /\ n < MaxTimers
  BY <1>1, HeapAssumption DEF CameDown, OnWay, Slot
<1>3. r \in Queues
  BY <1>1 DEF CameDown, Queues
<1>4. ASSUME NEW s \in Slot PROVE r[s] # Null <=> s < n + 1
  <2>0. s \in Int
    BY <1>4 DEF Slot
  <2>1. CASE s = p
    BY <1>1, <1>2, <2>1, HeapAssumption DEF CameDown
  <2>2. CASE s \in A /\ s > p
    <3>1. r[s] = q[Parent(s)] /\ Parent(s) \in A /\ Parent(s) < s
      BY <1>1, <2>2 DEF CameDown
    <3>2. Parent(s) \in Slot /\ Parent(s) < n /\ s < n + 1
      <4>1. s \in 0 .. n /\ Parent(s) \in 0 .. n /\ Parent(s) \in Slot
        BY <1>2, <2>2, <3>1
      <4>. QED
        BY <1>2, <3>1, <4>1
    <3>. QED
      BY <3>1, <3>2 DEF Filled
  <2>3. CASE s # p /\ ~ (s \in A /\ s > p)
    <3>1. r[s] = q[s]
      BY <1>1, <2>3 DEF CameDown
    <3>2. s # n
      BY <1>1, <1>2, <2>3 DEF CameDown, OnWay
    <3>. QED
      BY <1>2, <2>0, <3>1, <3>2 DEF Filled
  <2>. QED
    BY <2>1, <2>2, <2>3
<1>5. Held(r) \subseteq Held(q) \cup {t}
  <2>1. ASSUME NEW s \in Slot PROVE r[s] = t \/ \E u \in Slot : r[s] = q[u]
    BY <1>1, <1>2 DEF CameDown
  <2>. QED
    BY <2>1 DEF Held
<1>6. ASSUME NEW a \in Held(q) PROVE a \in Held(r)
  <2>1. PICK s \in Slot : a = q[s] /\ a # Null
    BY DEF Held
  <2>2. s < n /\ s \in Int
    BY <2>1 DEF Filled, Slot
  <2>3. CASE s \in A /\ s >= p
    <3>1. PICK j \in A : j > s /\ Parent(j) = s
      <4>1. OnWay(A, n)
        BY <1>1 DEF CameDown
      <4>. QED
        BY <1>2, <2>2, <2>3, <4>1, ChildOnWay
    <3>2. r[j] = q[s] /\ j \in Slot
      BY <1>1, <1>2, <2>2, <2>3, <3>1 DEF CameDown
    <3>. QED
      BY <2>1, <3>2 DEF Held
  <2>4. CASE ~ (s \in A /\ s >= p)
    <3>1. r[s] = q[s]
      BY <1>1, <1>2, <2>2, <2>4 DEF CameDown
    <3>. QED
      BY <2>1, <3>1 DEF Held
  <2>. QED
    BY <2>3, <2>4
<1>7. t \in Held(r)
  BY <1>1, <1>2, HeapAssumption DEF CameDown, Held
<1>8. Held(r) = Held(q) \cup {t}
  BY <1>5, <1>6, <1>7
<1>. QED
  BY <1>3, <1>4, <1>8 DEF r, Filled

(***************************************************************************)
(* A timer that is not in a sound heap keeps it sound: what ti_push and    *)
(* repush do for any number of timers.                                     *)
(***************************************************************************)
LEMMA PutInOrders ==
  ASSUME NEW q \in Queues, NEW time \in [Cell -> Int], NEW n \in Slot, NEW t \in Cell \ Held(q),
         Filled(q, n), Distinct(q, n), Ordered(q, time, n)
  PROVE  /\ Distinct(PutIn(q, time, n, t), n + 1)
         /\ Ordered(PutIn(q, time, n, t), time, n + 1)
<1>. DEFINE r == PutIn(q, time, n, t)
<1>1. PICK p, A : CameDown(r, q, time, n, t, p, A)
  <2>. HIDE DEF r
  <2>. QED
    BY PutInCameDown DEF r
<1>. HIDE DEF r
<1>2. /\ n \in Nat /\ A \subseteq 0 .. n /\ A \subseteq Slot /\ p \in 0 .. n /\ p \in Slot
      /\ n < MaxTimers /\ 0 .. n \subseteq Slot /\ OnWay(A, n) /\ p \in A /\ n \in A
  BY <1>1, HeapAssumption DEF CameDown, OnWay, Slot
<1>3. r[p] = t /\ (p # 0 => time[q[Parent(p)]] < time[t])
  BY <1>1 DEF CameDown
<1>4. \A s \in A : s > p => /\ r[s] = q[Parent(s)]
                            /\ Parent(s) \in A /\ Parent(s) >= p /\ Parent(s) < s
                            /\ ~ (time[q[Parent(s)]] < time[t])
  BY <1>1 DEF CameDown
<1>5. \A s \in Slot : s # p /\ ~ (s \in A /\ s > p) => r[s] = q[s]
  BY <1>1 DEF CameDown
<1>6. \A s \in 0 .. n - 1 : q[s] \in Cell /\ q[s] # t /\ time[q[s]] \in Int
  BY <1>2 DEF Filled, Held, Queues
<1>7. \A s \in 1 .. n : Parent(s) \in 0 .. n - 1 /\ Parent(s) < s
  <2>1. ASSUME NEW s \in 1 .. n PROVE Parent(s) \in 0 .. n - 1 /\ Parent(s) < s
    <3>1. s \in Nat \ {0} /\ s <= n
      BY <1>2
    <3>2. Parent(s) \in Nat /\ Parent(s) < s
      BY <3>1, ParentFacts
    <3>. QED
      BY <1>2, <3>1, <3>2
  <2>. QED
    BY <2>1
<1>8. \A s \in 1 .. n - 1 : time[q[Parent(s)]] <= time[q[s]]
  BY DEF Ordered
<1>9. \A s \in A : s > p => s \in 1 .. n
  BY <1>2
<1>10. ASSUME NEW s \in 0 .. n, NEW u \in 0 .. n, r[s] = r[u], s < u PROVE FALSE
  <2>0. s \in Slot /\ u \in Slot
    BY <1>2, <1>10
  <2>1. CASE u = p
    <3>1. ~ (s \in A /\ s > p) /\ s # p /\ r[s] = q[s] /\ s \in 0 .. n - 1
      BY <1>5, <1>10, <2>0, <2>1
    <3>. QED
      BY <1>3, <1>6, <1>10, <2>1, <3>1
  <2>2. CASE u \in A /\ u > p
    <3>1. r[u] = q[Parent(u)] /\ Parent(u) \in 0 .. n - 1 /\ Parent(u) \in A /\ Parent(u) >= p
      BY <1>4, <1>7, <1>9, <2>2
    <3>2. CASE s = p
      BY <1>3, <1>6, <1>10, <3>1, <3>2
    <3>3. CASE s \in A /\ s > p
      <4>1. r[s] = q[Parent(s)] /\ Parent(s) \in 0 .. n - 1 /\ Parent(s) < s
        BY <1>4, <1>7, <1>9, <3>3
      <4>2. Parent(s) = Parent(u)
        BY <1>10, <3>1, <4>1 DEF Distinct
      <4>3. s <= Parent(u)
        BY <1>2, <1>10, <2>2, <3>3 DEF OnWay
      <4>. QED
        BY <1>2, <3>3, <4>1, <4>2, <4>3
    <3>4. CASE s # p /\ ~ (s \in A /\ s > p)
      <4>1. r[s] = q[s] /\ s \in 0 .. n - 1
        BY <1>5, <1>10, <2>0, <3>4
      <4>2. s = Parent(u)
        BY <1>10, <3>1, <4>1 DEF Distinct
      <4>. QED
        BY <1>2, <3>1, <3>4, <4>2
    <3>. QED
      BY <3>2, <3>3, <3>4
  <2>3. CASE u # p /\ ~ (u \in A /\ u > p)
    <3>0. r[u] = q[u] /\ u \in 0 .. n - 1
      <4>1. u # n
        BY <1>2, <2>3
      <4>. QED
        BY <1>2, <1>5, <2>0, <2>3, <4>1
    <3>1. CASE s = p
      BY <1>3, <1>6, <1>10, <3>0, <3>1
    <3>2. CASE s \in A /\ s > p
      <4>1. r[s] = q[Parent(s)] /\ Parent(s) \in 0 .. n - 1 /\ Parent(s) < s
        BY <1>4, <1>7, <1>9, <3>2
      <4>2. Parent(s) = u
        BY <1>10, <3>0, <4>1 DEF Distinct
      <4>. QED
        BY <1>10, <4>1, <4>2
    <3>3. CASE s # p /\ ~ (s \in A /\ s > p)
      <4>1. r[s] = q[s] /\ s \in 0 .. n - 1
        BY <1>5, <1>10, <2>0, <3>3
      <4>. QED
        BY <1>10, <3>0, <4>1 DEF Distinct
    <3>. QED
      BY <3>1, <3>2, <3>3
  <2>. QED
    BY <1>2, <2>1, <2>2, <2>3
<1>11. Distinct(r, n + 1)
  <2>1. (n + 1) - 1 = n
    BY <1>2
  <2>2. ASSUME NEW s \in 0 .. n, NEW u \in 0 .. n, r[s] = r[u] PROVE s = u
    BY <1>10, <2>2
  <2>. QED
    BY <2>1, <2>2 DEF Distinct
<1>12. ASSUME NEW s \in 1 .. n PROVE time[r[Parent(s)]] <= time[r[s]]
  <2>0. s \in Slot /\ s \in 0 .. n /\ Parent(s) \in 0 .. n - 1 /\ Parent(s) \in Slot /\ Parent(s) < s
    BY <1>2, <1>7, <1>12
  <2>1. time[t] \in Int
    OBVIOUS
  <2>2. CASE s = p
    <3>1. r[Parent(s)] = q[Parent(s)]
      BY <1>5, <2>0, <2>2
    <3>. QED
      BY <1>3, <1>6, <2>0, <2>1, <2>2, <3>1
  <2>3. CASE s \in A /\ s > p
    <3>1. /\ r[s] = q[Parent(s)] /\ Parent(s) \in A /\ Parent(s) >= p
          /\ ~ (time[q[Parent(s)]] < time[t])
      BY <1>4, <2>3
    <3>2. CASE Parent(s) = p
      BY <1>3, <1>6, <2>0, <2>1, <3>1, <3>2
    <3>3. CASE Parent(s) > p
      <4>1. r[Parent(s)] = q[Parent(Parent(s))] /\ Parent(s) \in 1 .. n - 1
        BY <1>2, <1>4, <2>0, <3>1, <3>3
      <4>. QED
        BY <1>8, <3>1, <4>1
    <3>. QED
      BY <1>2, <2>0, <3>1, <3>2, <3>3
  <2>4. CASE s # p /\ ~ (s \in A /\ s > p)
    <3>1. s # n
      BY <1>2, <2>4
    <3>2. /\ r[s] = q[s] /\ s \in 1 .. n - 1 /\ time[q[Parent(s)]] <= time[q[s]]
          /\ time[q[s]] \in Int /\ time[q[Parent(s)]] \in Int
      BY <1>5, <1>6, <1>8, <1>12, <2>0, <2>4, <3>1
    <3>3. CASE Parent(s) = p
      <4>1. PICK j \in A : j > p /\ Parent(j) = p
        <5>1. p < n
          BY <1>2, <2>0, <3>3
        <5>. QED
          BY <1>2, <5>1, ChildOnWay
      <4>2. ~ (time[q[p]] < time[t])
        BY <1>4, <4>1
      <4>. QED
        BY <1>3, <2>1, <3>2, <3>3, <4>2
    <3>4. CASE Parent(s) \in A /\ Parent(s) > p
      <4>1. /\ r[Parent(s)] = q[Parent(Parent(s))] /\ Parent(s) \in 1 .. n - 1
            /\ Parent(Parent(s)) \in 0 .. n - 1
        BY <1>2, <1>4, <1>7, <2>0, <3>4
      <4>2. time[q[Parent(Parent(s))]] <= time[q[Parent(s)]] /\ time[q[Parent(Parent(s))]] \in Int
        BY <1>6, <1>8, <4>1
      <4>. QED
        BY <3>2, <4>1, <4>2
    <3>5. CASE Parent(s) # p /\ ~ (Parent(s) \in A /\ Parent(s) > p)
      BY <1>5, <2>0, <3>2, <3>5
    <3>. QED
      BY <3>3, <3>4, <3>5
  <2>. QED
    BY <2>2, <2>3, <2>4
<1>13. Ordered(r, time, n + 1)
  <2>1. (n + 1) - 1 = n
    BY <1>2
  <2>. QED
    BY <1>12, <2>1 DEF Ordered
<1>. QED
  BY <1>11, <1>13 DEF r

-----------------------------------------------------------------------------
(* The hole that ti_pop lets sink.                                         *)
Holes == [hole : Slot, time : [Cell -> Int]]
LeftOf(h) == 2 * h.hole + 1
Lesser(h, q, last) == IF LeftOf(h) + 1 < last /\ h.time[q[LeftOf(h)]] > h.time[q[LeftOf(h) + 1]]
                        THEN LeftOf(h) + 1 ELSE LeftOf(h)
Rests(h, q, last) == h.hole >= last \div 2 \/ h.time[q[last]] < h.time[q[LeftOf(h)]]
Lower(h, q, last) ==
  [hole |-> Lesser(h, q, last),
   time |-> [h.time EXCEPT ![q[h.hole]] = h.time[q[Lesser(h, q, last)]]]]

SinkBody(f, q, last) ==
  [h \in Holes |-> IF Rests(h, q, last) THEN h ELSE f[Lower(h, q, last)]]
Sink(q, last) == CHOOSE f : f = SinkBody(f, q, last)

LEMMA SunkIsSink ==
  ASSUME NEW q, NEW time, NEW n
  PROVE  Sunk(q, time, n) = Sink(q, n - 1)[[hole |-> 0, time |-> time]]
BY Zenon DEF Sunk, Sink, SinkBody, Rests, Lower, Lesser, LeftOf, Holes

(* It sinks to a slot that is used, and the times that it copies up are    *)
(* those of timers.  With two timers or one it stays.                      *)
LEMMA SunkRight ==
  ASSUME NEW q \in Queues, NEW n \in 1 .. MaxTimers, Filled(q, n),
         NEW T \in SUBSET Int, NEW time \in [Cell -> T]
  PROVE  /\ Sunk(q, time, n).hole \in 0 .. n - 1
         /\ Sunk(q, time, n).time \in [Cell -> T]
         /\ n <= 2 => Sunk(q, time, n) = [hole |-> 0, time |-> time]
<1>. DEFINE last == n - 1
            Stop == {h \in Holes : Rests(h, q, last)}
            nxt == [h \in Holes |-> IF Rests(h, q, last) THEN h ELSE Lower(h, q, last)]
            m == [h \in Holes |-> MaxTimers - h.hole]
            P == {h \in Holes : h.hole \in 0 .. last /\ h.time \in [Cell -> T]}
            start == [hole |-> 0, time |-> time]
            sink == Sink(q, last)
<1>0. /\ MaxTimers \in Nat /\ last \in Slot /\ last \in Nat /\ last < MaxTimers
      /\ \A s \in 0 .. last : q[s] \in Cell /\ s \in Slot
  BY HeapAssumption DEF Slot, Filled, Queues
<1>1. ASSUME NEW h \in Holes, ~ Rests(h, q, last)
      PROVE  /\ Lesser(h, q, last) \in 0 .. last /\ Lesser(h, q, last) > h.hole
             /\ Lower(h, q, last) \in Holes
             /\ h.hole \in 0 .. last
  <2>1. h.hole \in Nat /\ h.hole < last \div 2
    BY <1>0, <1>1 DEF Holes, Slot, Rests
  <2>2. h.hole <= last /\ LeftOf(h) \in Nat /\ LeftOf(h) < last /\ LeftOf(h) > h.hole
    BY <1>0, <2>1 DEF LeftOf
  <2>3. Lesser(h, q, last) \in {LeftOf(h), LeftOf(h) + 1} /\ Lesser(h, q, last) <= last
    BY <1>0, <2>2 DEF Lesser
  <2>4. Lesser(h, q, last) \in 0 .. last /\ Lesser(h, q, last) > h.hole
    BY <1>0, <2>1, <2>2, <2>3
  <2>5. q[Lesser(h, q, last)] \in Cell /\ h.time \in [Cell -> Int]
    BY <1>0, <2>4 DEF Holes
  <2>6. Lower(h, q, last) \in Holes
    BY <1>0, <2>4, <2>5 DEF Lower, Holes
  <2>. QED
    BY <1>0, <2>1, <2>2, <2>4, <2>6
<1>2. Descends(Holes, Stop, nxt, m, MaxTimers)
  <2>1. Stop \subseteq Holes /\ nxt \in [Holes -> Holes]
    BY <1>1
  <2>2. m \in [Holes -> Nat] /\ \A h \in Holes : m[h] <= MaxTimers
    <3>1. \A h \in Holes : h.hole \in 0 .. MaxTimers - 1
      BY DEF Holes, Slot
    <3>2. \A h \in Holes : MaxTimers - h.hole \in Nat /\ MaxTimers - h.hole <= MaxTimers
      BY <1>0, <3>1
    <3>. QED
      BY <3>2
  <2>3. ASSUME NEW h \in Holes \ Stop PROVE m[nxt[h]] < m[h]
    <3>1. nxt[h] = Lower(h, q, last) /\ Lower(h, q, last) \in Holes
          /\ Lesser(h, q, last) > h.hole /\ Lesser(h, q, last) \in 0 .. last
          /\ h.hole \in 0 .. last
      BY <1>1, <2>3
    <3>2. Lower(h, q, last).hole = Lesser(h, q, last)
      BY DEF Lower
    <3>. QED
      BY <1>0, <3>1, <3>2
  <2>. QED
    BY <1>0, <2>1, <2>2, <2>3 DEF Descends
<1>3. sink = SinkBody(sink, q, last)
  <2>1. PICK f \in [Holes -> Holes] : Iterates(f, Holes, Stop, nxt)
    <3>. HIDE DEF Stop, nxt, m
    <3>. QED
      BY <1>2, LoopExists
  <2>2. \A h \in Holes : f[h] = IF Rests(h, q, last) THEN h ELSE f[Lower(h, q, last)]
    BY <2>1 DEF Iterates
  <2>3. f = [h \in Holes |-> f[h]]
    BY <2>1
  <2>4. f = SinkBody(f, q, last)
    BY <2>2, <2>3 DEF SinkBody
  <2>. QED
    BY <2>4, Zenon DEF Sink
<1>. HIDE DEF sink
<1>4. \A h \in Holes : sink[h] = IF Rests(h, q, last) THEN h ELSE sink[Lower(h, q, last)]
  BY <1>3 DEF SinkBody
<1>5. Iterates(sink, Holes, Stop, nxt)
  BY <1>4 DEF Iterates
<1>6. start \in P
  <2>1. time \in [Cell -> Int] /\ 0 \in 0 .. last /\ 0 \in Slot
    <3>1. time \in [Cell -> Int]
      OBVIOUS
    <3>2. 0 \in 0 .. last /\ 0 \in Slot
      BY <1>0
    <3>. QED
      BY <3>1, <3>2
  <2>2. start \in Holes
    BY <2>1 DEF Holes
  <2>. QED
    BY <2>1, <2>2
<1>7. Closed(P, Holes, Stop, nxt)
  <2>1. ASSUME NEW h \in P \ Stop PROVE nxt[h] \in P
    <3>1. /\ nxt[h] = Lower(h, q, last) /\ Lower(h, q, last) \in Holes
          /\ Lesser(h, q, last) \in 0 .. last
      BY <1>1, <2>1
    <3>2. h.time \in [Cell -> T] /\ h.time[q[Lesser(h, q, last)]] \in T
      BY <1>0, <2>1, <3>1
    <3>. QED
      BY <3>1, <3>2 DEF Lower
  <2>. QED
    BY <2>1 DEF Closed
<1>8. sink[start] \in P
  <2>. HIDE DEF Stop, nxt, m, P, start
  <2>. QED
    BY <1>2, <1>5, <1>6, <1>7, LoopKeeps
<1>9. Sunk(q, time, n) = sink[start]
  BY SunkIsSink DEF sink
<1>10. ASSUME n <= 2 PROVE sink[start] = start
  <2>1. last \in {0, 1}
    BY <1>10
  <2>2. last \div 2 = 0
    BY <2>1
  <2>3. Rests(start, q, last)
    BY <2>2 DEF Rests
  <2>. QED
    BY <1>4, <1>6, <2>3
<1>. QED
  BY <1>8, <1>9, <1>10

(* What ti_pop does to the queue: with two timers or one the first goes,   *)
(* whatever n is one timer less is counted.                                *)
LEMMA TakenOutFills ==
  ASSUME NEW q \in Queues, NEW n \in 1 .. MaxTimers, Filled(q, n), NEW time \in [Cell -> Int]
  PROVE  /\ TakenOut(q, time, n) \in Queues
         /\ Filled(TakenOut(q, time, n), n - 1)
<1>. DEFINE hole == Sunk(q, time, n).hole
<1>1. hole \in 0 .. n - 1
  BY SunkRight
<1>. HIDE DEF hole
<1>2. n \in Nat /\ MaxTimers \in Nat /\ n - 1 \in Slot /\ hole \in Slot /\ q[n - 1] \in Cell
  BY <1>1, HeapAssumption DEF Filled, Queues, Slot
<1>3. TakenOut(q, time, n) = [q EXCEPT ![hole] = q[n - 1], ![n - 1] = Null]
  BY DEF TakenOut, hole
<1>4. \A s \in Slot : TakenOut(q, time, n)[s] =
        IF s = n - 1 THEN Null ELSE IF s = hole THEN q[n - 1] ELSE q[s]
  BY <1>2, <1>3 DEF Queues
<1>5. TakenOut(q, time, n) \in Queues
  BY <1>2, <1>3 DEF Queues
<1>6. ASSUME NEW s \in Slot PROVE TakenOut(q, time, n)[s] # Null <=> s < n - 1
  <2>1. s \in Int
    BY DEF Slot
  <2>. QED
    BY <1>1, <1>2, <1>4, <2>1, HeapAssumption DEF Filled
<1>. QED
  BY <1>5, <1>6 DEF Filled

LEMMA TakenOutOfTwo ==
  ASSUME NEW q \in Queues, NEW n \in 1 .. MaxTimers, Filled(q, n), NEW time \in [Cell -> Int],
         Distinct(q, n), n <= 2
  PROVE  /\ Held(TakenOut(q, time, n)) = Held(q) \ {q[0]}
         /\ Distinct(TakenOut(q, time, n), n - 1)
         /\ Ordered(TakenOut(q, time, n), time, n - 1)
         /\ Sunk(q, time, n).time = time
<1>1. Sunk(q, time, n) = [hole |-> 0, time |-> time]
  BY SunkRight
<1>2. n \in {1, 2} /\ MaxTimers \in Nat /\ 0 \in Slot /\ n - 1 \in Slot /\ q[0] \in Cell
      /\ q[n - 1] \in Cell
  BY HeapAssumption DEF Filled, Queues, Slot
<1>3. \A s \in Slot : TakenOut(q, time, n)[s] =
        IF s = n - 1 THEN Null ELSE IF s = 0 THEN q[n - 1] ELSE q[s]
  BY <1>1, <1>2 DEF TakenOut, Queues
<1>4. \A s \in Slot : s \notin {0, n - 1} => q[s] = Null
  BY <1>2 DEF Filled, Slot
<1>5. n = 2 => q[0] # q[1]
  BY DEF Distinct
<1>6. Held(q) = {q[0], q[n - 1]}
  BY <1>2, <1>4, HeapAssumption DEF Held
<1>7. Held(TakenOut(q, time, n)) = IF n = 2 THEN {q[1]} ELSE {}
  <2>1. CASE n = 1
    BY <1>2, <1>3, <1>4, <2>1 DEF Held
  <2>2. CASE n = 2
    BY <1>2, <1>3, <1>4, <2>2, HeapAssumption DEF Held
  <2>. QED
    BY <1>2, <2>1, <2>2
<1>8. Distinct(TakenOut(q, time, n), n - 1) /\ Ordered(TakenOut(q, time, n), time, n - 1)
  BY <1>2 DEF Distinct, Ordered
<1>. QED
  BY <1>1, <1>2, <1>5, <1>6, <1>7, <1>8

-----------------------------------------------------------------------------
(***************************************************************************)
(* The manager, whatever ti_pop does to the order of the heap: who has the *)
(* mutex serves the head, or has taken it out, be it out of a queue that   *)
(* was freed since; and cur_timer_num counts the slots that are used.      *)
(***************************************************************************)
Serving == {"fired", "popped"}

MutexHeld ==
  \A w \in Worker :
    /\ mh_lock = w <=> wk[w].pc \in Serving
    /\ wk[w].pc \notin Serving => wk[w].temp = Null
    /\ wk[w].pc = "fired" /\ Going => /\ init_flag
                                      /\ wk[w].temp = queue[0] /\ queue[0] # Null
    /\ wk[w].pc = "popped" => wk[w].temp \in Cell /\ cur_timer_num < MaxTimers

InCalls ==
  /\ \A c \in Caller : /\ call[c].op = "push" <=> call[c].cell # Null
                       /\ call[c].op # "none" => init_flag
                       /\ call[c].op = "close" => \A d \in Caller : d # c => call[d].op = "none"
  /\ timerfd = -1 <=> ~ init_flag

Queued ==
  /\ init_flag => Filled(queue, cur_timer_num)
  /\ ~ init_flag => queue = EmptyQueue

MhInv == TypeOK /\ MutexHeld /\ InCalls /\ Queued

LEMMA IntervalFacts ==
  /\ Intervals \subseteq Nat \ {0} /\ MaxInterval \in Intervals
  /\ \A i \in Intervals : i \in Int
  /\ NoTimer \in Timer
<1>1. MaxInterval \in Intervals /\ \A i \in Intervals : i <= MaxInterval
  BY MhAssumption, Zenon DEF MaxInterval
<1>. HIDE DEF MaxInterval
<1>2. Intervals \subseteq Nat \ {0}
  BY MhAssumption
<1>3. \A i \in Intervals : i \in Int
  BY <1>2
<1>. QED
  BY <1>1, <1>2, <1>3 DEF NoTimer, Timer, Types

LEMMA SlotFacts ==
  /\ MaxTimers \in Nat \ {0} /\ 0 \in Slot /\ EmptyQueue \in Queues
  /\ \A n \in 0 .. MaxTimers : n < MaxTimers => n \in Slot
  /\ Filled(EmptyQueue, 0) /\ Held(EmptyQueue) = {}
BY HeapAssumption DEF Slot, EmptyQueue, Queues, Filled, Held

LEMMA MhInit == Init => MhInv
<1>. SUFFICES ASSUME Init PROVE MhInv
  OBVIOUS
<1>1. TypeOK
  <2>1. tm \in [Cell -> Timer] /\ queue \in Queues /\ cur_timer_num \in 0 .. MaxTimers
    BY IntervalFacts, SlotFacts DEF Init
  <2>2. NoWorker.replay \in 0 .. LateReads - 1
    BY MhAssumption DEF NoWorker
  <2>3. wk \in [Worker -> [pc : {"none", "arm", "loop", "lock", "fired", "popped", "read", "end"},
                          temp : Cell \cup {Null}, replay : 0 .. LateReads - 1]]
    BY <2>2 DEF Init, NoWorker
  <2>4. call \in [Caller -> [op : {"none", "push", "close"}, cell : Cell \cup {Null}]]
    BY DEF Init, NoCall
  <2>5. timerfd \in -2 .. 2
    BY DEF Init, NoTimerfd
  <2>6. alive \subseteq Cell /\ mh_lock \in Worker \cup {Null}
    BY DEF Init
  <2>7. fault \in {"none", "closed queue", "use after free", "double free"}
    BY DEF Init
  <2>8. init_flag \in BOOLEAN /\ enable_flag \in BOOLEAN /\ start_flag \in BOOLEAN
    BY DEF Init
  <2>. QED
    BY <2>1, <2>3, <2>4, <2>5, <2>6, <2>7, <2>8 DEF TypeOK
<1>2. MutexHeld
  BY MhAssumption DEF Init, MutexHeld, Serving, NoWorker
<1>3. InCalls
  BY DEF Init, InCalls, NoCall, NoTimerfd
<1>4. Queued
  BY DEF Init, Queued
<1>. QED
  BY <1>1, <1>2, <1>3, <1>4 DEF MhInv

(* What the steps of the callers keep.                                     *)
LEMMA CallerKeeps ==
  ASSUME MhInv, Going, NEW c \in Caller,
         Calls(c) \/ PushRest(c) \/ \E on \in BOOLEAN : TiEnable(c, on)
  PROVE  MhInv'
<1>. USE DEF MhInv, confVars, heapVars, Going
<1>1. CASE TiInit(c)
  <2>1. TypeOK'
    <3>1. queue' \in Queues /\ cur_timer_num' \in 0 .. MaxTimers /\ timerfd' \in -2 .. 2
      BY <1>1, SlotFacts DEF TiInit, Unarmed
    <3>. QED
      BY <1>1, <3>1 DEF TiInit, TypeOK
  <2>2. MutexHeld' /\ InCalls'
    BY <1>1, SlotFacts DEF TiInit, CanWrite, Free, MutexHeld, InCalls, Serving, Unarmed
  <2>3. Queued'
    BY <1>1, SlotFacts DEF TiInit, Queued
  <2>. QED
    BY <2>1, <2>2, <2>3
<1>2. CASE TiClose(c)
  <2>1. TypeOK'
    BY <1>2 DEF TiClose, TypeOK
  <2>2. MutexHeld' /\ Queued'
    BY <1>2 DEF TiClose, MutexHeld, Queued, Serving
  <2>3. InCalls'
    BY <1>2 DEF TiClose, CanWrite, Free, InCalls, TypeOK
  <2>. QED
    BY <2>1, <2>2, <2>3
<1>3. CASE TiStop(c)
  BY <1>3 DEF TiStop, TypeOK, MutexHeld, InCalls, Queued, Serving
<1>4. ASSUME NEW w \in Worker, TiStart(c, w) PROVE MhInv'
  <2>1. /\ wk' = [wk EXCEPT ![w].pc = "arm"] /\ wk[w].pc = "none" /\ start_flag' = TRUE
        /\ UNCHANGED <<confVars, timerfd, heapVars, mh_lock, call, fault>>
    BY <1>4 DEF TiStart
  <2>2. TypeOK'
    BY <2>1 DEF TypeOK
  <2>3. MutexHeld'
    BY <2>1 DEF TypeOK, MutexHeld, Serving
  <2>. QED
    BY <2>1, <2>2, <2>3 DEF InCalls, Queued
<1>5. ASSUME NEW a \in Cell, NEW type \in Types, NEW interval \in Intervals,
             TiPush(c, a, type, interval)
      PROVE  MhInv'
  <2>1. [type |-> type, interval |-> interval, left |-> interval] \in Timer
    BY IntervalFacts DEF Timer
  <2>2. TypeOK'
    BY <1>5, <2>1 DEF TiPush, TypeOK
  <2>3. MutexHeld' /\ Queued'
    BY <1>5 DEF TiPush, MutexHeld, Queued, Serving
  <2>4. InCalls'
    <3>1. /\ call' = [call EXCEPT ![c] = [op |-> "push", cell |-> a]] /\ a # Null /\ init_flag
          /\ \A d \in Caller : call[d].op # "close"
          /\ init_flag' = init_flag /\ timerfd' = timerfd
      BY <1>5, HeapAssumption DEF TiPush, CanRead
    <3>2. /\ call'[c].op = "push" /\ call'[c].cell = a
          /\ \A d \in Caller : d # c => call'[d] = call[d]
      BY <3>1 DEF TypeOK
    <3>. QED
      BY <3>1, <3>2 DEF InCalls
  <2>. QED
    BY <2>2, <2>3, <2>4
<1>6. CASE PushLocked(c)
  <2>1. call[c].cell \in Cell /\ init_flag /\ cur_timer_num \in Slot /\ Filled(queue, cur_timer_num)
    <3>1. call[c].op = "push" /\ cur_timer_num < MaxTimers
      BY <1>6 DEF PushLocked
    <3>2. call[c].cell \in Cell \cup {Null} /\ cur_timer_num \in 0 .. MaxTimers
      BY DEF TypeOK
    <3>. QED
      BY <3>1, <3>2, SlotFacts DEF InCalls, Queued
  <2>2. /\ queue' \in Queues /\ Filled(queue', cur_timer_num + 1)
    BY <1>6, <2>1, PutInFills DEF PushLocked, TypeOK
  <2>3. TypeOK'
    <3>1. cur_timer_num' \in 0 .. MaxTimers
      BY <1>6, <2>1, SlotFacts DEF PushLocked, Slot
    <3>2. call' \in [Caller -> [op : {"none", "push", "close"}, cell : Cell \cup {Null}]]
      BY <1>6 DEF PushLocked, Returned, NoCall, TypeOK
    <3>. QED
      BY <1>6, <2>2, <3>1, <3>2 DEF PushLocked, TypeOK
  <2>4. MutexHeld'
    BY <1>6, MhAssumption DEF PushLocked, MutexHeld, Serving
  <2>5. InCalls'
    BY <1>6 DEF PushLocked, Returned, NoCall, InCalls, TypeOK
  <2>6. Queued'
    BY <1>6, <2>1, <2>2 DEF PushLocked, Queued
  <2>. QED
    BY <2>3, <2>4, <2>5, <2>6
<1>7. CASE PushRefused(c)
  <2>1. TypeOK'
    BY <1>7, IntervalFacts DEF PushRefused, Returned, NoCall, TypeOK
  <2>2. MutexHeld' /\ Queued'
    BY <1>7 DEF PushRefused, MutexHeld, Queued, Serving
  <2>3. InCalls'
    BY <1>7 DEF PushRefused, Returned, NoCall, InCalls, TypeOK
  <2>. QED
    BY <2>1, <2>2, <2>3
<1>8. ASSUME NEW on \in BOOLEAN, TiEnable(c, on) PROVE MhInv'
  BY <1>8 DEF TiEnable, TypeOK, MutexHeld, InCalls, Queued, Serving
<1>. QED
  BY <1>1, <1>2, <1>3, <1>4, <1>5, <1>6, <1>7, <1>8 DEF Calls, PushRest

(* ti_close frees the queue, whoever still uses it.                        *)
LEMMA CloseKeeps ==
  ASSUME MhInv, Going, NEW c \in Caller, TiCloseFree(c)
  PROVE  MhInv'
<1>. USE DEF MhInv
<1>1. TypeOK'
  <2>1. fault' \in {fault, "closed queue", "double free"} /\ tm' \in [Cell -> Timer]
    BY IntervalFacts DEF TiCloseFree, TypeOK
  <2>2. call' \in [Caller -> [op : {"none", "push", "close"}, cell : Cell \cup {Null}]]
    BY DEF TiCloseFree, NoCall, TypeOK
  <2>3. timerfd' \in -2 .. 2 /\ queue' \in Queues
    <3>1. queue' \in Queues
      BY SlotFacts DEF TiCloseFree
    <3>2. timerfd' \in -2 .. 2
      <4>1. timerfd' = NoTimerfd
        BY Zenon DEF TiCloseFree
      <4>. QED
        BY <4>1 DEF NoTimerfd
    <3>. QED
      BY <3>1, <3>2
  <2>. QED
    BY <2>1, <2>2, <2>3 DEF TiCloseFree, TypeOK
<1>2. MutexHeld'
  <2>1. UNCHANGED <<wk, mh_lock, cur_timer_num>>
    BY DEF TiCloseFree
  <2>2. ASSUME NEW w \in Worker, wk[w].pc = "fired" PROVE ~ Going'
    BY <2>2, Zenon DEF TiCloseFree, Going
  <2>. QED
    BY <2>1, <2>2 DEF MutexHeld, Serving
<1>3. InCalls'
  BY DEF TiCloseFree, NoCall, InCalls, TypeOK, NoTimerfd
<1>4. Queued'
  BY DEF TiCloseFree, Queued
<1>. QED
  BY <1>1, <1>2, <1>3, <1>4

WkType == wk \in [Worker -> [pc : {"none", "arm", "loop", "lock", "fired", "popped", "read", "end"},
                             temp : Cell \cup {Null}, replay : 0 .. LateReads - 1]]

(* A worker that goes on without the mutex, or leaves.                     *)
LEMMA WorkerMoves ==
  ASSUME MhInv, NEW w \in Worker, wk[w].pc \notin Serving, UNCHANGED mh_lock,
         \/ wk' = [wk EXCEPT ![w] = NoWorker]
         \/ \E pc \in {"loop", "lock", "read", "end"} : Goto(w, pc)
         \/ /\ wk[w].replay + 1 < LateReads
            /\ wk' = [wk EXCEPT ![w].pc = "loop", ![w].replay = @ + 1],
         fault' # "none" \/ UNCHANGED fault,
         UNCHANGED <<confVars, queue, cur_timer_num>>
  PROVE  WkType' /\ MutexHeld'
<1>0. wk \in [Worker -> [pc : {"none", "arm", "loop", "lock", "fired", "popped", "read", "end"},
                         temp : Cell \cup {Null}, replay : 0 .. LateReads - 1]]
  BY DEF MhInv, TypeOK
<1>1. NoWorker.replay \in 0 .. LateReads - 1
  BY MhAssumption DEF NoWorker
<1>2. WkType'
  <2>1. CASE wk' = [wk EXCEPT ![w] = NoWorker]
    BY <1>0, <1>1, <2>1 DEF NoWorker, WkType
  <2>2. ASSUME NEW pc \in {"loop", "lock", "read", "end"}, Goto(w, pc) PROVE WkType'
    BY <1>0, <2>2 DEF Goto, WkType
  <2>3. CASE /\ wk[w].replay + 1 < LateReads
             /\ wk' = [wk EXCEPT ![w].pc = "loop", ![w].replay = @ + 1]
    <3>1. wk[w].replay + 1 \in 0 .. LateReads - 1
      BY <1>0, <2>3, MhAssumption
    <3>. QED
      BY <1>0, <2>3, <3>1 DEF WkType
  <2>. QED
    BY <2>1, <2>2, <2>3
<1>3. /\ wk'[w].pc \notin Serving /\ wk'[w].temp = Null
      /\ \A v \in Worker : v # w => wk'[v] = wk[v]
  <2>1. wk[w].temp = Null
    BY DEF MhInv, MutexHeld
  <2>. QED
    BY <1>0, <2>1 DEF Goto, NoWorker, Serving
<1>4. MutexHeld'
  BY <1>3 DEF MhInv, MutexHeld, Serving, Going, confVars
<1>. QED
  BY <1>2, <1>4

(* A worker that gives up the mutex.                                       *)
LEMMA WorkerUnlocks ==
  ASSUME MhInv, NEW w \in Worker, wk[w].pc \in Serving, mh_lock' = Null,
         \E pc \in {"read", "end"} : Goto(w, pc)
  PROVE  WkType' /\ MutexHeld'
<1>0. wk \in [Worker -> [pc : {"none", "arm", "loop", "lock", "fired", "popped", "read", "end"},
                         temp : Cell \cup {Null}, replay : 0 .. LateReads - 1]]
  BY DEF MhInv, TypeOK
<1>2. WkType'
  <2>1. ASSUME NEW pc \in {"read", "end"}, Goto(w, pc) PROVE WkType'
    <3>1. pc \in {"none", "arm", "loop", "lock", "fired", "popped", "read", "end"}
      BY <2>1
    <3>2. wk' = [wk EXCEPT ![w].pc = pc, ![w].temp = Null]
      BY <2>1 DEF Goto
    <3>. QED
      BY <1>0, <3>1, <3>2 DEF WkType
  <2>. QED
    BY <2>1
<1>3. /\ wk'[w].pc \notin Serving /\ wk'[w].temp = Null
      /\ \A v \in Worker : v # w => wk'[v] = wk[v]
  BY <1>0 DEF Goto, NoWorker, Serving
<1>4. \A v \in Worker : v # w => wk[v].pc \notin Serving
  BY DEF MhInv, MutexHeld
<1>5. \A v \in Worker : v # Null
  BY MhAssumption
<1>6. MutexHeld'
  BY <1>0, <1>3, <1>4, <1>5 DEF MhInv, MutexHeld, Serving, Going
<1>. QED
  BY <1>2, <1>6

(* ti_pop takes a timer off the count.                                     *)
LEMMA PoppedFills ==
  ASSUME MhInv, Going, NEW w \in Worker, wk[w].pc = "fired", Popped
  PROVE  /\ queue' \in Queues /\ cur_timer_num' \in 0 .. MaxTimers /\ cur_timer_num' < MaxTimers
         /\ Filled(queue', cur_timer_num')
         /\ TimesAfterPop \in [Cell -> Int]
         /\ cur_timer_num \in 1 .. MaxTimers /\ Filled(queue, cur_timer_num)
         /\ Left \in [Cell -> Int] /\ init_flag
<1>1. init_flag /\ queue[0] # Null /\ Filled(queue, cur_timer_num)
  BY DEF MhInv, MutexHeld, Queued
<1>2. queue \in Queues /\ cur_timer_num \in 0 .. MaxTimers /\ tm \in [Cell -> Timer]
  BY DEF MhInv, TypeOK
<1>3. cur_timer_num \in 1 .. MaxTimers
  BY <1>1, <1>2, SlotFacts DEF Filled
<1>4. Left \in [Cell -> Int]
  BY <1>2 DEF Left, Timer
<1>6. TimesAfterPop \in [Cell -> Int]
  BY <1>1, <1>2, <1>3, <1>4, SunkRight DEF TimesAfterPop
<1>7. queue' \in Queues /\ Filled(queue', cur_timer_num - 1)
  BY <1>1, <1>2, <1>3, <1>4, TakenOutFills DEF Popped
<1>8. cur_timer_num' = cur_timer_num - 1
  BY DEF Popped
<1>. QED
  BY <1>1, <1>3, <1>4, <1>6, <1>7, <1>8, SlotFacts

(* What the steps of a worker keep.                                        *)
LEMMA WorkerKeeps ==
  ASSUME MhInv, Going, NEW w \in Worker, Serve(w)
  PROVE  MhInv'
<1>. USE DEF confVars, heapVars
<1>0. TypeOK /\ MutexHeld /\ InCalls /\ Queued
  BY DEF MhInv
<1>1. ASSUME wk[w].pc \notin Serving, UNCHANGED <<mh_lock, confVars, heapVars, call>>,
             \/ wk' = [wk EXCEPT ![w] = NoWorker]
             \/ \E pc \in {"loop", "lock", "read", "end"} : Goto(w, pc)
             \/ /\ wk[w].replay + 1 < LateReads
                /\ wk' = [wk EXCEPT ![w].pc = "loop", ![w].replay = @ + 1],
             fault' \in {fault, "closed queue", "use after free"},
             start_flag' \in BOOLEAN, timerfd' = timerfd \/ (timerfd # -1 /\ timerfd' = 0)
      PROVE  MhInv'
  <2>1. WkType' /\ MutexHeld'
    <3>1. fault' # "none" \/ UNCHANGED fault
      BY <1>1
    <3>. QED
      BY <1>1, <3>1, WorkerMoves
  <2>2. timerfd' \in -2 .. 2 /\ (timerfd' = -1 <=> timerfd = -1)
    <3>1. timerfd \in -2 .. 2
      BY <1>0 DEF TypeOK
    <3>2. timerfd' = timerfd \/ (timerfd # -1 /\ timerfd' = 0)
      BY <1>1
    <3>. QED
      BY <3>1, <3>2
  <2>3. fault' \in {"none", "closed queue", "use after free", "double free"}
    BY <1>0, <1>1 DEF TypeOK
  <2>4. TypeOK'
    BY <1>0, <1>1, <2>1, <2>2, <2>3 DEF TypeOK, WkType
  <2>5. InCalls' /\ Queued'
    BY <1>0, <1>1, <2>2 DEF InCalls, Queued
  <2>. QED
    BY <2>1, <2>4, <2>5 DEF MhInv
<1>2. CASE Arm(w) \/ Loop(w) \/ Read(w) \/ ReadFails(w) \/ End(w)
  <2>1. /\ wk[w].pc \notin Serving /\ UNCHANGED <<mh_lock, confVars, heapVars, call, fault>>
        /\ start_flag' \in BOOLEAN
    BY <1>0, <1>2 DEF Arm, Loop, Read, ReadFails, End, Serving, TypeOK
  <2>2. \/ wk' = [wk EXCEPT ![w] = NoWorker]
        \/ \E pc \in {"loop", "lock", "read", "end"} : Goto(w, pc)
        \/ /\ wk[w].replay + 1 < LateReads
           /\ wk' = [wk EXCEPT ![w].pc = "loop", ![w].replay = @ + 1]
    BY <1>2 DEF Arm, Loop, Read, ReadFails, End
  <2>3. timerfd' = timerfd \/ (timerfd # -1 /\ timerfd' = 0)
    BY <1>2 DEF Arm, Loop, Read, ReadFails, End, NoTimerfd
  <2>. QED
    BY <1>1, <2>1, <2>2, <2>3
<1>a. CASE Look(w) /\ mh_lock' = mh_lock
  <2>1. /\ wk[w].pc \notin Serving /\ UNCHANGED <<mh_lock, confVars, heapVars, call, timerfd>>
        /\ start_flag' \in BOOLEAN
    BY <1>0, <1>a DEF Look, Serving, TypeOK
  <2>2. /\ \E pc \in {"loop", "lock", "read", "end"} : Goto(w, pc)
        /\ fault' \in {fault, "closed queue", "use after free"}
    <3>1. CASE UNCHANGED wk /\ fault' \in {"closed queue", "use after free"}
      <4>1. wk[w].pc = "lock" /\ wk[w].temp = Null
        BY <1>0, <1>a DEF Look, MutexHeld, Serving
      <4>2. Goto(w, "lock")
        BY <1>0, <3>1, <4>1 DEF Goto, TypeOK
      <4>. QED
        BY <3>1, <4>2
    <3>2. CASE Goto(w, "read") /\ UNCHANGED fault
      BY <3>2
    <3>. QED
      BY <1>a, <3>1, <3>2, MhAssumption DEF Look
  <2>. QED
    BY <1>1, <2>1, <2>2
<1>3. CASE Look(w) /\ mh_lock' # mh_lock
  <2>0. init_flag
    BY <1>3 DEF Look
  <2>1. /\ wk[w].pc = "lock" /\ mh_lock = Null /\ mh_lock' = w /\ Head \in alive
        /\ wk' = [wk EXCEPT ![w].pc = "fired", ![w].temp = Head]
        /\ UNCHANGED <<confVars, start_flag, timerfd, heapVars, call, fault>>
    BY <1>3 DEF Look
  <2>2. Head \in Cell /\ Head # Null
    BY <1>0, <2>1, HeapAssumption DEF TypeOK
  <2>3. WkType'
    BY <1>0, <2>1, <2>2 DEF WkType, TypeOK
  <2>4. TypeOK'
    BY <1>0, <2>1, <2>3 DEF TypeOK, WkType
  <2>5. /\ wk'[w].pc = "fired" /\ wk'[w].temp = Head
        /\ \A v \in Worker : v # w => wk'[v] = wk[v]
    BY <1>0, <2>1 DEF TypeOK
  <2>6. MutexHeld'
    BY <1>0, <2>0, <2>1, <2>2, <2>5, MhAssumption DEF MutexHeld, Serving, Head
  <2>7. InCalls' /\ Queued'
    BY <1>0, <2>1 DEF InCalls, Queued
  <2>. QED
    BY <2>4, <2>6, <2>7 DEF MhInv
<1>4. CASE PopRepeat(w)
  <2>1. /\ wk[w].pc = "fired" /\ Popped /\ wk' = [wk EXCEPT ![w].pc = "popped"]
        /\ tm' = [a \in Cell |-> [tm[a] EXCEPT !.left = TimesAfterPop[a]]]
        /\ UNCHANGED <<confVars, start_flag, timerfd, alive, mh_lock, call, fault>>
    BY <1>4 DEF PopRepeat
  <2>2. /\ queue' \in Queues /\ cur_timer_num' \in 0 .. MaxTimers /\ cur_timer_num' < MaxTimers
        /\ Filled(queue', cur_timer_num') /\ TimesAfterPop \in [Cell -> Int]
        /\ init_flag
    BY <2>1, PoppedFills
  <2>3. tm' \in [Cell -> Timer]
    BY <1>0, <2>1, <2>2 DEF TypeOK, Timer
  <2>4. WkType'
    BY <1>0, <2>1 DEF WkType, TypeOK
  <2>5. TypeOK'
    BY <1>0, <2>1, <2>2, <2>3, <2>4 DEF TypeOK, WkType
  <2>6. /\ wk'[w].pc = "popped" /\ wk'[w].temp = wk[w].temp /\ wk[w].temp = queue[0]
        /\ queue[0] # Null /\ \A v \in Worker : v # w => wk'[v] = wk[v]
        /\ mh_lock = w /\ wk[w].temp \in Cell
    BY <1>0, <2>1 DEF TypeOK, MutexHeld, Serving
  <2>7. \A v \in Worker : v # w => wk[v].pc \notin Serving
    BY <1>0, <2>6 DEF MutexHeld
  <2>8. MutexHeld'
    BY <1>0, <2>1, <2>2, <2>6, <2>7 DEF MutexHeld, Serving
  <2>9. InCalls' /\ Queued'
    BY <1>0, <2>1, <2>2 DEF InCalls, Queued
  <2>. QED
    BY <2>5, <2>8, <2>9 DEF MhInv
<1>5. CASE Repush(w)
  <2>0. /\ wk[w].pc = "popped" /\ wk[w].temp \in Cell /\ cur_timer_num < MaxTimers /\ init_flag
        /\ cur_timer_num \in Slot /\ Filled(queue, cur_timer_num)
        /\ tm[wk[w].temp].interval \in Intervals
    <3>1. wk[w].pc = "popped" /\ wk[w].temp \in Cell /\ cur_timer_num < MaxTimers /\ init_flag
      BY <1>0, <1>5, Zenon DEF Repush, MutexHeld
    <3>2. tm[wk[w].temp] \in Timer /\ cur_timer_num \in 0 .. MaxTimers
      BY <1>0, <3>1 DEF TypeOK
    <3>. QED
      BY <1>0, <3>1, <3>2, SlotFacts DEF Queued, Timer
  <2>1. /\ queue' = PutIn(queue, [Left EXCEPT ![wk[w].temp] = tm[wk[w].temp].interval],
                          cur_timer_num, wk[w].temp)
        /\ tm' = [tm EXCEPT ![wk[w].temp].left = tm[wk[w].temp].interval]
        /\ cur_timer_num' = cur_timer_num + 1 /\ mh_lock' = Null /\ Goto(w, "read")
        /\ UNCHANGED <<confVars, start_flag, timerfd, alive, call, fault>>
    BY <1>5 DEF Repush
  <2>2. queue' \in Queues /\ Filled(queue', cur_timer_num + 1)
    BY <1>0, <2>0, <2>1, PutInFills DEF TypeOK
  <2>3. cur_timer_num' \in 0 .. MaxTimers
    BY <2>0, <2>1, SlotFacts DEF Slot
  <2>4. tm' \in [Cell -> Timer]
    BY <1>0, <2>0, <2>1, IntervalFacts DEF TypeOK, Timer
  <2>5. WkType' /\ MutexHeld'
    BY <2>0, <2>1, WorkerUnlocks DEF Serving
  <2>6. TypeOK'
    BY <1>0, <2>1, <2>2, <2>3, <2>4, <2>5 DEF TypeOK, WkType
  <2>7. InCalls' /\ Queued'
    BY <1>0, <2>0, <2>1, <2>2 DEF InCalls, Queued
  <2>. QED
    BY <2>5, <2>6, <2>7 DEF MhInv
<1>6. CASE PopSingle(w)
  <2>1. /\ wk[w].pc = "fired" /\ Popped /\ alive' = alive \ {wk[w].temp}
        /\ tm' = [a \in Cell |-> IF a = wk[w].temp THEN NoTimer
                                 ELSE [tm[a] EXCEPT !.left = TimesAfterPop[a]]]
        /\ mh_lock' = Null /\ Goto(w, "read")
        /\ UNCHANGED <<confVars, start_flag, timerfd, call, fault>>
    BY <1>6 DEF PopSingle
  <2>2. /\ queue' \in Queues /\ cur_timer_num' \in 0 .. MaxTimers
        /\ Filled(queue', cur_timer_num') /\ TimesAfterPop \in [Cell -> Int]
        /\ init_flag
    BY <2>1, PoppedFills
  <2>3. tm' \in [Cell -> Timer]
    BY <1>0, <2>1, <2>2, IntervalFacts DEF TypeOK, Timer
  <2>4. WkType' /\ MutexHeld'
    BY <2>1, WorkerUnlocks DEF Serving
  <2>5. TypeOK'
    BY <1>0, <2>1, <2>2, <2>3, <2>4 DEF TypeOK, WkType
  <2>6. InCalls' /\ Queued'
    BY <1>0, <2>1, <2>2 DEF InCalls, Queued
  <2>. QED
    BY <2>4, <2>5, <2>6 DEF MhInv
<1>7. CASE GiveUp(w)
  <2>1. /\ wk[w].pc \in Serving /\ mh_lock' = Null /\ Goto(w, "end")
        /\ tm' = IF wk[w].pc = "popped" THEN [tm EXCEPT ![wk[w].temp] = NoTimer] ELSE tm
        /\ UNCHANGED <<confVars, start_flag, timerfd, queue, cur_timer_num, alive, call, fault>>
    BY <1>7 DEF GiveUp, Serving
  <2>2. WkType' /\ MutexHeld'
    BY <2>1, WorkerUnlocks
  <2>3. tm' \in [Cell -> Timer]
    BY <1>0, <2>1, IntervalFacts DEF TypeOK
  <2>4. TypeOK'
    BY <1>0, <2>1, <2>2, <2>3 DEF TypeOK, WkType
  <2>. QED
    BY <1>0, <2>1, <2>2, <2>4 DEF MhInv, InCalls, Queued
<1>8. CASE RepushClosed(w)
  <2>1. /\ fault' = "closed queue"
        /\ UNCHANGED <<confVars, start_flag, timerfd, heapVars, mh_lock, call, wk>>
    BY <1>8 DEF RepushClosed
  <2>2. TypeOK' /\ MutexHeld'
    BY <1>0, <2>1 DEF TypeOK, MutexHeld, Going
  <2>. QED
    BY <1>0, <2>1, <2>2 DEF MhInv, InCalls, Queued
<1>. QED
  BY <1>2, <1>a, <1>3, <1>4, <1>5, <1>6, <1>7, <1>8 DEF Serve

LEMMA SecondKeeps ==
  ASSUME MhInv, Second
  PROVE  MhInv'
<1>. USE DEF confVars, heapVars
<1>0. TypeOK /\ MutexHeld /\ InCalls /\ Queued
  BY DEF MhInv
<1>1. tm' \in [Cell -> Timer]
  <2>1. \A a \in Cell : [tm[a] EXCEPT !.left = @ - 1] \in Timer
    <3>1. ASSUME NEW a \in Cell PROVE tm[a].left - 1 \in Int
      <4>1. tm[a] \in Timer
        BY <1>0 DEF TypeOK
      <4>2. tm[a].left \in Int
        BY <4>1 DEF Timer
      <4>. QED
        BY <4>2
    <3>. QED
      BY <1>0, <3>1 DEF TypeOK, Timer
  <2>. QED
    BY <1>0, <2>1 DEF Second, TypeOK
<1>2. timerfd' \in -2 .. 2 /\ (timerfd' = -1 <=> timerfd = -1)
  <2>1. timerfd \in -2 .. 2
    BY <1>0 DEF TypeOK
  <2>2. timerfd' = timerfd \/ (timerfd \in {0, 1} /\ timerfd' = timerfd + 1)
    BY DEF Second
  <2>. QED
    BY <2>1, <2>2
<1>3. TypeOK'
  BY <1>0, <1>1, <1>2 DEF Second, TypeOK
<1>4. MutexHeld' /\ Queued'
  BY <1>0 DEF Second, MutexHeld, Queued, Going
<1>5. InCalls'
  BY <1>0, <1>2 DEF Second, InCalls
<1>. QED
  BY <1>3, <1>4, <1>5 DEF MhInv

LEMMA MhStep == MhInv /\ [Next]_vars => MhInv'
<1>1. MhInv /\ UNCHANGED vars => MhInv'
  <2>. SUFFICES ASSUME MhInv, UNCHANGED vars PROVE MhInv'
    OBVIOUS
  <2>. USE DEF vars, confVars, heapVars
  <2>1. TypeOK'
    BY DEF MhInv, TypeOK
  <2>2. MutexHeld' /\ InCalls' /\ Queued'
    BY DEF MhInv, MutexHeld, InCalls, Queued, Going
  <2>. QED
    BY <2>1, <2>2 DEF MhInv
<1>. QED
  BY <1>1, CallerKeeps, CloseKeeps, WorkerKeeps, SecondKeeps DEF Next, BusyNext

(* The inductive invariant that holds whatever becomes of the heap.        *)
THEOREM MhInvariant == Spec => []MhInv
  BY MhInit, MhStep, PTL DEF Spec

(* For heaps of any size, with the wrong timers taken out of them and all: *)
(* the count stays in 0 .. max_timer_num and the times in their range.     *)
THEOREM MhTypeCorrect == Spec => []TypeOK
<1>1. MhInv => TypeOK
  BY DEF MhInv
<1>. QED
  BY <1>1, MhInvariant, PTL

(* No way out of a worker's loop keeps the mutex, however callers and      *)
(* workers interleave and whatever the heap holds.                         *)
THEOREM MhMutexGivenUp == Spec => []MutexGivenUp
<1>1. MhInv => MutexGivenUp
  BY DEF MhInv, TypeOK, MutexHeld, Serving, MutexGivenUp
<1>. QED
  BY <1>1, MhInvariant, PTL

-----------------------------------------------------------------------------
(***************************************************************************)
(* The heap, as long as no pop meets more than two timers: with a third    *)
(* one ti_pop takes the wrong timer out.  Pushes, repushes, stops, closes  *)
(* and the passing of time keep it sound whatever its size.                *)
(***************************************************************************)
ShallowPop == \A w \in Worker : PopRepeat(w) \/ PopSingle(w) => cur_timer_num <= 2
ShallowPops == [][ShallowPop]_vars

HeapOrdered ==
  init_flag => /\ Distinct(queue, cur_timer_num)
               /\ Ordered(queue, Left, cur_timer_num)
               /\ Cardinality(Held(queue)) = cur_timer_num

(* Every timer is in one place: the queue, a push, or with the worker that *)
(* has taken it out.                                                       *)
Owned ==
  /\ Held(queue) \subseteq alive
  /\ \A c \in Caller : call[c].op = "push" => call[c].cell \in alive \ Held(queue)
  /\ \A c, d \in Caller : call[c].op = "push" /\ call[d].cell = call[c].cell => c = d
  /\ \A w \in Worker : wk[w].pc = "popped" =>
        wk[w].temp \in alive \ Held(queue) /\ \A c \in Caller : call[c].cell # wk[w].temp
  /\ MemorySafe

HeapInv == HeapOrdered /\ Owned

LEMMA StaysSafe == MemorySafe /\ (UNCHANGED fault \/ fault' = "closed queue") => MemorySafe'
BY DEF MemorySafe

LEMMA HeldFacts ==
  ASSUME NEW q \in Queues, NEW n \in 0 .. MaxTimers, Filled(q, n)
  PROVE  /\ \A s \in 0 .. n - 1 : q[s] \in Held(q)
         /\ \A a \in Held(q) : a \in Cell /\ \E s \in 0 .. n - 1 : a = q[s]
         /\ IsFiniteSet(Held(q)) /\ Cardinality(Held(q)) \in Nat
<1>1. MaxTimers \in Nat
  BY SlotFacts
<1>2. \A s \in 0 .. n - 1 : q[s] \in Held(q)
  BY <1>1 DEF Held, Filled, Slot
<1>3. \A a \in Held(q) : a \in Cell /\ \E s \in 0 .. n - 1 : a = q[s]
  BY <1>1 DEF Held, Filled, Slot, Queues
<1>4. IsFiniteSet(Held(q)) /\ Cardinality(Held(q)) \in Nat
  <2>1. IsFiniteSet(Slot)
    BY <1>1, FS_Interval DEF Slot
  <2>2. IsFiniteSet({q[s] : s \in Slot})
    <3>1. q \in Surjection(Slot, {q[s] : s \in Slot})
      BY DEF Surjection, Queues
    <3>. QED
      BY <2>1, <3>1, FS_Surjection
  <2>3. IsFiniteSet(Held(q))
    BY <2>2, FS_Subset DEF Held
  <2>. QED
    BY <2>3, FS_CardinalityType
<1>. QED
  BY <1>2, <1>3, <1>4

(* The order of a heap is that of the times of its timers.                 *)
LEMMA SameOrder ==
  ASSUME NEW q \in Queues, NEW n \in 0 .. MaxTimers, Filled(q, n), NEW time, NEW time2,
         Ordered(q, time, n), \A a \in Held(q) : time2[a] = time[a]
  PROVE  Ordered(q, time2, n)
<1>1. ASSUME NEW s \in 1 .. n - 1 PROVE time2[q[Parent(s)]] <= time2[q[s]]
  <2>1. s \in Nat \ {0} /\ n \in Nat
    BY SlotFacts
  <2>2. Parent(s) \in 0 .. n - 1 /\ s \in 0 .. n - 1
    BY <2>1, ParentFacts
  <2>3. q[Parent(s)] \in Held(q) /\ q[s] \in Held(q)
    BY <2>2, HeldFacts
  <2>. QED
    BY <2>3 DEF Ordered
<1>. QED
  BY <1>1 DEF Ordered

(* Nobody expires before the root.                                         *)
LEMMA RootLeast ==
  ASSUME NEW q \in Queues, NEW n \in 0 .. MaxTimers, Filled(q, n),
         NEW time \in [Cell -> Int], Ordered(q, time, n)
  PROVE  \A s \in 0 .. n - 1 : time[q[0]] <= time[q[s]]
<1>. DEFINE Good == {k \in 0 .. n : \A s \in 0 .. n - 1 : s <= k => time[q[0]] <= time[q[s]]}
<1>0. n \in Nat /\ \A s \in 0 .. n - 1 : q[s] \in Cell /\ time[q[s]] \in Int
  <2>1. n \in Nat
    BY SlotFacts
  <2>. QED
    BY <2>1, HeldFacts
<1>1. 0 \in Good
  BY <1>0
<1>2. ASSUME NEW k \in 0 .. n, k < n, k \in Good PROVE k + 1 \in Good
  <2>1. ASSUME NEW s \in 0 .. n - 1, s <= k + 1 PROVE time[q[0]] <= time[q[s]]
    <3>1. CASE s <= k
      BY <1>2, <2>1, <3>1
    <3>2. CASE s = k + 1
      <4>1. s \in Nat \ {0} /\ s \in 1 .. n - 1
        BY <1>0, <3>2
      <4>2. Parent(s) \in Nat /\ Parent(s) < s
        BY <4>1, ParentFacts
      <4>3. Parent(s) \in 0 .. n - 1 /\ Parent(s) <= k
        BY <1>0, <2>1, <3>2, <4>1, <4>2
      <4>4. time[q[0]] <= time[q[Parent(s)]]
        BY <1>2, <4>3
      <4>5. time[q[Parent(s)]] <= time[q[s]]
        BY <4>1 DEF Ordered
      <4>6. 0 \in 0 .. n - 1
        BY <1>0, <4>1
      <4>. QED
        BY <1>0, <2>1, <4>3, <4>4, <4>5, <4>6
    <3>. QED
      BY <1>0, <2>1, <3>1, <3>2
  <2>2. k + 1 \in 0 .. n
    BY <1>0, <1>2
  <2>. QED
    BY <2>1, <2>2
<1>3. n \in Good
  <2>1. n \in 0 .. n
    BY <1>0
  <2>. HIDE DEF Good
  <2>. QED
    BY <1>0, <1>1, <1>2, <2>1, UpTo
<1>. QED
  BY <1>0, <1>3

LEMMA HeapInit == Init => HeapInv
<1>1. Held(EmptyQueue) = {}
  BY SlotFacts
<1>2. Init => MemorySafe
  BY DEF Init, MemorySafe
<1>. QED
  BY <1>1, <1>2 DEF Init, HeapInv, HeapOrdered, Owned, NoCall, NoWorker

(* The callers keep the heap sound.                                        *)
LEMMA CallerKeepsHeap ==
  ASSUME MhInv, HeapInv, Going, NEW c \in Caller,
         Calls(c) \/ PushRest(c) \/ \E on \in BOOLEAN : TiEnable(c, on)
  PROVE  HeapInv'
<1>. USE DEF confVars, heapVars
<1>0. /\ TypeOK /\ MutexHeld /\ InCalls /\ Queued /\ HeapOrdered /\ Owned
      /\ queue \in Queues /\ cur_timer_num \in 0 .. MaxTimers /\ Held(queue) \subseteq alive
  BY DEF MhInv, HeapInv, Owned, TypeOK
<1>1. CASE TiInit(c)
  <2>1. /\ queue' = EmptyQueue /\ cur_timer_num' = 0 /\ ~ init_flag
        /\ UNCHANGED <<alive, tm, call, wk, fault>>
    BY <1>1 DEF TiInit
  <2>2. Held(queue)' = {}
    BY <2>1, SlotFacts
  <2>3. HeapOrdered'
    <3>1. Cardinality(Held(queue)') = 0
      BY <2>2, FS_EmptySet
    <3>2. Distinct(queue', 0) /\ Ordered(queue', Left', 0)
      BY DEF Distinct, Ordered
    <3>. QED
      BY <2>1, <3>1, <3>2 DEF HeapOrdered
  <2>4. Owned'
    BY <1>0, <2>1, <2>2, StaysSafe DEF Owned, InCalls, MutexHeld
  <2>. QED
    BY <2>3, <2>4 DEF HeapInv
<1>2. CASE TiClose(c) \/ TiStop(c) \/ \E on \in BOOLEAN : TiEnable(c, on)
  <2>1. /\ UNCHANGED <<init_flag, heapVars, wk, fault>>
        /\ call' = call \/ call' = [call EXCEPT ![c] = [op |-> "close", cell |-> Null]]
    BY <1>2 DEF TiClose, TiStop, TiEnable
  <2>2. \A d \in Caller : call'[d] = call[d] \/ (call'[d].op = "close" /\ call'[d].cell = Null)
    <3>1. call \in [Caller -> [op : {"none", "push", "close"}, cell : Cell \cup {Null}]]
      BY <1>0 DEF TypeOK
    <3>. QED
      BY <2>1, <3>1
  <2>3. HeapOrdered'
    BY <1>0, <2>1 DEF HeapOrdered, Left
  <2>4. Owned'
    <3>1. MemorySafe'
      BY <1>0, <2>1, StaysSafe DEF Owned
    <3>2. \A d \in Caller : call'[d].op = "push" =>
             call[d].op = "push" /\ call'[d].cell = call[d].cell /\ call[d].cell # Null
      BY <1>0, <2>2 DEF InCalls
    <3>3. \A w \in Worker : wk[w].pc = "popped" => wk[w].temp \in Cell
      BY <1>0 DEF MutexHeld
    <3>. QED
      BY <1>0, <2>1, <2>2, <3>1, <3>2, <3>3, HeapAssumption DEF Owned
  <2>. QED
    BY <2>3, <2>4 DEF HeapInv
<1>3. ASSUME NEW w \in Worker, TiStart(c, w) PROVE HeapInv'
  <2>1. /\ UNCHANGED <<init_flag, heapVars, call, fault>>
        /\ wk' = [wk EXCEPT ![w].pc = "arm"] /\ wk[w].pc = "none"
    BY <1>3 DEF TiStart
  <2>2. \A v \in Worker : wk'[v] = wk[v] \/ wk'[v].pc = "arm"
    BY <1>0, <2>1 DEF TypeOK
  <2>3. HeapOrdered'
    BY <1>0, <2>1 DEF HeapOrdered, Left
  <2>4. Owned'
    BY <1>0, <2>1, <2>2, StaysSafe DEF Owned
  <2>. QED
    BY <2>3, <2>4 DEF HeapInv
<1>4. ASSUME NEW a \in Cell, NEW type \in Types, NEW interval \in Intervals,
             TiPush(c, a, type, interval)
      PROVE  HeapInv'
  <2>1. /\ a \notin alive /\ alive' = alive \cup {a} /\ init_flag
        /\ tm' = [tm EXCEPT ![a] = [type |-> type, interval |-> interval, left |-> interval]]
        /\ call' = [call EXCEPT ![c] = [op |-> "push", cell |-> a]]
        /\ UNCHANGED <<init_flag, queue, cur_timer_num, wk, fault>>
    BY <1>4 DEF TiPush
  <2>2. \A b \in Held(queue) : Left'[b] = Left[b]
    <3>1. \A b \in Held(queue) : b \in Cell /\ b # a
      BY <1>0, <2>1 DEF TypeOK
    <3>. QED
      BY <1>0, <2>1, <3>1 DEF Left, TypeOK
  <2>3. HeapOrdered'
    <3>1. Ordered(queue, Left', cur_timer_num)
      BY <1>0, <2>1, <2>2, SameOrder DEF HeapOrdered, Queued
    <3>. QED
      BY <1>0, <2>1, <3>1 DEF HeapOrdered
  <2>4. Owned'
    <3>1. /\ call'[c].op = "push" /\ call'[c].cell = a
          /\ \A d \in Caller : d # c => call'[d] = call[d] /\ call[d].cell # a
      <4>1. \A d \in Caller : call[d].cell \in alive \cup {Null}
        BY <1>0 DEF Owned, InCalls
      <4>. QED
        BY <1>0, <2>1, <4>1, HeapAssumption DEF TypeOK
    <3>2. \A w \in Worker : wk[w].pc = "popped" => wk[w].temp # a
      BY <1>0, <2>1, StaysSafe DEF Owned
    <3>. QED
      BY <1>0, <2>1, <3>1, <3>2, StaysSafe DEF Owned
  <2>. QED
    BY <2>3, <2>4 DEF HeapInv
<1>5. CASE PushLocked(c)
  <2>0. /\ call[c].op = "push" /\ mh_lock = Null /\ cur_timer_num < MaxTimers
        /\ queue' = PutIn(queue, Left, cur_timer_num, call[c].cell)
        /\ cur_timer_num' = cur_timer_num + 1 /\ call' = [call EXCEPT ![c] = NoCall]
        /\ UNCHANGED <<init_flag, alive, tm, wk, fault>>
    BY <1>5 DEF PushLocked, Returned
  <2>1. /\ call[c].cell \in Cell \ Held(queue) /\ call[c].cell \in alive /\ init_flag
        /\ Filled(queue, cur_timer_num) /\ Distinct(queue, cur_timer_num)
        /\ Ordered(queue, Left, cur_timer_num) /\ Cardinality(Held(queue)) = cur_timer_num
    BY <1>0, <2>0 DEF Owned, InCalls, Queued, HeapOrdered, TypeOK
  <2>2. cur_timer_num \in Slot /\ Left \in [Cell -> Int]
    <3>1. \A b \in Cell : tm[b].left \in Int
      <4>1. tm \in [Cell -> Timer]
        BY <1>0 DEF TypeOK
      <4>. QED
        BY <4>1, IntervalFacts DEF Timer
    <3>. QED
      BY <1>0, <2>0, <3>1, SlotFacts DEF Left
  <2>3. Held(queue)' = Held(queue) \cup {call[c].cell}
    BY <1>0, <2>0, <2>1, <2>2, PutInFills
  <2>4. Distinct(queue', cur_timer_num + 1) /\ Ordered(queue', Left, cur_timer_num + 1)
    BY <1>0, <2>0, <2>1, <2>2, PutInOrders
  <2>5. Cardinality(Held(queue) \cup {call[c].cell}) = cur_timer_num + 1
    BY <1>0, <2>1, HeldFacts, FS_AddElement
  <2>6. HeapOrdered'
    BY <2>0, <2>1, <2>3, <2>4, <2>5 DEF HeapOrdered, Left
  <2>7. Owned'
    <3>1. /\ call'[c].op = "none" /\ call'[c].cell = Null
          /\ \A d \in Caller : d # c => call'[d] = call[d]
      BY <1>0, <2>0 DEF TypeOK, NoCall
    <3>2. \A d \in Caller : d # c => call[d].cell # call[c].cell
      BY <1>0, <2>0 DEF Owned
    <3>3. MemorySafe'
      BY <1>0, <2>0, StaysSafe DEF Owned
    <3>4. \A d \in Caller : call'[d].op = "push" => d # c /\ call'[d] = call[d] /\ call[d].cell # Null
      BY <1>0, <3>1 DEF InCalls
    <3>5. \A w \in Worker : wk[w].pc = "popped" => wk[w].temp \notin {Null, call[c].cell}
      BY <1>0, HeapAssumption DEF Owned, MutexHeld
    <3>. QED
      BY <1>0, <2>0, <2>1, <2>3, <3>1, <3>2, <3>3, <3>4, <3>5 DEF Owned
  <2>. QED
    BY <2>6, <2>7 DEF HeapInv
<1>6. CASE PushRefused(c)
  <2>0. /\ call[c].op = "push" /\ tm' = [tm EXCEPT ![call[c].cell] = NoTimer]
        /\ call' = [call EXCEPT ![c] = NoCall]
        /\ UNCHANGED <<init_flag, queue, cur_timer_num, alive, wk, fault>>
    BY <1>6 DEF PushRefused, Returned
  <2>1. init_flag /\ Filled(queue, cur_timer_num) /\ call[c].cell \notin Held(queue)
    BY <1>0, <2>0 DEF InCalls, Queued, Owned
  <2>2. \A b \in Held(queue) : Left'[b] = Left[b]
    <3>1. \A b \in Held(queue) : b \in Cell /\ b # call[c].cell
      BY <1>0, <2>1 DEF TypeOK
    <3>. QED
      BY <1>0, <2>0, <3>1 DEF Left, TypeOK
  <2>3. HeapOrdered'
    <3>1. Ordered(queue, Left', cur_timer_num)
      BY <1>0, <2>1, <2>2, SameOrder DEF HeapOrdered
    <3>. QED
      BY <1>0, <2>0, <3>1 DEF HeapOrdered
  <2>4. Owned'
    <3>1. /\ call'[c].op = "none" /\ call'[c].cell = Null
          /\ \A d \in Caller : d # c => call'[d] = call[d]
      BY <1>0, <2>0 DEF TypeOK, NoCall
    <3>2. MemorySafe'
      BY <1>0, <2>0, StaysSafe DEF Owned
    <3>3. \A d \in Caller : call'[d].op = "push" => d # c /\ call'[d] = call[d] /\ call[d].cell # Null
      BY <1>0, <3>1 DEF InCalls
    <3>4. \A d, e \in Caller : call'[d].op = "push" /\ call'[e].cell = call'[d].cell => d = e
      BY <1>0, <3>1, <3>3 DEF Owned
    <3>5. \A w \in Worker : wk'[w].pc = "popped" =>
             wk'[w].temp \in alive' \ Held(queue)' /\ \A d \in Caller : call'[d].cell # wk'[w].temp
      <4>1. \A w \in Worker : wk[w].pc = "popped" => wk[w].temp # Null
        BY <1>0, HeapAssumption DEF MutexHeld
      <4>. QED
        BY <1>0, <2>0, <3>1, <4>1 DEF Owned
    <3>. QED
      BY <1>0, <2>0, <3>2, <3>3, <3>4, <3>5 DEF Owned
  <2>. QED
    BY <2>3, <2>4 DEF HeapInv
<1>. QED
  BY <1>1, <1>2, <1>3, <1>4, <1>5, <1>6 DEF Calls, PushRest

LEMMA CloseKeepsHeap ==
  ASSUME MhInv, HeapInv, Going, NEW c \in Caller, TiCloseFree(c)
  PROVE  HeapInv'
<1>0. TypeOK /\ InCalls /\ Queued /\ HeapOrdered /\ Owned
  BY DEF MhInv, HeapInv
<1>1. /\ call[c].op = "close" /\ ~ init_flag' /\ queue' = EmptyQueue
      /\ call' = [call EXCEPT ![c] = NoCall] /\ wk' = wk /\ alive' = alive \ Held(queue)
  BY DEF TiCloseFree
<1>2. ~ FreesTwice
  <2>. SUFFICES ASSUME NEW s \in Slot, NEW u \in Slot, queue[s] # Null,
                       queue[s] \in alive => s # u /\ queue[s] = queue[u]
                PROVE  FALSE
    BY DEF FreesTwice
  <2>1. queue[s] \in alive
    BY <1>0 DEF Owned, Held
  <2>2. Filled(queue, cur_timer_num) /\ Distinct(queue, cur_timer_num)
    BY <1>0, <1>1 DEF InCalls, Queued, HeapOrdered
  <2>3. s < cur_timer_num /\ u < cur_timer_num
    BY <2>1, <2>2 DEF Filled
  <2>4. s \in 0 .. cur_timer_num - 1 /\ u \in 0 .. cur_timer_num - 1
    <3>1. cur_timer_num \in 0 .. MaxTimers
      BY <1>0 DEF TypeOK
    <3>. QED
      BY <2>3, <3>1, SlotFacts DEF Slot
  <2>. QED
    BY <2>1, <2>2, <2>4 DEF Distinct
<1>3. MemorySafe'
  BY <1>0, <1>2, Zenon DEF TiCloseFree, Owned, MemorySafe
<1>4. Held(queue)' = {}
  BY <1>1, SlotFacts
<1>5. \A d \in Caller : call'[d].op = "none" /\ call'[d].cell = Null
  BY <1>0, <1>1 DEF InCalls, NoCall, TypeOK
<1>6. \A w \in Worker : wk[w].pc = "popped" => wk[w].temp \in alive \ Held(queue) /\ wk[w].temp # Null
  BY <1>0, HeapAssumption DEF Owned, TypeOK
<1>. QED
  BY <1>0, <1>1, <1>3, <1>4, <1>5, <1>6 DEF HeapInv, HeapOrdered, Owned

(* A worker's steps outside the heap.                                      *)
LEMMA IdleKeepsHeap ==
  ASSUME MhInv, HeapInv, NEW w \in Worker, UNCHANGED <<init_flag, heapVars, call, fault>>,
         \A v \in Worker : v # w => wk'[v] = wk[v], wk'[w].pc # "popped"
  PROVE  HeapInv'
BY StaysSafe DEF heapVars, HeapInv, HeapOrdered, Owned, Left

(* So do the workers, if their pops are shallow.                           *)
LEMMA WorkerKeepsHeap ==
  ASSUME MhInv, HeapInv, Going, NEW w \in Worker, Serve(w), ShallowPop
  PROVE  HeapInv'
<1>. USE DEF confVars, heapVars
<1>0. /\ TypeOK /\ MutexHeld /\ InCalls /\ Queued /\ HeapOrdered /\ Owned
      /\ queue \in Queues /\ cur_timer_num \in 0 .. MaxTimers /\ Held(queue) \subseteq alive
      /\ WkType /\ tm \in [Cell -> Timer]
  BY DEF MhInv, HeapInv, Owned, TypeOK, WkType
<1>a. Left \in [Cell -> Int]
  BY <1>0, IntervalFacts DEF Left, Timer
<1>1. ASSUME \/ wk' = [wk EXCEPT ![w] = NoWorker]
             \/ \E pc \in {"loop", "lock", "read", "end"} : Goto(w, pc)
             \/ wk' = [wk EXCEPT ![w].pc = "loop", ![w].replay = @ + 1],
             UNCHANGED <<init_flag, heapVars, call, fault>>
      PROVE  HeapInv'
  <2>1. (\A v \in Worker : v # w => wk'[v] = wk[v]) /\ wk'[w].pc # "popped"
    BY <1>0, <1>1 DEF Goto, NoWorker, WkType
  <2>. QED
    BY <1>1, <2>1, IdleKeepsHeap
<1>2. CASE Arm(w) \/ Loop(w) \/ Read(w) \/ ReadFails(w) \/ End(w)
  <2>1. /\ \/ wk' = [wk EXCEPT ![w] = NoWorker]
           \/ \E pc \in {"loop", "lock", "read", "end"} : Goto(w, pc)
           \/ wk' = [wk EXCEPT ![w].pc = "loop", ![w].replay = @ + 1]
        /\ UNCHANGED <<init_flag, heapVars, call, fault>>
    BY <1>2 DEF Arm, Loop, Read, ReadFails, End
  <2>. QED
    BY <1>1, <2>1
<1>4. CASE GiveUp(w)
  <2>1. /\ tm' = IF wk[w].pc = "popped" THEN [tm EXCEPT ![wk[w].temp] = NoTimer] ELSE tm
        /\ Goto(w, "end") /\ UNCHANGED <<confVars, queue, cur_timer_num, alive, call, fault>>
    BY <1>4 DEF GiveUp
  <2>2. (\A v \in Worker : v # w => wk'[v] = wk[v]) /\ wk'[w].pc = "end"
    BY <1>0, <2>1 DEF Goto, WkType
  <2>3. \A b \in Held(queue) : Left'[b] = Left[b]
    <3>1. wk[w].pc = "popped" => wk[w].temp \notin Held(queue)
      BY <1>0 DEF Owned
    <3>2. \A b \in Held(queue) : b \in Cell
      BY <1>0 DEF TypeOK
    <3>. QED
      BY <1>0, <2>1, <3>1, <3>2 DEF Left
  <2>4. HeapOrdered'
    <3>1. init_flag => Ordered(queue, Left', cur_timer_num)
      BY <1>0, <2>3, SameOrder DEF HeapOrdered, Queued
    <3>. QED
      BY <1>0, <2>1, <3>1 DEF HeapOrdered
  <2>5. Owned'
    BY <1>0, <2>1, <2>2, StaysSafe DEF Owned
  <2>. QED
    BY <2>4, <2>5 DEF HeapInv
<1>b. CASE RepushClosed(w)
  <2>1. fault' = "closed queue" /\ UNCHANGED <<confVars, heapVars, call, wk>>
    BY <1>b DEF RepushClosed
  <2>. QED
    BY <1>0, <2>1, StaysSafe DEF HeapInv, HeapOrdered, Owned, Left
<1>3. CASE Look(w)
  <2>1. wk[w].pc = "lock" /\ UNCHANGED <<init_flag, heapVars, call>>
    BY <1>3 DEF Look
  <2>2. Head \in alive \cup {Null}
    BY <1>0, SlotFacts DEF Head, Held
  <2>3. CASE Goto(w, "read") /\ UNCHANGED fault
    BY <1>1, <2>1, <2>3
  <2>4. CASE fault' = "closed queue" /\ UNCHANGED wk
    BY <1>0, <2>1, <2>4, StaysSafe DEF HeapInv, HeapOrdered, Owned, Left
  <2>5. CASE /\ wk' = [wk EXCEPT ![w].pc = "fired", ![w].temp = Head]
             /\ UNCHANGED fault
    <3>1. (\A v \in Worker : v # w => wk'[v] = wk[v]) /\ wk'[w].pc = "fired"
      BY <1>0, <2>5 DEF WkType
    <3>. QED
      BY <2>1, <2>5, <3>1, IdleKeepsHeap
  <2>. QED
    BY <1>3, <2>2, <2>3, <2>4, <2>5 DEF Look
<1>5. ASSUME wk[w].pc = "fired", Popped, PopRepeat(w) \/ PopSingle(w)
      PROVE  /\ Held(queue)' = Held(queue) \ {queue[0]} /\ queue[0] \in Held(queue)
             /\ Distinct(queue', cur_timer_num') /\ Ordered(queue', Left, cur_timer_num')
             /\ Cardinality(Held(queue)') = cur_timer_num' /\ TimesAfterPop = Left
             /\ wk[w].temp = queue[0] /\ mh_lock = w /\ init_flag
             /\ \A a \in Held(queue)' : a \in Cell
  <2>1. /\ cur_timer_num \in 1 .. MaxTimers /\ Filled(queue, cur_timer_num) /\ init_flag
    BY <1>5, PoppedFills
  <2>2. cur_timer_num <= 2
    BY <1>5 DEF ShallowPop
  <2>3. Distinct(queue, cur_timer_num) /\ Cardinality(Held(queue)) = cur_timer_num
    BY <1>0, <2>1 DEF HeapOrdered
  <2>4. /\ Held(queue)' = Held(queue) \ {queue[0]}
        /\ Distinct(queue', cur_timer_num - 1) /\ Ordered(queue', Left, cur_timer_num - 1)
        /\ TimesAfterPop = Left
    BY <1>0, <1>a, <1>5, <2>1, <2>2, <2>3, TakenOutOfTwo DEF Popped, TimesAfterPop
  <2>5. queue[0] \in Held(queue) /\ cur_timer_num' = cur_timer_num - 1
    BY <1>0, <1>5, SlotFacts DEF Held, MutexHeld, Popped
  <2>6. Cardinality(Held(queue) \ {queue[0]}) = cur_timer_num - 1
    BY <1>0, <2>1, <2>3, <2>5, HeldFacts, FS_RemoveElement
  <2>7. wk[w].temp = queue[0] /\ mh_lock = w
    BY <1>0, <1>5 DEF MutexHeld, Serving
  <2>8. \A a \in Held(queue)' : a \in Cell
    BY <1>0, <2>1, <2>4, HeldFacts
  <2>. QED
    BY <2>1, <2>4, <2>5, <2>6, <2>7, <2>8
<1>6. CASE PopRepeat(w)
  <2>1. /\ wk[w].pc = "fired" /\ Popped /\ wk' = [wk EXCEPT ![w].pc = "popped"]
        /\ tm' = [a \in Cell |-> [tm[a] EXCEPT !.left = TimesAfterPop[a]]]
        /\ UNCHANGED <<confVars, alive, call, fault>>
    BY <1>6 DEF PopRepeat
  <2>2. /\ Held(queue)' = Held(queue) \ {queue[0]} /\ queue[0] \in Held(queue)
        /\ Distinct(queue', cur_timer_num') /\ Ordered(queue', Left, cur_timer_num')
        /\ Cardinality(Held(queue)') = cur_timer_num' /\ TimesAfterPop = Left
        /\ wk[w].temp = queue[0]
    BY <1>5, <1>6, <2>1
  <2>3. Left' = Left
    BY <1>0, <2>1, <2>2 DEF Left, Timer
  <2>4. HeapOrdered'
    BY <2>2, <2>3 DEF HeapOrdered
  <2>5. /\ wk'[w].pc = "popped" /\ wk'[w].temp = queue[0]
        /\ \A v \in Worker : v # w => wk'[v] = wk[v]
    BY <1>0, <2>1, <2>2 DEF WkType
  <2>6. \A d \in Caller : call[d].cell # queue[0]
    BY <1>0, <2>2, HeapAssumption DEF Owned, InCalls, TypeOK
  <2>7. Owned'
    BY <1>0, <2>1, <2>2, <2>5, <2>6, StaysSafe DEF Owned
  <2>. QED
    BY <2>4, <2>7 DEF HeapInv
<1>7. CASE PopSingle(w)
  <2>1. /\ wk[w].pc = "fired" /\ Popped /\ alive' = alive \ {wk[w].temp}
        /\ tm' = [a \in Cell |-> IF a = wk[w].temp THEN NoTimer
                                 ELSE [tm[a] EXCEPT !.left = TimesAfterPop[a]]]
        /\ Goto(w, "read") /\ UNCHANGED <<confVars, call, fault>>
    BY <1>7 DEF PopSingle
  <2>2. /\ Held(queue)' = Held(queue) \ {queue[0]} /\ queue[0] \in Held(queue)
        /\ Distinct(queue', cur_timer_num') /\ Ordered(queue', Left, cur_timer_num')
        /\ Cardinality(Held(queue)') = cur_timer_num' /\ TimesAfterPop = Left
        /\ wk[w].temp = queue[0] /\ mh_lock = w /\ init_flag
        /\ \A a \in Held(queue)' : a \in Cell
    BY <1>5, <1>7, <2>1
  <2>3. \A a \in Held(queue') : Left'[a] = Left[a]
    BY <1>0, <2>1, <2>2 DEF Left, Timer
  <2>4. HeapOrdered'
    <3>1. /\ queue' \in Queues /\ cur_timer_num' \in 0 .. MaxTimers
          /\ Filled(queue', cur_timer_num')
      BY <2>1, PoppedFills
    <3>2. Ordered(queue', Left', cur_timer_num')
      BY <2>2, <2>3, <3>1, SameOrder
    <3>. QED
      BY <2>2, <3>2 DEF HeapOrdered
  <2>5. /\ wk'[w].pc = "read" /\ \A v \in Worker : v # w => wk'[v] = wk[v]
    BY <1>0, <2>1 DEF WkType, Goto
  <2>6. \A v \in Worker : v # w => wk[v].pc # "popped"
    BY <1>0, <2>2 DEF MutexHeld, Serving
  <2>7. Owned'
    BY <1>0, <2>1, <2>2, <2>5, <2>6, StaysSafe DEF Owned
  <2>. QED
    BY <2>4, <2>7 DEF HeapInv
<1>8. CASE Repush(w)
  <2>. DEFINE a == wk[w].temp
              time == [Left EXCEPT ![a] = tm[a].interval]
  <2>1. /\ wk[w].pc = "popped" /\ queue' = PutIn(queue, time, cur_timer_num, a)
        /\ tm' = [tm EXCEPT ![a].left = tm[a].interval]
        /\ cur_timer_num' = cur_timer_num + 1 /\ Goto(w, "read") /\ init_flag
        /\ UNCHANGED <<confVars, alive, call, fault>>
    BY <1>8 DEF Repush
  <2>2. /\ a \in Cell \ Held(queue) /\ a \in alive /\ init_flag /\ cur_timer_num \in Slot
        /\ mh_lock = w
    BY <1>0, <2>1, SlotFacts DEF MutexHeld, Owned, Serving
  <2>3. time \in [Cell -> Int] /\ \A b \in Held(queue) : time[b] = Left[b]
    <3>1. tm[a].interval \in Int
      <4>1. tm[a] \in Timer
        BY <1>0, <2>2
      <4>. QED
        BY <4>1, IntervalFacts DEF Timer
    <3>2. time \in [Cell -> Int]
      BY <1>a, <3>1
    <3>3. ASSUME NEW b \in Held(queue) PROVE time[b] = Left[b]
      <4>1. b \in Cell /\ b # a
        BY <1>0, <2>2 DEF TypeOK
      <4>. QED
        BY <4>1 DEF Left
    <3>. QED
      BY <3>2, <3>3
  <2>4. Left' = time
    BY <1>0, <2>1, <2>2 DEF Left, Timer
  <2>. HIDE DEF time, a
  <2>5. /\ Filled(queue, cur_timer_num) /\ Distinct(queue, cur_timer_num)
        /\ Cardinality(Held(queue)) = cur_timer_num /\ Ordered(queue, Left, cur_timer_num)
    BY <1>0, <2>2 DEF Queued, HeapOrdered
  <2>6. Ordered(queue, time, cur_timer_num)
    BY <1>0, <2>3, <2>5, SameOrder
  <2>7. Held(queue)' = Held(queue) \cup {a}
    BY <1>0, <2>1, <2>2, <2>5, PutInFills
  <2>8. Distinct(queue', cur_timer_num + 1) /\ Ordered(queue', time, cur_timer_num + 1)
    BY <1>0, <2>1, <2>2, <2>3, <2>5, <2>6, PutInOrders
  <2>9. Cardinality(Held(queue) \cup {a}) = cur_timer_num + 1
    BY <1>0, <2>2, <2>5, HeldFacts, FS_AddElement
  <2>10. HeapOrdered'
    BY <2>1, <2>4, <2>7, <2>8, <2>9 DEF HeapOrdered
  <2>11. /\ wk'[w].pc = "read" /\ \A v \in Worker : v # w => wk'[v] = wk[v]
    BY <1>0, <2>1 DEF WkType, Goto
  <2>12. \A v \in Worker : v # w => wk[v].pc # "popped"
    BY <1>0, <2>2 DEF MutexHeld, Serving
  <2>13. \A d \in Caller : call[d].cell # a
    BY <1>0, <2>1 DEF Owned, a
  <2>14. Owned'
    BY <1>0, <2>1, <2>2, <2>7, <2>11, <2>12, <2>13, StaysSafe DEF Owned
  <2>. QED
    BY <2>10, <2>14 DEF HeapInv
<1>. QED
  BY <1>2, <1>b, <1>3, <1>4, <1>6, <1>7, <1>8 DEF Serve

(* A second less is left to every timer of the heap, so none overtakes.    *)
LEMMA SecondKeepsHeap ==
  ASSUME MhInv, HeapInv, Second
  PROVE  HeapInv'
<1>. USE DEF confVars, heapVars
<1>0. /\ Queued /\ HeapOrdered /\ Owned /\ tm \in [Cell -> Timer]
      /\ queue \in Queues /\ cur_timer_num \in 0 .. MaxTimers /\ Held(queue) \subseteq Running
  BY DEF MhInv, HeapInv, TypeOK, Running
<1>1. /\ tm' = [a \in Cell |-> IF a \in Running THEN [tm[a] EXCEPT !.left = @ - 1] ELSE tm[a]]
      /\ UNCHANGED <<init_flag, queue, cur_timer_num, alive, call, wk, fault>>
  BY DEF Second
<1>2. \A a \in Cell : Left[a] \in Int /\ (a \in Running => Left'[a] = Left[a] - 1)
  BY <1>0, <1>1 DEF Timer, Left
<1>3. ASSUME init_flag PROVE Ordered(queue, Left', cur_timer_num)
  <2>1. Filled(queue, cur_timer_num) /\ Ordered(queue, Left, cur_timer_num)
    BY <1>0, <1>3 DEF Queued, HeapOrdered
  <2>2. ASSUME NEW s \in 1 .. cur_timer_num - 1
        PROVE  Left'[queue[Parent(s)]] <= Left'[queue[s]]
    <3>1. s \in Nat \ {0} /\ cur_timer_num \in Nat
      BY <1>0, SlotFacts
    <3>2. Parent(s) \in 0 .. cur_timer_num - 1 /\ s \in 0 .. cur_timer_num - 1
      BY <3>1, ParentFacts
    <3>3. queue[Parent(s)] \in Held(queue) /\ queue[s] \in Held(queue)
      BY <1>0, <2>1, <3>2, HeldFacts
    <3>4. queue[Parent(s)] \in Cell /\ queue[s] \in Cell
      BY <1>0, <2>1, <3>3, HeldFacts
    <3>5. Left[queue[Parent(s)]] <= Left[queue[s]]
      BY <2>1 DEF Ordered
    <3>. QED
      BY <1>0, <1>2, <3>3, <3>4, <3>5
  <2>. QED
    BY <2>2 DEF Ordered
<1>4. HeapOrdered'
  BY <1>0, <1>1, <1>3 DEF HeapOrdered
<1>5. Owned'
  BY <1>0, <1>1, StaysSafe DEF Owned
<1>. QED
  BY <1>4, <1>5 DEF HeapInv

LEMMA HeapStep == MhInv /\ HeapInv /\ [Next]_vars /\ [ShallowPop]_vars => HeapInv'
<1>. SUFFICES ASSUME MhInv, HeapInv, [Next]_vars, [ShallowPop]_vars PROVE HeapInv'
  OBVIOUS
<1>1. CASE UNCHANGED vars
  BY <1>1, StaysSafe DEF HeapInv, HeapOrdered, Owned, Left, vars, confVars, heapVars
<1>2. CASE Next /\ ShallowPop
  BY <1>2, CallerKeepsHeap, CloseKeepsHeap, WorkerKeepsHeap, SecondKeepsHeap DEF Next, BusyNext
<1>. QED
  BY <1>1, <1>2

(* The inductive invariant of the heap.                                    *)
THEOREM HeapInvariant == Spec /\ ShallowPops => [](MhInv /\ HeapInv)
  BY MhInit, MhStep, HeapInit, HeapStep, PTL DEF Spec, ShallowPops

(* Through pushes by any number of callers, repushes, stops between any    *)
(* two steps, closes and restarts, the counted slots hold live timers, no  *)
(* two the same.                                                           *)
THEOREM HeapStaysSound == Spec /\ ShallowPops => []HeapSound
<1>1. MhInv /\ HeapInv => HeapSound
  <2>. SUFFICES ASSUME MhInv, HeapInv, init_flag
                PROVE  /\ \A s \in Slot : IF s < cur_timer_num THEN queue[s] \in alive
                                                               ELSE queue[s] = Null
                       /\ Cardinality(Held(queue)) = cur_timer_num
    BY DEF HeapSound
  <2>1. Filled(queue, cur_timer_num) /\ Held(queue) \subseteq alive
    BY DEF MhInv, Queued, HeapInv, Owned
  <2>. QED
    BY <2>1 DEF Filled, Held, HeapInv, HeapOrdered
<1>. QED
  BY <1>1, HeapInvariant, PTL

(* Whatever starts, stops, closes and new lives the workers of earlier     *)
(* starts meet, no worker finds a freed timer at the head of a queue that  *)
(* is in use, and ti_close frees no timer twice.                           *)
THEOREM HeapMemorySafe == Spec /\ ShallowPops => []MemorySafe
<1>1. HeapInv => MemorySafe
  BY DEF HeapInv, Owned
<1>. QED
  BY <1>1, HeapInvariant, PTL

(* The timer that expires first is at the head of the queue.               *)
THEOREM HeadExpiresFirst == Spec /\ ShallowPops => []LeastFirst
<1>1. MhInv /\ HeapInv => LeastFirst
  <2>. SUFFICES ASSUME MhInv, HeapInv, init_flag, NEW s \in Slot, queue[s] # Null
                PROVE  Left[queue[0]] <= Left[queue[s]]
    BY DEF LeastFirst
  <2>1. /\ Filled(queue, cur_timer_num) /\ Ordered(queue, Left, cur_timer_num)
        /\ queue \in Queues /\ cur_timer_num \in 0 .. MaxTimers /\ tm \in [Cell -> Timer]
    BY DEF MhInv, Queued, HeapInv, HeapOrdered, TypeOK
  <2>2. Left \in [Cell -> Int]
    BY <2>1, IntervalFacts DEF Left, Timer
  <2>3. s \in 0 .. cur_timer_num - 1
    BY <2>1, SlotFacts DEF Filled, Slot
  <2>. QED
    BY <2>1, <2>2, <2>3, RootLeast
<1>. QED
  BY <1>1, HeapInvariant, PTL

(* No timer is lost: it leaves the queue only with the queue, or taken out *)
(* by the worker that has the mutex and has run its callback.              *)
THEOREM HeapPopsWhatFired == Spec /\ ShallowPops => PopsWhatFired
<1>. DEFINE Fair == \A a \in Held(queue) \ Held(queue') :
                      ~ init_flag' \/ \E w \in Worker : mh_lock = w /\ wk[w].temp = a
<1>1. MhInv /\ HeapInv /\ [Next]_vars /\ [ShallowPop]_vars => [Fair]_vars
  <2>. SUFFICES ASSUME MhInv, HeapInv, Going, Next, ShallowPop,
                       NEW a \in Held(queue) \ Held(queue'), init_flag'
                PROVE  \E w \in Worker : mh_lock = w /\ wk[w].temp = a
    BY DEF Next, BusyNext
  <2>. USE DEF confVars, heapVars
  <2>0. /\ TypeOK /\ MutexHeld /\ InCalls /\ Queued /\ HeapOrdered
        /\ queue \in Queues /\ cur_timer_num \in 0 .. MaxTimers
    BY DEF MhInv, HeapInv, TypeOK
  <2>1. queue' # queue
    OBVIOUS
  <2>2. ASSUME NEW c \in Caller,
               Calls(c) \/ PushRest(c) \/ TiCloseFree(c) \/ \E on \in BOOLEAN : TiEnable(c, on)
        PROVE  FALSE
    <3>1. CASE TiInit(c)
      BY <2>0, <3>1, SlotFacts DEF TiInit, Queued
    <3>2. CASE TiCloseFree(c)
      BY <3>2 DEF TiCloseFree
    <3>3. CASE PushLocked(c)
      <4>1. /\ call[c].op = "push" /\ queue' = PutIn(queue, Left, cur_timer_num, call[c].cell)
            /\ cur_timer_num < MaxTimers
        BY <3>3 DEF PushLocked
      <4>2. call[c].cell \in Cell /\ cur_timer_num \in Slot /\ Filled(queue, cur_timer_num)
        <5>1. call[c].cell \in Cell \cup {Null}
          BY <2>0 DEF TypeOK
        <5>. QED
          BY <2>0, <4>1, <5>1, SlotFacts DEF InCalls, Queued
      <4>3. Held(queue') = Held(queue) \cup {call[c].cell}
        BY <2>0, <4>1, <4>2, PutInFills
      <4>. QED
        BY <4>3
    <3>. QED
      BY <2>1, <2>2, <3>1, <3>2, <3>3
         DEF Calls, PushRest, TiClose, TiStop, TiStart, TiPush, PushRefused, TiEnable
  <2>3. ASSUME NEW w \in Worker, Serve(w)
        PROVE  mh_lock = w /\ wk[w].temp = a
    <3>1. CASE PopRepeat(w) \/ PopSingle(w)
      <4>1. wk[w].pc = "fired" /\ Popped
        BY <3>1 DEF PopRepeat, PopSingle
      <4>2. /\ cur_timer_num \in 1 .. MaxTimers /\ Filled(queue, cur_timer_num) /\ init_flag
            /\ Left \in [Cell -> Int]
        BY <4>1, PoppedFills
      <4>4. Held(queue') = Held(queue) \ {queue[0]}
        BY <2>0, <3>1, <4>1, <4>2, TakenOutOfTwo DEF Popped, ShallowPop, HeapOrdered
      <4>5. wk[w].temp = queue[0] /\ mh_lock = w
        BY <2>0, <4>1 DEF MutexHeld, Serving
      <4>. QED
        BY <4>4, <4>5
    <3>2. CASE Repush(w)
      <4>1. /\ wk[w].pc = "popped" /\ cur_timer_num < MaxTimers /\ init_flag
            /\ wk[w].temp \in Cell
        BY <2>0, <3>2 DEF Repush, MutexHeld
      <4>2. cur_timer_num \in Slot /\ Filled(queue, cur_timer_num)
        BY <2>0, <4>1, SlotFacts DEF Queued
      <4>3. Held(queue') = Held(queue) \cup {wk[w].temp}
        BY <2>0, <3>2, <4>1, <4>2, PutInFills DEF Repush
      <4>. QED
        BY <4>3
    <3>. QED
      BY <2>1, <2>3, <3>1, <3>2 DEF Serve, Arm, Loop, Look, GiveUp, Read, ReadFails, RepushClosed, End
  <2>4. ~ Second
    BY <2>1 DEF Second
  <2>. QED
    BY <2>2, <2>3, <2>4 DEF Next, BusyNext
<1>. QED
  BY <1>1, HeapInvariant, PTL DEF Spec, ShallowPops, PopsWhatFired
=============================================================================
