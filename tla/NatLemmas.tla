----------------------------- MODULE NatLemmas -----------------------------
(***************************************************************************)
(* Facts about numbers that the proofs of several components use.          *)
(***************************************************************************)
EXTENDS Integers, FiniteSetsExt, WellFoundedInduction, TLAPS

(* A set of natural numbers that is not empty has a least member.          *)
LEMMA LeastNat ==
  ASSUME NEW S \in SUBSET Nat, S # {}
  PROVE  \E x \in S : \A y \in S : x <= y
<1>1. PICK x \in S : \A y \in S : ~ (<<y, x>> \in OpToRel(<, Nat))
  BY NatLessThanWellFounded, WFMin
<1>2. ASSUME NEW y \in S PROVE x <= y
  <2>1. y \in Nat /\ x \in Nat
    OBVIOUS
  <2>2. y < x => <<y, x>> \in OpToRel(<, Nat)
    BY <2>1, Zenon DEF OpToRel
  <2>3. ~ (y < x)
    BY <1>1, <2>2, Zenon
  <2>. QED
    BY <2>1, <2>3
<1>. QED
  BY <1>2

LEMMA MinOfNats ==
  ASSUME NEW S \in SUBSET Nat, S # {}
  PROVE  Min(S) \in S /\ \A y \in S : Min(S) <= y
BY LeastNat DEF Min

(* A set of natural numbers that holds 0 and the successor of each of its  *)
(* members, as far as a bound, holds every number up to the bound.         *)
LEMMA UpTo ==
  ASSUME NEW bound \in Nat, NEW S, 0 \in S,
         \A i \in 0 .. bound : i < bound /\ i \in S => i + 1 \in S
  PROVE  0 .. bound \subseteq S
<1>. DEFINE Missing == {i \in 0 .. bound : i \notin S}
<1>1. SUFFICES ASSUME Missing # {} PROVE FALSE
  OBVIOUS
<1>2. PICK i \in Missing : \A j \in Missing : i <= j
  <2>1. Missing \in SUBSET Nat
    OBVIOUS
  <2>. HIDE DEF Missing
  <2>. QED
    BY <1>1, <2>1, LeastNat
<1>3. i - 1 \in 0 .. bound /\ i - 1 < bound
  BY <1>2
<1>4. i - 1 \in S
  BY <1>2, <1>3
<1>. QED
  BY <1>2, <1>3, <1>4

(* Multiplication by a natural number is monotonic.                        *)
LEMMA TimesMono ==
  ASSUME NEW a \in Int, NEW b \in Int, NEW c \in Nat, a <= b
  PROVE  a * c <= b * c
<1>1. (b - a) * c >= 0
  OBVIOUS
<1>. QED
  BY <1>1

(* Quotient and remainder, and that they are unique.                       *)
LEMMA DivMod ==
  ASSUME NEW a \in Int, NEW b \in Nat \ {0}
  PROVE  /\ a \div b \in Int
         /\ a % b \in 0 .. b - 1
         /\ a = (a \div b) * b + (a % b)
OBVIOUS

LEMMA UniqueRemainder ==
  ASSUME NEW k \in Int, NEW b \in Nat \ {0}, NEW y \in 0 .. b - 1
  PROVE  (k * b + y) % b = y
<1>. DEFINE x == k * b + y
            d == x \div b
<1>1. x \in Int
  OBVIOUS
<1>2. d \in Int /\ x % b \in 0 .. b - 1 /\ x = d * b + (x % b)
  BY <1>1, DivMod
<1>. HIDE DEF d
<1>3. ~ (k < d)
  <2>1. SUFFICES ASSUME k + 1 <= d PROVE FALSE
    BY <1>2
  <2>2. (k + 1) * b <= d * b
    BY <1>2, <2>1, TimesMono
  <2>3. (k + 1) * b = k * b + b
    OBVIOUS
  <2>. QED
    BY <1>2, <2>2, <2>3
<1>4. ~ (d < k)
  <2>1. SUFFICES ASSUME d + 1 <= k PROVE FALSE
    BY <1>2
  <2>2. (d + 1) * b <= k * b
    BY <1>2, <2>1, TimesMono
  <2>3. (d + 1) * b = d * b + b
    BY <1>2
  <2>. QED
    BY <1>2, <2>2, <2>3
<1>5. d = k
  BY <1>2, <1>3, <1>4
<1>. QED
  BY <1>2, <1>5

LEMMA UniqueQuotient ==
  ASSUME NEW k \in Int, NEW b \in Nat \ {0}, NEW y \in 0 .. b - 1
  PROVE  (k * b + y) \div b = k
<1>. DEFINE x == k * b + y
            d == x \div b
<1>1. x \in Int /\ x % b = y
  BY UniqueRemainder
<1>2. d \in Int /\ x = d * b + y
  <2>. HIDE DEF x
  <2>. QED
    BY <1>1, DivMod
<1>. HIDE DEF d
<1>3. ASSUME NEW i \in Int, NEW j \in Int, i * b = j * b PROVE ~ (i + 1 <= j)
  <2>1. SUFFICES ASSUME i + 1 <= j PROVE FALSE
    OBVIOUS
  <2>2. (i + 1) * b <= j * b
    BY <2>1, TimesMono
  <2>3. (i + 1) * b = i * b + b
    OBVIOUS
  <2>. QED
    BY <1>3, <2>2, <2>3
<1>4. k * b = d * b /\ d * b = k * b
  <2>1. k * b \in Int /\ d * b \in Int
    BY <1>2
  <2>. QED
    BY <1>2, <2>1
<1>5. ~ (k + 1 <= d) /\ ~ (d + 1 <= k)
  BY <1>2, <1>3, <1>4
<1>. QED
  BY <1>2, <1>5

(* One less than a number: its quotient drops where it divides evenly.     *)
LEMMA QuotientBefore ==
  ASSUME NEW d \in Int, NEW n \in Nat \ {0}
  PROVE  (d - 1) \div n = (d \div n) - (IF d % n = 0 THEN 1 ELSE 0)
<1>. DEFINE q == d \div n
            r == d % n
<1>1. q \in Int /\ r \in 0 .. n - 1 /\ d = q * n + r
  BY DivMod
<1>. HIDE DEF q, r
<1>2. CASE r = 0
  <2>1. ((q - 1) * n + (n - 1)) \div n = q - 1
    BY <1>1, UniqueQuotient
  <2>2. (q - 1) * n = q * n - n
    BY <1>1
  <2>3. (q - 1) * n + (n - 1) = d - 1
    BY <1>1, <1>2, <2>2
  <2>. QED
    BY <1>1, <1>2, <2>1, <2>3 DEF q, r
<1>3. CASE r # 0
  <2>1. r - 1 \in 0 .. n - 1
    BY <1>1, <1>3
  <2>2. (q * n + (r - 1)) \div n = q
    BY <1>1, <2>1, UniqueQuotient
  <2>3. q * n \in Int
    BY <1>1
  <2>4. q * n + (r - 1) = d - 1
    BY <1>1, <2>3
  <2>. QED
    BY <1>1, <1>3, <2>2, <2>4 DEF q, r
<1>. QED
  BY <1>2, <1>3

(* Whole turns do not change a remainder.                                  *)
LEMMA TurnsAside ==
  ASSUME NEW a \in Int, NEW k \in Int, NEW b \in Nat \ {0}
  PROVE  (a + k * b) % b = a % b
<1>. DEFINE q == a \div b
            r == a % b
<1>1. q \in Int /\ r \in 0 .. b - 1 /\ a = q * b + r
  BY DivMod
<1>. HIDE DEF q, r
<1>2. ((q + k) * b + r) % b = r
  BY <1>1, UniqueRemainder
<1>3. (q + k) * b + r = a + k * b
  <2>1. (q + k) * b = q * b + k * b
    BY <1>1
  <2>. QED
    BY <1>1, <2>1
<1>. QED
  BY <1>2, <1>3 DEF r

(* A quotient is no more than what is divided.                              *)
LEMMA QuotientBound ==
  ASSUME NEW a \in Nat, NEW b \in Nat \ {0}
  PROVE  a \div b \in Nat /\ a \div b <= a
<1>. DEFINE q == a \div b
            s == a % b
<1>1. q \in Int /\ s \in 0 .. b - 1 /\ a = q * b + s
  BY DivMod
<1>. HIDE DEF q, s
<1>2. q >= 0
  <2>1. SUFFICES ASSUME q <= -1 PROVE FALSE
    BY <1>1
  <2>2. q * b <= (-1) * b
    BY <1>1, <2>1, TimesMono
  <2>. QED
    BY <1>1, <2>2
<1>3. q <= a
  <2>1. 1 * q <= b * q
    BY <1>1, <1>2, TimesMono
  <2>. QED
    BY <1>1, <2>1
<1>. QED
  BY <1>1, <1>2, <1>3 DEF q
-----------------------------------------------------------------------------
(***************************************************************************)
(* Recursive functions.  One that at x of D is base[x], or depends on x    *)
(* and on its own value at nxt[x], exists if some natural number gets      *)
(* smaller on the way from x to nxt[x].                                    *)
(***************************************************************************)
Descends(D, Stop, nxt, m, bound) ==
  /\ Stop \subseteq D /\ nxt \in [D -> D] /\ m \in [D -> Nat] /\ bound \in Nat
  /\ \A x \in D : m[x] <= bound
  /\ \A x \in D \ Stop : m[nxt[x]] < m[x]

Recurses(f, D, Stop, nxt, base, g) ==
  \A x \in D : f[x] = IF x \in Stop THEN base[x] ELSE g[<<x, f[nxt[x]]>>]

LEMMA RecursionExists ==
  ASSUME NEW D, NEW Stop, NEW nxt, NEW m, NEW bound, Descends(D, Stop, nxt, m, bound),
         NEW R, NEW base \in [D -> R], NEW g \in [D \X R -> R]
  PROVE  \E f \in [D -> R] : Recurses(f, D, Stop, nxt, base, g)
<1>. USE DEF Descends, Recurses
<1>. DEFINE Body(f, x) == IF x \in Stop THEN base[x] ELSE g[<<x, f[nxt[x]]>>]
            Good == {k \in 0 .. bound :
                       \E f \in [D -> R] : \A x \in D : m[x] <= k => f[x] = Body(f, x)}
<1>1. \A f \in [D -> R], x \in D : Body(f, x) \in R
  OBVIOUS
<1>2. \A f, h \in [D -> R], x \in D : f[nxt[x]] = h[nxt[x]] => Body(f, x) = Body(h, x)
  OBVIOUS
<1>3. 0 \in Good
  <2>. DEFINE f == [x \in D |-> base[x]]
  <2>1. f \in [D -> R]
    OBVIOUS
  <2>2. ASSUME NEW x \in D, m[x] <= 0 PROVE f[x] = Body(f, x)
    <3>1. x \in Stop
      <4>1. nxt[x] \in D
        OBVIOUS
      <4>2. m[nxt[x]] \in Nat /\ m[x] \in Nat
        BY <4>1
      <4>. QED
        BY <2>2, <4>2
    <3>. QED
      BY <3>1
  <2>. QED
    BY <2>1, <2>2
<1>4. ASSUME NEW k \in 0 .. bound, k < bound, k \in Good PROVE k + 1 \in Good
  <2>1. PICK f \in [D -> R] : \A x \in D : m[x] <= k => f[x] = Body(f, x)
    BY <1>4
  <2>. DEFINE h == [x \in D |-> IF m[x] <= k THEN f[x] ELSE Body(f, x)]
  <2>2. h \in [D -> R]
    BY <1>1, <2>1
  <2>3. ASSUME NEW x \in D, m[x] <= k + 1 PROVE h[x] = Body(h, x)
    <3>1. h[x] = Body(f, x)
      BY <2>1
    <3>2. CASE x \in Stop
      BY <3>1, <3>2
    <3>3. CASE x \notin Stop
      <4>1. nxt[x] \in D /\ m[nxt[x]] \in Nat /\ m[x] \in Nat /\ m[nxt[x]] < m[x]
        BY <3>3
      <4>2. m[nxt[x]] <= k
        BY <2>3, <4>1
      <4>3. h[nxt[x]] = f[nxt[x]]
        BY <4>1, <4>2
      <4>. HIDE DEF h, Body
      <4>. QED
        BY <1>2, <2>2, <3>1, <4>3
    <3>. QED
      BY <3>2, <3>3
  <2>4. k + 1 \in 0 .. bound
    BY <1>4
  <2>. HIDE DEF h, Body
  <2>. QED
    BY <2>2, <2>3, <2>4
<1>5. bound \in Good
  <2>1. 0 .. bound \subseteq Good
    <3>. HIDE DEF Good
    <3>. QED
      BY <1>3, <1>4, UpTo
  <2>. HIDE DEF Good
  <2>. QED
    BY <2>1
<1>. QED
  BY <1>5

(***************************************************************************)
(* A loop that goes from x to nxt[x] until it stops ends where it stops,   *)
(* and keeps to any set that its steps do not leave.                       *)
(***************************************************************************)
Iterates(f, D, Stop, nxt) ==
  \A x \in D : f[x] = IF x \in Stop THEN x ELSE f[nxt[x]]

LEMMA LoopExists ==
  ASSUME NEW D, NEW Stop, NEW nxt, NEW m, NEW bound, Descends(D, Stop, nxt, m, bound)
  PROVE  \E f \in [D -> D] : Iterates(f, D, Stop, nxt)
<1>. DEFINE base == [x \in D |-> x]
            g == [p \in D \X D |-> p[2]]
<1>1. base \in [D -> D] /\ g \in [D \X D -> D] /\ \A x, y \in D : g[<<x, y>>] = y
  OBVIOUS
<1>2. \A x \in D : base[x] = x
  OBVIOUS
<1>. HIDE DEF base, g
<1>3. PICK f \in [D -> D] : Recurses(f, D, Stop, nxt, base, g)
  BY <1>1, RecursionExists
<1>4. \A x \in D : f[x] = IF x \in Stop THEN x ELSE f[nxt[x]]
  <2>1. \A x \in D : f[nxt[x]] \in D
    BY DEF Descends
  <2>. QED
    BY <1>1, <1>2, <1>3, <2>1 DEF Recurses
<1>. QED
  BY <1>4 DEF Iterates

Closed(P, D, Stop, nxt) == P \subseteq D /\ \A x \in P \ Stop : nxt[x] \in P

LEMMA LoopKeeps ==
  ASSUME NEW D, NEW Stop, NEW nxt, NEW m, NEW bound, Descends(D, Stop, nxt, m, bound),
         NEW f, Iterates(f, D, Stop, nxt),
         NEW P, Closed(P, D, Stop, nxt)
  PROVE  \A x \in P : f[x] \in P \cap Stop
<1>. USE DEF Descends, Iterates, Closed
<1>. DEFINE Good == {k \in 0 .. bound : \A x \in P : m[x] <= k => f[x] \in P \cap Stop}
<1>1. \A x \in P \ Stop : m[nxt[x]] \in Nat /\ m[x] \in Nat /\ m[nxt[x]] < m[x]
  OBVIOUS
<1>2. 0 \in Good
  BY <1>1
<1>3. ASSUME NEW k \in 0 .. bound, k < bound, k \in Good PROVE k + 1 \in Good
  <2>1. ASSUME NEW x \in P, m[x] <= k + 1 PROVE f[x] \in P \cap Stop
    <3>1. CASE x \in Stop
      BY <3>1
    <3>2. CASE x \notin Stop
      <4>1. m[nxt[x]] <= k /\ nxt[x] \in P
        BY <1>1, <2>1, <3>2
      <4>. QED
        BY <1>3, <3>2, <4>1
    <3>. QED
      BY <3>1, <3>2
  <2>2. k + 1 \in 0 .. bound
    BY <1>3
  <2>. QED
    BY <2>1, <2>2
<1>4. bound \in Good
  <2>1. bound \in 0 .. bound
    OBVIOUS
  <2>. HIDE DEF Good
  <2>. QED
    BY <1>2, <1>3, <2>1, UpTo
<1>. QED
  BY <1>4
=============================================================================
