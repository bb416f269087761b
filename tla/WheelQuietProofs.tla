-------------------------- MODULE WheelQuietProofs --------------------------
(***************************************************************************)
(* Proofs about the timing wheel under quiet callers, which keep out of    *)
(* the way of the walk: what the lists of the slots hold, whatever was     *)
(* deleted, stopped or restarted in between.                               *)
(***************************************************************************)
EXTENDS WheelProofs, FiniteSetTheorems

(***************************************************************************)
(* Circular lists: every node of `cells` is in the list of the header      *)
(* home[x], rank[x] steps from it.  The ranks keep cycles without a header *)
(* out, and bound the way to a node by the length of its list.             *)
(***************************************************************************)
Class(cells, home, s) == {a \in cells : home[a] = s}

DoublyLinked(l, on) ==
  \A x \in on :
    /\ l.next[x] \in on /\ l.prev[l.next[x]] = x
    /\ l.prev[x] \in on /\ l.next[l.prev[x]] = x

Ranked(l, cells, heads, home, rank) ==
  /\ \A s \in heads : home[s] = s /\ rank[s] = 0
  /\ \A x \in cells \cup heads : home[l.next[x]] = home[x]
  /\ \A x \in cells \cup heads : l.next[x] \in cells => rank[l.next[x]] = rank[x] + 1
  /\ \A x \in cells : home[x] \in heads /\ rank[x] > 0 /\ rank[x] <= rank[l.prev[home[x]]]
  /\ \A x, y \in cells : home[x] = home[y] /\ rank[x] = rank[y] => x = y
  /\ \A s \in heads : rank[l.prev[s]] <= Cardinality(Class(cells, home, s))

Lists(l, cells, heads, home, rank) ==
  /\ DoublyLinked(l, cells \cup heads)
  /\ Ranked(l, cells, heads, home, rank)

LEMMA ClassFinite ==
  ASSUME NEW cells \in SUBSET Addr, NEW home, NEW s
  PROVE  IsFiniteSet(Class(cells, home, s)) /\ Cardinality(Class(cells, home, s)) \in Nat
<1>1. Class(cells, home, s) \subseteq Addr /\ IsFiniteSet(Addr)
  BY WheelAssumption DEF Class
<1>. QED
  BY <1>1, FS_Subset, FS_CardinalityType

(* list_del keeps the lists.                                               *)
LEMMA UnlinkedLists ==
  ASSUME NEW l \in LinkTables, NEW cells \in SUBSET Addr, NEW heads \in SUBSET Slots,
         NEW home \in [Nodes -> Int], NEW rank \in [Nodes -> Nat],
         Lists(l, cells, heads, home, rank), NEW a \in cells
  PROVE  \E rank2 \in [Nodes -> Nat] :
            Lists(Unlinked(l, a), cells \ {a}, heads, home, rank2)
<1>. DEFINE p  == l.prev[a]
            n  == l.next[a]
            on == cells \cup heads
            l2 == Unlinked(l, a)
            cells2 == cells \ {a}
            on2 == cells2 \cup heads
            rank2 == [x \in Nodes |-> IF x \in cells /\ home[x] = home[a] /\ rank[x] > rank[a]
                                        THEN rank[x] - 1 ELSE rank[x]]
<1>1. /\ l.next \in [Nodes -> Places] /\ l.prev \in [Nodes -> Places]
      /\ on \subseteq Nodes /\ a \in on /\ a \notin heads /\ on2 = on \ {a}
      /\ heads \cap cells = {}
  BY SlotFacts DEF LinkTables, Nodes
<1>2. DoublyLinked(l, on) /\ Ranked(l, cells, heads, home, rank)
  BY DEF Lists
<1>3. p \in on /\ n \in on /\ l.next[p] = a /\ l.prev[n] = a
  BY <1>1, <1>2 DEF DoublyLinked
<1>4. /\ rank[a] = rank[p] + 1 /\ home[p] = home[a] /\ home[n] = home[a]
      /\ n \in cells => rank[n] = rank[a] + 1
  BY <1>1, <1>2, <1>3 DEF Ranked
<1>5. \A x \in on : rank[x] \in Nat /\ home[x] \in Int
  BY <1>1
<1>6. p # a /\ n # a
  BY <1>1, <1>3, <1>4, <1>5
<1>7. /\ \A x \in on2 : l2.next[x] = IF x = p THEN n ELSE l.next[x]
      /\ \A x \in on2 : l2.prev[x] = IF x = n THEN p ELSE l.prev[x]
  BY <1>1 DEF Unlinked
<1>8. /\ \A x \in on2 : x # p => l.next[x] # a
      /\ \A x \in on2 : x # n => l.prev[x] # a
  BY <1>1, <1>2 DEF DoublyLinked
<1>. HIDE DEF l2, p, n
<1>9. DoublyLinked(l2, on2)
  BY <1>1, <1>2, <1>3, <1>6, <1>7, <1>8 DEF DoublyLinked
<1>10. rank2 \in [Nodes -> Nat]
  BY <1>1, <1>5 DEF p
<1>11. \A x \in on : rank2[x] = IF x \in cells /\ home[x] = home[a] /\ rank[x] > rank[a]
                                   THEN rank[x] - 1 ELSE rank[x]
  BY <1>1
<1>. HIDE DEF rank2
<1>12. \A x, y \in cells : home[x] = home[y] /\ rank[x] = rank[y] => x = y
  BY <1>2 DEF Ranked
<1>13. \A s \in heads : /\ home[s] = s /\ rank[s] = 0 /\ s \notin cells /\ s \in on2
                        /\ l.prev[s] \in on /\ l.next[l.prev[s]] = s /\ home[l.prev[s]] = s
  BY <1>1, <1>2 DEF Ranked, DoublyLinked
<1>14. \A x \in cells : home[x] \in heads /\ rank[x] > 0 /\ rank[x] <= rank[l.prev[home[x]]]
  BY <1>2 DEF Ranked
<1>15. \A x \in on : l.next[x] \in on /\ home[l.next[x]] = home[x]
                     /\ (l.next[x] \in cells => rank[l.next[x]] = rank[x] + 1)
  BY <1>2 DEF Ranked, DoublyLinked
\* the last node of a list
<1>16. ASSUME NEW s \in heads, s # home[a]
       PROVE  l2.prev[s] = l.prev[s] /\ rank2[l2.prev[s]] = rank[l.prev[s]]
  <2>1. s # n /\ l2.prev[s] = l.prev[s] /\ l.prev[s] \in on /\ home[l.prev[s]] # home[a]
    BY <1>4, <1>7, <1>13, <1>16
  <2>. QED
    BY <2>1, <1>11
<1>17. n = home[a] => l2.prev[home[a]] = p /\ rank2[p] = rank[a] - 1 /\ l.prev[home[a]] = a
  BY <1>1, <1>3, <1>4, <1>5, <1>7, <1>11, <1>13, <1>14
<1>18. n # home[a] => /\ l2.prev[home[a]] = l.prev[home[a]]
                      /\ rank[l.prev[home[a]]] > rank[a]
                      /\ rank2[l.prev[home[a]]] = rank[l.prev[home[a]]] - 1
  <2>. DEFINE z == l.prev[home[a]]
  <2>1. ASSUME n # home[a]
        PROVE  z \in on /\ home[z] = home[a] /\ z # a /\ rank[a] <= rank[z] /\ rank[a] > 0
    BY <2>1, <1>13, <1>14 DEF n
  <2>2. ASSUME n # home[a] PROVE z \in cells /\ rank[z] # rank[a]
    BY <2>1, <2>2, <1>5, <1>12, <1>13
  <2>3. ASSUME n # home[a] PROVE l2.prev[home[a]] = z
    BY <2>3, <1>7, <1>13, <1>14
  <2>. HIDE DEF z
  <2>4. n # home[a] => l2.prev[home[a]] = z /\ rank[z] > rank[a] /\ rank2[z] = rank[z] - 1
    BY <2>1, <2>2, <2>3, <1>1, <1>5, <1>11
  <2>. QED
    BY <2>4 DEF z
<1>19. \A x \in on2 : home[l2.next[x]] = home[x]
  BY <1>4, <1>7, <1>15
<1>20. ASSUME NEW x \in on2, l2.next[x] \in cells2
       PROVE  rank2[l2.next[x]] = rank2[x] + 1
  <2>1. CASE x = p
    BY <2>1, <1>20, <1>1, <1>3, <1>4, <1>5, <1>7, <1>11
  <2>2. CASE x # p
    <3>1. l2.next[x] = l.next[x] /\ x \in on /\ x # a
      BY <2>2, <1>1, <1>7
    <3>2. rank[l.next[x]] = rank[x] + 1 /\ home[l.next[x]] = home[x] /\ l.next[x] \in cells
      BY <3>1, <1>15, <1>20
    <3>3. x \in cells /\ home[x] = home[a] => rank[x] # rank[a]
      BY <3>1, <1>12
    <3>4. x \notin cells => rank[x] = 0 /\ rank[a] > 0
      BY <3>1, <1>13, <1>14
    <3>. QED
      BY <3>1, <3>2, <3>3, <3>4, <1>1, <1>5, <1>11
  <2>. QED
    BY <2>1, <2>2
<1>21. ASSUME NEW x \in cells2
       PROVE  home[x] \in heads /\ rank2[x] > 0 /\ rank2[x] <= rank2[l2.prev[home[x]]]
  <2>1. /\ x \in on /\ x \in cells /\ rank[x] > 0 /\ rank[a] > 0 /\ home[x] \in heads
        /\ rank[x] <= rank[l.prev[home[x]]]
    BY <1>14
  <2>2. home[x] = home[a] => rank[x] # rank[a]
    BY <1>12
  <2>3. CASE home[x] # home[a]
    BY <2>1, <2>3, <1>11, <1>16
  <2>4. CASE home[x] = home[a] /\ n = home[a]
    BY <2>1, <2>2, <2>4, <1>1, <1>5, <1>11, <1>17
  <2>5. CASE home[x] = home[a] /\ n # home[a]
    <3>1. l.prev[home[a]] \in on
      BY <2>1, <2>5, <1>13
    <3>. QED
      BY <3>1, <2>1, <2>2, <2>5, <1>1, <1>5, <1>11, <1>18
  <2>. QED
    BY <2>3, <2>4, <2>5
<1>22. ASSUME NEW x \in cells2, NEW y \in cells2, home[x] = home[y], rank2[x] = rank2[y]
       PROVE  x = y
  <2>1. /\ home[x] = home[a] => rank[x] # rank[a]
        /\ home[y] = home[a] => rank[y] # rank[a]
    BY <1>12
  <2>2. rank[x] = rank[y]
    BY <2>1, <1>22, <1>1, <1>5, <1>11
  <2>. QED
    BY <2>2, <1>12, <1>22
<1>23. ASSUME NEW s \in heads
       PROVE  rank2[l2.prev[s]] <= Cardinality(Class(cells2, home, s))
  <2>1. rank[l.prev[s]] <= Cardinality(Class(cells, home, s))
    BY <1>2 DEF Ranked
  <2>2. CASE s # home[a]
    <3>1. Class(cells2, home, s) = Class(cells, home, s)
      BY <2>2 DEF Class
    <3>. QED
      BY <3>1, <2>1, <2>2, <1>16
  <2>3. CASE s = home[a]
    <3>1. Class(cells2, home, s) = Class(cells, home, s) \ {a} /\ a \in Class(cells, home, s)
      BY <2>3 DEF Class
    <3>2. Cardinality(Class(cells2, home, s)) = Cardinality(Class(cells, home, s)) - 1
      <4>. DEFINE C == Class(cells, home, s)
      <4>1. IsFiniteSet(C)
        BY ClassFinite
      <4>2. Cardinality(C \ {a}) = Cardinality(C) - 1
        BY <3>1, <4>1, FS_RemoveElement
      <4>. QED
        BY <3>1, <4>2
    <3>3. rank2[l2.prev[s]] = rank[l.prev[s]] - 1
      BY <2>3, <1>17, <1>18
    <3>4. rank[l.prev[s]] \in Nat /\ Cardinality(Class(cells, home, s)) \in Nat
      BY <1>5, <1>13, ClassFinite
    <3>. QED
      BY <2>1, <3>2, <3>3, <3>4
  <2>. QED
    BY <2>2, <2>3
<1>24. \A s \in heads : home[s] = s /\ rank2[s] = 0
  BY <1>11, <1>13
<1>25. Ranked(l2, cells2, heads, home, rank2)
  BY <1>19, <1>20, <1>21, <1>22, <1>23, <1>24 DEF Ranked
<1>. QED
  BY <1>9, <1>10, <1>25 DEF Lists, l2

(* A new node behind `left` goes into the list of `left`.                  *)
LEMMA BetweenLists ==
  ASSUME NEW l \in LinkTables, NEW cells \in SUBSET Addr, NEW heads \in SUBSET Slots,
         NEW home \in [Nodes -> Int], NEW rank \in [Nodes -> Nat],
         Lists(l, cells, heads, home, rank),
         NEW a \in Addr, a \notin cells, NEW left \in cells \cup heads
  PROVE  \E rank2 \in [Nodes -> Nat] :
            Lists(Between(l, a, left, l.next[left]), cells \cup {a}, heads,
                  [home EXCEPT ![a] = home[left]], rank2)
<1>. DEFINE right  == l.next[left]
            slot   == home[left]
            on     == cells \cup heads
            l2     == Between(l, a, left, right)
            cells2 == cells \cup {a}
            on2    == cells2 \cup heads
            home2  == [home EXCEPT ![a] = slot]
            after(x) == x \in cells /\ home[x] = slot /\ rank[x] > rank[left]
            rank2  == [x \in Nodes |-> IF x = a THEN rank[left] + 1
                                         ELSE IF after(x) THEN rank[x] + 1 ELSE rank[x]]
<1>1. /\ l.next \in [Nodes -> Places] /\ l.prev \in [Nodes -> Places]
      /\ on \subseteq Nodes /\ a \in Nodes /\ a \notin on /\ on2 = on \cup {a}
      /\ heads \cap cells = {} /\ left \in on
  BY SlotFacts DEF LinkTables, Nodes
<1>2. DoublyLinked(l, on) /\ Ranked(l, cells, heads, home, rank)
  BY DEF Lists
<1>3. \A x \in on : rank[x] \in Nat /\ home[x] \in Int
  BY <1>1
<1>4. \A x \in on : /\ l.next[x] \in on /\ home[l.next[x]] = home[x]
                    /\ l.next[x] \in cells => rank[l.next[x]] = rank[x] + 1
                    /\ l.prev[l.next[x]] = x
                    /\ l.prev[x] \in on /\ l.next[l.prev[x]] = x
  BY <1>2 DEF Ranked, DoublyLinked
<1>5. \A s \in heads : /\ home[s] = s /\ rank[s] = 0 /\ s \notin cells /\ s \in on
                       /\ l.prev[s] \in on /\ l.next[l.prev[s]] = s /\ home[l.prev[s]] = s
  BY <1>1, <1>2, <1>4 DEF Ranked
<1>6. \A x \in cells : home[x] \in heads /\ rank[x] > 0 /\ rank[x] <= rank[l.prev[home[x]]]
  BY <1>2 DEF Ranked
<1>7. \A x, y \in on : home[x] = home[y] /\ rank[x] = rank[y] => x = y
  <2>1. \A x, y \in cells : home[x] = home[y] /\ rank[x] = rank[y] => x = y
    BY <1>2 DEF Ranked
  <2>2. \A x \in on : IF x \in cells THEN rank[x] > 0 ELSE home[x] = x /\ rank[x] = 0
    BY <1>5, <1>6
  <2>. QED
    BY <2>1, <2>2
<1>8. slot \in heads /\ right \in on /\ home[right] = slot /\ l.prev[right] = left
      /\ (right \in cells => rank[right] = rank[left] + 1)
  BY <1>1, <1>4, <1>5, <1>6
<1>9. /\ \A x \in on : l2.next[x] = IF x = left THEN a ELSE l.next[x]
      /\ \A x \in on : l2.prev[x] = IF x = right THEN a ELSE l.prev[x]
      /\ l2.next[a] = right /\ l2.prev[a] = left
  BY <1>1, <1>8 DEF Between
<1>10. /\ \A x \in on : x # left => l.next[x] # right
       /\ \A x \in on : x # right => l.prev[x] # left
  BY <1>1, <1>4
<1>. HIDE DEF l2, right
<1>11. DoublyLinked(l2, on2)
  BY <1>1, <1>4, <1>8, <1>9, <1>10 DEF DoublyLinked
<1>12. rank2 \in [Nodes -> Nat]
  BY <1>1, <1>3
<1>13. /\ \A x \in on : rank2[x] = IF after(x) THEN rank[x] + 1 ELSE rank[x]
       /\ rank2[a] = rank[left] + 1
  BY <1>1
<1>14. /\ \A x \in on : home2[x] = home[x]
       /\ home2[a] = slot
  BY <1>1
<1>. HIDE DEF rank2, home2
<1>15. \A s \in heads : home2[s] = s /\ rank2[s] = 0
  BY <1>5, <1>13, <1>14
<1>16. \A x \in on2 : home2[l2.next[x]] = home2[x]
  BY <1>1, <1>4, <1>8, <1>9, <1>14
<1>17. ASSUME NEW x \in on2, l2.next[x] \in cells2
       PROVE  rank2[l2.next[x]] = rank2[x] + 1
  <2>1. CASE x = a
    <3>1. right \in cells /\ after(right)
      BY <2>1, <1>1, <1>3, <1>8, <1>9, <1>17
    <3>. QED
      BY <2>1, <3>1, <1>1, <1>3, <1>8, <1>9, <1>13
  <2>2. CASE x = left
    BY <2>2, <1>1, <1>9, <1>13, <1>3
  <2>3. CASE x \in on /\ x # left
    <3>1. l2.next[x] = l.next[x] /\ l.next[x] \in cells
      BY <2>3, <1>1, <1>4, <1>9, <1>17
    <3>2. rank[l.next[x]] = rank[x] + 1 /\ home[l.next[x]] = home[x]
      BY <2>3, <3>1, <1>4
    <3>3. home[x] = slot => rank[x] # rank[left]
      BY <2>3, <1>1, <1>7
    <3>4. x \notin cells => rank[x] = 0
      BY <2>3, <1>5
    <3>. QED
      BY <2>3, <3>1, <3>2, <3>3, <3>4, <1>1, <1>3, <1>13
  <2>. QED
    BY <2>1, <2>2, <2>3, <1>1
\* the last node of a list
<1>18. ASSUME NEW s \in heads, s # slot
       PROVE  l2.prev[s] = l.prev[s] /\ rank2[l2.prev[s]] = rank[l.prev[s]]
  <2>1. s # right /\ l2.prev[s] = l.prev[s] /\ l.prev[s] \in on /\ home[l.prev[s]] # slot
    BY <1>5, <1>8, <1>9, <1>18
  <2>. QED
    BY <2>1, <1>13
<1>19. right = slot => l2.prev[slot] = a /\ rank2[a] = rank[left] + 1 /\ l.prev[slot] = left
  BY <1>8, <1>9, <1>13
<1>20. right # slot => /\ l2.prev[slot] = l.prev[slot]
                       /\ rank[l.prev[slot]] > rank[left]
                       /\ rank2[l.prev[slot]] = rank[l.prev[slot]] + 1
  <2>. DEFINE z == l.prev[slot]
  <2>1. ASSUME right # slot
        PROVE  z \in on /\ home[z] = slot /\ z # left /\ rank[left] <= rank[z]
    <3>1. z \in on /\ home[z] = slot /\ z # left
      BY <2>1, <1>5, <1>8 DEF right
    <3>2. rank[left] <= rank[z]
      BY <3>1, <1>1, <1>3, <1>5, <1>6
    <3>. QED
      BY <3>1, <3>2
  <2>2. ASSUME right # slot PROVE l2.prev[slot] = z
    BY <2>2, <1>5, <1>8, <1>9
  <2>. HIDE DEF z
  <2>3. ASSUME right # slot PROVE rank[z] > rank[left] /\ z \in cells
    BY <2>1, <2>3, <1>1, <1>3, <1>5, <1>7
  <2>4. right # slot => l2.prev[slot] = z /\ rank[z] > rank[left] /\ rank2[z] = rank[z] + 1
    BY <2>1, <2>2, <2>3, <1>13
  <2>. QED
    BY <2>4 DEF z
<1>21. ASSUME NEW x \in cells2
       PROVE  home2[x] \in heads /\ rank2[x] > 0 /\ rank2[x] <= rank2[l2.prev[home2[x]]]
  <2>1. CASE x = a
    <3>1. rank[left] \in Nat /\ rank[l.prev[slot]] \in Nat
      BY <1>1, <1>3, <1>5, <1>8
    <3>. QED
      BY <2>1, <3>1, <1>8, <1>13, <1>14, <1>19, <1>20
  <2>2. CASE x \in cells
    <3>1. home2[x] = home[x] /\ home[x] \in heads /\ rank[x] > 0 /\ rank[x] <= rank[l.prev[home[x]]]
          /\ x \in on /\ rank[x] \in Nat /\ l.prev[home[x]] \in on /\ rank[l.prev[home[x]]] \in Nat
      BY <2>2, <1>3, <1>5, <1>6, <1>14
    <3>2. CASE home[x] # slot
      BY <3>1, <3>2, <1>13, <1>18
    <3>3. CASE home[x] = slot
      <4>1. rank2[x] \in {rank[x], rank[x] + 1} /\ (rank2[x] = rank[x] + 1 => rank[x] > rank[left])
        BY <3>1, <1>13
      <4>2. rank[left] \in Nat
        BY <1>1, <1>3
      <4>. QED
        BY <3>1, <3>3, <4>1, <4>2, <1>19, <1>20
    <3>. QED
      BY <3>2, <3>3
  <2>. QED
    BY <2>1, <2>2
<1>22. ASSUME NEW x \in cells2, NEW y \in cells2, home2[x] = home2[y], rank2[x] = rank2[y]
       PROVE  x = y
  <2>1. ASSUME NEW z \in cells, home[z] = slot PROVE rank2[z] # rank2[a]
    BY <2>1, <1>1, <1>3, <1>13
  <2>2. CASE x = a \/ y = a
    BY <2>1, <2>2, <1>1, <1>14, <1>22
  <2>3. CASE x \in cells /\ y \in cells
    <3>1. x \in on /\ y \in on /\ home[x] = home[y]
      BY <2>3, <1>14, <1>22
    <3>2. rank[x] = rank[y]
      BY <2>3, <3>1, <1>3, <1>1, <1>13, <1>22
    <3>. QED
      BY <3>1, <3>2, <1>7
  <2>. QED
    BY <2>2, <2>3
<1>23. ASSUME NEW s \in heads
       PROVE  rank2[l2.prev[s]] <= Cardinality(Class(cells2, home2, s))
  <2>. DEFINE C == Class(cells, home, s)
  <2>1. rank[l.prev[s]] <= Cardinality(C) /\ rank[l.prev[s]] \in Nat /\ IsFiniteSet(C) /\ Cardinality(C) \in Nat
    BY <1>2, <1>3, <1>5, ClassFinite DEF Ranked
  <2>2. CASE s # slot
    <3>1. Class(cells2, home2, s) = C
      BY <2>2, <1>14 DEF Class
    <3>. QED
      BY <3>1, <2>1, <2>2, <1>18
  <2>3. CASE s = slot
    <3>1. Class(cells2, home2, s) = C \cup {a} /\ a \notin C
      BY <2>3, <1>14 DEF Class
    <3>2. Cardinality(C \cup {a}) = Cardinality(C) + 1
      BY <3>1, <2>1, FS_AddElement
    <3>3. Cardinality(Class(cells2, home2, s)) = Cardinality(C) + 1
      BY <3>1, <3>2, Zenon
    <3>4. rank2[l2.prev[s]] = rank[l.prev[s]] + 1
      BY <2>3, <1>19, <1>20
    <3>. HIDE DEF C
    <3>. QED
      BY <2>1, <3>3, <3>4
  <2>. QED
    BY <2>2, <2>3
<1>24. Ranked(l2, cells2, heads, home2, rank2)
  BY <1>15, <1>16, <1>17, <1>21, <1>22, <1>23 DEF Ranked
<1>. QED
  BY <1>11, <1>12, <1>24 DEF Lists, l2, home2, right

(* Both ways to place a timer put it into the slot's list.                 *)
LEMMA PlacedLists ==
  ASSUME NEW l \in LinkTables, NEW cells \in SUBSET Addr, NEW heads \in SUBSET Slots,
         NEW home \in [Nodes -> Int], NEW rank \in [Nodes -> Nat],
         Lists(l, cells, heads, home, rank),
         NEW a \in Addr, a \notin cells, NEW slot \in heads
  PROVE  \E rank2 \in [Nodes -> Nat] :
            Lists(Placed(l, a, slot), cells \cup {a}, heads, [home EXCEPT ![a] = slot], rank2)
<1>1. /\ slot \in cells \cup heads /\ home[slot] = slot
      /\ l.prev[slot] \in cells \cup heads /\ l.next[l.prev[slot]] = slot
  BY DEF Lists, Ranked, DoublyLinked
<1>2. home[l.prev[slot]] = slot
  BY <1>1 DEF Lists, Ranked
<1>3. \/ Placed(l, a, slot) = Between(l, a, slot, l.next[slot])
      \/ Placed(l, a, slot) = Between(l, a, l.prev[slot], l.next[l.prev[slot]])
  BY <1>1 DEF Placed
<1>4. \A left \in cells \cup heads : \E rank2 \in [Nodes -> Nat] :
         Lists(Between(l, a, left, l.next[left]), cells \cup {a}, heads,
               [home EXCEPT ![a] = home[left]], rank2)
  BY BetweenLists
<1>. QED
  BY <1>1, <1>2, <1>3, <1>4, Zenon

(* Links and homes of other nodes do not matter.                           *)
LEMMA SameLists ==
  ASSUME NEW l, NEW l2, NEW cells \in SUBSET Addr, NEW heads \in SUBSET Slots,
         NEW home, NEW home2, NEW rank, Lists(l, cells, heads, home, rank),
         \A x \in cells \cup heads : /\ l2.next[x] = l.next[x] /\ l2.prev[x] = l.prev[x]
                                     /\ home2[x] = home[x]
  PROVE  Lists(l2, cells, heads, home2, rank)
<1>1. \A s : Class(cells, home2, s) = Class(cells, home, s)
  BY DEF Class
<1>2. DoublyLinked(l2, cells \cup heads)
  BY DEF Lists, DoublyLinked
<1>3. \A x \in cells \cup heads : l.next[x] \in cells \cup heads /\ l.prev[x] \in cells \cup heads
  BY DEF Lists, DoublyLinked
<1>4. \A x \in cells : home[x] \in heads
  BY DEF Lists, Ranked
<1>5. Ranked(l2, cells, heads, home2, rank)
  BY <1>1, <1>3, <1>4 DEF Lists, Ranked
<1>. QED
  BY <1>2, <1>5 DEF Lists

-----------------------------------------------------------------------------
(* What Members reads: the way from a header, step by step.                *)
FollowBody(f, slot, n) ==
  [i \in 0 .. n |->
     IF i = 0 THEN next[slot]
     ELSE IF f[i - 1] \in Addr THEN next[f[i - 1]] ELSE f[i - 1]]
Follow(slot) == CHOOSE f : f = FollowBody(f, slot, Cardinality(Addr))

LEMMA FollowExists ==
  ASSUME NEW slot, NEW max \in Nat
  PROVE  \E f : f = FollowBody(f, slot, max)
<1>. DEFINE Good == {n \in 0 .. max : \E f : f = FollowBody(f, slot, n)}
<1>1. 0 \in Good
  <2>. DEFINE f == [i \in 0 .. 0 |-> next[slot]]
  <2>1. f = FollowBody(f, slot, 0)
    BY DEF FollowBody
  <2>. QED
    BY <2>1
<1>2. ASSUME NEW n \in 0 .. max, n < max, n \in Good
      PROVE  n + 1 \in Good
  <2>1. PICK f : f = FollowBody(f, slot, n)
    BY <1>2
  <2>. DEFINE last == IF f[n] \in Addr THEN next[f[n]] ELSE f[n]
              g    == [i \in 0 .. n + 1 |-> IF i = n + 1 THEN last ELSE f[i]]
              h    == FollowBody(g, slot, n + 1)
  <2>2. \A i \in 0 .. n :
           f[i] = IF i = 0 THEN next[slot]
                  ELSE IF f[i - 1] \in Addr THEN next[f[i - 1]] ELSE f[i - 1]
    BY <2>1 DEF FollowBody
  <2>3. ASSUME NEW i \in 0 .. n + 1
        PROVE  g[i] = IF i = 0 THEN next[slot]
                      ELSE IF g[i - 1] \in Addr THEN next[g[i - 1]] ELSE g[i - 1]
    <3>1. CASE i = n + 1
      BY <3>1
    <3>2. CASE i # n + 1
      <4>1. g[i] = f[i] /\ (i # 0 => g[i - 1] = f[i - 1]) /\ i \in 0 .. n
        BY <3>2
      <4>. QED
        BY <4>1, <2>2
    <3>. QED
      BY <3>1, <3>2
  <2>4. g = h
    <3>1. DOMAIN g = 0 .. n + 1 /\ DOMAIN h = 0 .. n + 1
      BY DEF FollowBody
    <3>2. \A i \in 0 .. n + 1 : g[i] = h[i]
      BY <2>3 DEF FollowBody
    <3>3. g = [i \in DOMAIN g |-> g[i]] /\ h = [i \in DOMAIN h |-> h[i]]
      BY DEF FollowBody
    <3>. QED
      BY <3>1, <3>2, <3>3
  <2>5. n + 1 \in 0 .. max
    BY <1>2
  <2>. QED
    BY <2>4, <2>5
<1>3. 0 .. max \subseteq Good
  <2>. HIDE DEF Good
  <2>. QED
    BY <1>1, <1>2, UpTo
<1>. QED
  BY <1>3

LEMMA FollowSteps ==
  ASSUME NEW slot
  PROVE  /\ Cardinality(Addr) \in Nat
         /\ Members(slot) = {Follow(slot)[i] : i \in 0 .. Cardinality(Addr)} \ Slots
         /\ \A i \in 0 .. Cardinality(Addr) :
               Follow(slot)[i] =
                 IF i = 0 THEN next[slot]
                 ELSE IF Follow(slot)[i - 1] \in Addr THEN next[Follow(slot)[i - 1]]
                 ELSE Follow(slot)[i - 1]
<1>. DEFINE f == Follow(slot)
<1>1. Cardinality(Addr) \in Nat
  BY WheelAssumption, FS_CardinalityType
<1>2. Members(slot) = {f[i] : i \in DOMAIN f} \ Slots
  BY Zenon DEF Members, Follow, FollowBody
<1>3. f = FollowBody(f, slot, Cardinality(Addr))
  <2>1. \E g : g = FollowBody(g, slot, Cardinality(Addr))
    BY <1>1, FollowExists
  <2>. QED
    BY <2>1, Zenon DEF Follow
<1>. HIDE DEF f
<1>4. DOMAIN f = 0 .. Cardinality(Addr)
  BY <1>3 DEF FollowBody
<1>5. \A i \in 0 .. Cardinality(Addr) :
         f[i] = IF i = 0 THEN next[slot]
                ELSE IF f[i - 1] \in Addr THEN next[f[i - 1]] ELSE f[i - 1]
  BY <1>3 DEF FollowBody
<1>. QED
  BY <1>1, <1>2, <1>4, <1>5, Zenon DEF f

(* It meets the timers of the slot's list, and no others.                  *)
LEMMA MembersOfClass ==
  ASSUME NEW cells \in SUBSET Addr, NEW heads \in SUBSET Slots,
         NEW home \in [Nodes -> Int], NEW rank \in [Nodes -> Nat],
         Lists(Links, cells, heads, home, rank), NEW s \in heads
  PROVE  Members(s) = Class(cells, home, s)
<1>. DEFINE f   == Follow(s)
            max == Cardinality(Addr)
            on  == cells \cup heads
<1>1. /\ max \in Nat
      /\ Members(s) = {f[i] : i \in 0 .. max} \ Slots
      /\ f[0] = next[s]
      /\ \A i \in 0 .. max : i + 1 \in 0 .. max =>
            f[i + 1] = IF f[i] \in Addr THEN next[f[i]] ELSE f[i]
  <2>1. max \in Nat /\ Members(s) = {f[i] : i \in 0 .. max} \ Slots
    BY FollowSteps, Zenon
  <2>2. \A i \in 0 .. max :
           f[i] = IF i = 0 THEN next[s]
                  ELSE IF f[i - 1] \in Addr THEN next[f[i - 1]] ELSE f[i - 1]
    BY FollowSteps, Zenon
  <2>. HIDE DEF f, max
  <2>3. ASSUME NEW i \in 0 .. max, i + 1 \in 0 .. max
        PROVE  f[i + 1] = IF f[i] \in Addr THEN next[f[i]] ELSE f[i]
    <3>1. i + 1 # 0 /\ (i + 1) - 1 = i
      BY <2>1
    <3>. QED
      BY <2>2, <2>3, <3>1
  <2>. QED
    BY <2>1, <2>2, <2>3
<1>. HIDE DEF f, max
<1>2. heads \cap Addr = {} /\ cells \cap Slots = {} /\ on \subseteq Nodes
  BY SlotFacts DEF Nodes
<1>3. \A x \in on : /\ next[x] \in on /\ prev[next[x]] = x /\ home[next[x]] = home[x]
                    /\ next[x] \in cells => rank[next[x]] = rank[x] + 1
                    /\ rank[x] \in Nat
  BY <1>2 DEF Lists, DoublyLinked, Ranked, Links
<1>4. /\ \A h \in heads : home[h] = h /\ rank[h] = 0
      /\ \A x \in cells : rank[x] > 0 /\ rank[x] <= rank[prev[home[x]]]
      /\ \A x, y \in cells : home[x] = home[y] /\ rank[x] = rank[y] => x = y
      /\ rank[prev[s]] <= Cardinality(Class(cells, home, s))
  BY DEF Lists, Ranked, Links
<1>. DEFINE Right == {i \in 0 .. max : /\ f[i] \in on /\ home[f[i]] = s
                                       /\ f[i] \in Addr => rank[f[i]] = i + 1}
<1>5. 0 .. max \subseteq Right
  <2>1. 0 \in Right
    BY <1>1, <1>2, <1>3, <1>4
  <2>2. ASSUME NEW i \in 0 .. max, i < max, i \in Right PROVE i + 1 \in Right
    <3>1. i + 1 \in 0 .. max /\ f[i + 1] = IF f[i] \in Addr THEN next[f[i]] ELSE f[i]
      BY <2>2, <1>1
    <3>2. CASE f[i] \in Addr
      BY <2>2, <3>1, <3>2, <1>2, <1>3
    <3>3. CASE f[i] \notin Addr
      BY <2>2, <3>1, <3>3
    <3>. QED
      BY <3>2, <3>3
  <2>. HIDE DEF Right
  <2>. QED
    BY <2>1, <2>2, <1>1, UpTo
<1>6. Members(s) \subseteq Class(cells, home, s)
  <2>1. ASSUME NEW x \in Members(s) PROVE x \in Class(cells, home, s)
    <3>1. PICK i \in 0 .. max : x = f[i] /\ x \notin Slots
      BY <1>1
    <3>. QED
      BY <3>1, <1>5 DEF Class
  <2>. QED
    BY <2>1
<1>7. ASSUME NEW x \in Class(cells, home, s) PROVE x \in Members(s)
  <2>1. x \in cells /\ home[x] = s /\ rank[x] > 0 /\ rank[x] <= rank[prev[s]] /\ rank[x] \in Nat
        /\ x \in Nodes
    BY <1>2, <1>4 DEF Class
  <2>2. rank[x] <= max
    <3>1. IsFiniteSet(Addr) /\ Class(cells, home, s) \subseteq Addr
      BY WheelAssumption DEF Class
    <3>2. Cardinality(Class(cells, home, s)) <= max
      BY <3>1, FS_Subset DEF max
    <3>3. Cardinality(Class(cells, home, s)) \in Nat
      BY ClassFinite
    <3>4. rank[prev[s]] \in Nat
      <4>1. prev[s] \in on
        BY DEF Lists, DoublyLinked, Links
      <4>. QED
        BY <4>1, <1>3
    <3>. QED
      BY <2>1, <3>2, <3>3, <3>4, <1>1, <1>4
  <2>. DEFINE Here == {i \in 0 .. max : i + 1 <= rank[x] => f[i] \in cells}
  <2>3. 0 \in Here
    <3>1. ASSUME next[s] \in heads PROVE FALSE
      <4>1. next[s] = s /\ prev[s] = s
        BY <3>1, <1>3, <1>4
      <4>. QED
        BY <4>1, <2>1, <1>4
    <3>. QED
      BY <3>1, <1>1, <1>3
  <2>4. ASSUME NEW i \in 0 .. max, i < max, i \in Here PROVE i + 1 \in Here
    <3>1. i + 1 \in 0 .. max /\ f[i + 1] = IF f[i] \in Addr THEN next[f[i]] ELSE f[i]
      BY <2>4, <1>1
    <3>2. SUFFICES ASSUME (i + 1) + 1 <= rank[x] PROVE f[i + 1] \in cells
      BY <3>1
    <3>3. f[i] \in cells /\ f[i] \in Addr /\ rank[f[i]] = i + 1 /\ home[f[i]] = s
      BY <2>1, <2>4, <3>2, <1>5
    <3>4. f[i + 1] = next[f[i]] /\ next[f[i]] \in on /\ home[next[f[i]]] = s /\ prev[next[f[i]]] = f[i]
      BY <3>1, <3>3, <1>3
    <3>5. ASSUME next[f[i]] \in heads PROVE FALSE
      <4>1. next[f[i]] = s /\ prev[s] = f[i]
        BY <3>4, <3>5, <1>4
      <4>. QED
        BY <4>1, <2>1, <3>2, <3>3
    <3>. QED
      BY <3>4, <3>5
  <2>5. 0 .. max \subseteq Here
    <3>. HIDE DEF Here
    <3>. QED
      BY <2>3, <2>4, <1>1, UpTo
  <2>6. rank[x] - 1 \in 0 .. max
    BY <2>1, <2>2, <1>1
  <2>7. f[rank[x] - 1] \in cells
    BY <2>1, <2>5, <2>6
  <2>8. /\ home[f[rank[x] - 1]] = s
        /\ f[rank[x] - 1] \in Addr => rank[f[rank[x] - 1]] = (rank[x] - 1) + 1
    BY <2>6, <1>5
  <2>9. f[rank[x] - 1] = x
    BY <2>1, <2>7, <2>8, <1>4
  <2>. QED
    BY <2>1, <2>6, <2>9, <1>1, <1>2
<1>. QED
  BY <1>6, <1>7

-----------------------------------------------------------------------------
(***************************************************************************)
(* The inductive invariant.  A timer's home is the slot that the worker    *)
(* reaches when the timer is due.                                          *)
(***************************************************************************)
Home == [x \in Nodes |-> IF x \in Addr THEN (cur_slot + tm[x].due) % slot_num ELSE x]

(* Each slot's list holds the timers at home there, and its count is no    *)
(* less than their number.                                                 *)
SlotLists ==
  init_flag => /\ \E rank \in [Nodes -> Nat] : Lists(Links, Added, Headers, Home, rank)
               /\ \A s \in Headers : Cardinality(Class(Added, Home, s)) <= timer_cnt[s]

(* The timer of an add under way is in no list, and its slot is still the  *)
(* right one.                                                              *)
AddUnderWay ==
  caller.cell # Null =>
    /\ caller.op = "add"
    /\ next[caller.cell] = caller.cell /\ prev[caller.cell] = caller.cell
    /\ caller.slot = Home[caller.cell]

(* The worker's place in the current slot's list.                          *)
Walking ==
  /\ pc \in {"walk", "fired"} =>
       caller.op = "none" /\ tmp \in Added \cup Headers /\ Home[tmp] = cur_slot
  /\ pc = "fired" => temp = next[tmp] /\ temp \in Added

QuietFaults == {"none", "memset", "freed id", "wild bit", "data"}

Kept ==
  /\ caller.op # "leaked"
  /\ ~init_flag => alive = {}
  /\ timer_cnt \in [Slots -> Nat]
  /\ fault \in QuietFaults

QuietInv == SlotLists /\ AddUnderWay /\ Walking /\ Kept

-----------------------------------------------------------------------------
LEMMA HeaderHome ==
  \A s \in Slots : Home[s] = s /\ Home'[s] = s
BY SlotFacts, Zenon DEF Home, Nodes

LEMMA SameHome ==
  ASSUME NEW a \in Addr, slot_num' = slot_num, cur_slot' = cur_slot, tm'[a].due = tm[a].due
  PROVE  Home'[a] = Home[a]
<1>1. a \in Nodes
  BY DEF Nodes
<1>2. /\ Home[a] = (cur_slot + tm[a].due) % slot_num
      /\ Home'[a] = (cur_slot' + tm'[a].due) % slot_num
  BY <1>1, Zenon DEF Home
<1>. QED
  BY <1>2, Zenon

(* With no add under way, all timers are added.                            *)
LEMMA AddedAll ==
  ASSUME WheelType, caller.cell = Null
  PROVE  Added = alive
BY SlotFacts DEF Added, WheelType, Nodes

(* Homes are headers.                                                      *)
LEMMA HomeFacts ==
  ASSUME WheelType, Control, init_flag
  PROVE  /\ slot_num \in Nat \ {0} /\ cur_slot \in Nat
         /\ Headers = 0 .. slot_num - 1 /\ Headers \in SUBSET Slots
         /\ Added \in SUBSET Addr /\ Added \subseteq alive
         /\ Added \cup Headers \subseteq Nodes
         /\ Home \in [Nodes -> Int]
         /\ \A a \in Addr : Home[a] = (cur_slot + tm[a].due) % slot_num /\ Home[a] \in Headers
         /\ \A s \in Headers : Home[s] = s /\ s \notin Addr
<1>1. slot_num \in SlotNums /\ slot_num \in Nat \ {0} /\ cur_slot \in Nat
  BY SlotFacts DEF WheelType, Control
<1>2. Headers = 0 .. slot_num - 1 /\ Headers \in SUBSET Slots
  BY <1>1, SlotFacts DEF Headers
<1>3. Added \in SUBSET Addr /\ Added \subseteq alive
  BY DEF Added, WheelType
<1>4. Added \cup Headers \subseteq Nodes /\ Headers \cap Addr = {}
  BY <1>2, <1>3, SlotFacts DEF Nodes
<1>5. \A a \in Addr : cur_slot + tm[a].due \in Int
  BY <1>1 DEF WheelType, Timer
<1>6. \A a \in Addr : (cur_slot + tm[a].due) % slot_num \in 0 .. slot_num - 1
  BY <1>1, <1>5, DivMod
<1>7. \A x \in Nodes : Home[x] = IF x \in Addr THEN (cur_slot + tm[x].due) % slot_num ELSE x
  BY Zenon DEF Home
<1>8. \A a \in Addr : Home[a] = (cur_slot + tm[a].due) % slot_num /\ Home[a] \in Headers
  BY <1>2, <1>6, <1>7 DEF Nodes
<1>9. \A s \in Headers : Home[s] = s /\ s \notin Addr
  BY <1>4, <1>7
<1>10. ASSUME NEW x \in Nodes PROVE Home[x] \in Int
  <2>1. CASE x \in Addr
    BY <2>1, <1>1, <1>2, <1>8
  <2>2. CASE x \notin Addr
    <3>1. x \in Slots
      BY <2>2 DEF Nodes
    <3>2. Home[x] = x
      BY <3>1, HeaderHome, Zenon
    <3>3. x \in Int
      BY <3>1, SlotFacts
    <3>. QED
      BY <3>2, <3>3
  <2>. QED
    BY <2>1, <2>2
<1>11. Home \in [Nodes -> Int]
  BY <1>10 DEF Home
<1>. QED
  BY <1>1, <1>2, <1>3, <1>4, <1>8, <1>9, <1>11

(* What the lists look like from a node.                                   *)
LEMMA ListFacts ==
  ASSUME WheelType, Control, init_flag, SlotLists
  PROVE  /\ \A x \in Added \cup Headers :
              /\ next[x] \in Added \cup Headers /\ prev[next[x]] = x
              /\ prev[x] \in Added \cup Headers /\ next[prev[x]] = x
              /\ Home[next[x]] = Home[x]
              /\ Valid(x) /\ Valid(next[x]) /\ Valid(prev[x])
         /\ \A x \in Added : next[x] # x
<1>1. PICK rank \in [Nodes -> Nat] : Lists(Links, Added, Headers, Home, rank)
  BY DEF SlotLists
<1>2. \A x \in Added \cup Headers :
        /\ next[x] \in Added \cup Headers /\ prev[next[x]] = x
        /\ prev[x] \in Added \cup Headers /\ next[prev[x]] = x
        /\ Home[next[x]] = Home[x]
  BY <1>1 DEF Lists, DoublyLinked, Ranked, Links
<1>3. \A x \in Added \cup Headers : Valid(x)
  BY HomeFacts DEF Valid
<1>4. \A x \in Added : next[x] \in Added => rank[next[x]] = rank[x] + 1 /\ rank[x] \in Nat
  BY <1>1, HomeFacts DEF Lists, Ranked, Links
<1>5. \A x \in Added : next[x] # x
  BY <1>4
<1>. QED
  BY <1>2, <1>3, <1>5

(* Steps that leave the lists alone.                                       *)
LEMMA SameWheel ==
  ASSUME WheelType, Control, WheelType', Control', SlotLists,
         UNCHANGED <<init_flag, slot_num, timer_cnt>>, Added' = Added,
         \A x \in Added \cup Headers : next'[x] = next[x] /\ prev'[x] = prev[x],
         \A a \in Added : Home'[a] = Home[a]
  PROVE  SlotLists'
<1>1. SUFFICES ASSUME init_flag PROVE SlotLists'
  BY DEF SlotLists
<1>2. PICK rank \in [Nodes -> Nat] : Lists(Links, Added, Headers, Home, rank)
  BY <1>1 DEF SlotLists
<1>3. Headers' = Headers
  BY DEF Headers
<1>4. /\ Added \in SUBSET Addr /\ Headers \in SUBSET Slots
      /\ \A s \in Headers : Home'[s] = Home[s]
  BY <1>1, HomeFacts, HeaderHome
<1>5. \A x \in Added \cup Headers : /\ Links'.next[x] = Links.next[x] /\ Links'.prev[x] = Links.prev[x]
                                    /\ Home'[x] = Home[x]
  BY <1>4 DEF Links
<1>6. Lists(Links', Added, Headers, Home', rank)
  BY <1>2, <1>4, <1>5, SameLists
<1>7. \A s : Class(Added, Home', s) = Class(Added, Home, s)
  BY DEF Class
<1>. QED
  BY <1>1, <1>2, <1>3, <1>6, <1>7 DEF SlotLists

(* A timer leaves the list of its slot, and perhaps its count.             *)
LEMMA OneGone ==
  ASSUME WheelType, Control, WheelType', Control', SlotLists, init_flag,
         NEW a \in Added, Added' = Added \ {a},
         SetLinks(Unlinked(Links, a)),
         UNCHANGED <<init_flag, slot_num, cur_slot>>,
         \A b \in Added \ {a} : tm'[b] = tm[b],
         timer_cnt' \in {timer_cnt, [timer_cnt EXCEPT ![Home[a]] = @ - 1]}
  PROVE  SlotLists'
<1>1. PICK rank \in [Nodes -> Nat] : Lists(Links, Added, Headers, Home, rank)
  BY DEF SlotLists
<1>2. Headers' = Headers
  BY DEF Headers
<1>3. \E rank2 \in [Nodes -> Nat] : Lists(Unlinked(Links, a), Added \ {a}, Headers, Home, rank2)
  BY <1>1, HomeFacts, LinksType, UnlinkedLists
<1>4. Links' = Unlinked(Links, a)
  BY DEF SetLinks, Links, Unlinked
<1>5. \A x \in Added' \cup Headers : Home'[x] = Home[x]
  <2>1. \A x \in Added' : Home'[x] = Home[x]
    BY HomeFacts, Zenon DEF Home
  <2>2. \A x \in Headers : Home'[x] = Home[x]
    BY HomeFacts, HeaderHome
  <2>. QED
    BY <2>1, <2>2
<1>6. \E rank2 \in [Nodes -> Nat] : Lists(Links', Added', Headers, Home', rank2)
  <2>1. PICK rank2 \in [Nodes -> Nat] : Lists(Unlinked(Links, a), Added', Headers, Home, rank2)
    BY <1>3
  <2>2. Added' \in SUBSET Addr /\ Headers \in SUBSET Slots
    BY HomeFacts
  <2>3. Lists(Links', Added', Headers, Home', rank2)
    BY <1>4, <1>5, <2>1, <2>2, SameLists
  <2>. QED
    BY <2>3
<1>7. ASSUME NEW s \in Headers
      PROVE  Cardinality(Class(Added', Home', s)) <= timer_cnt'[s]
  <2>. DEFINE C == Class(Added, Home, s)
  <2>1. /\ IsFiniteSet(C) /\ Cardinality(C) \in Nat /\ Cardinality(C) <= timer_cnt[s]
        /\ timer_cnt[s] \in Int
    BY HomeFacts, ClassFinite DEF SlotLists, WheelType
  <2>2. CASE s = Home[a]
    <3>1. Class(Added', Home', s) = C \ {a} /\ a \in C
      BY <1>5, <2>2 DEF Class
    <3>2. Cardinality(C \ {a}) = Cardinality(C) - 1
      <4>. HIDE DEF C
      <4>. QED
        BY <2>1, <3>1, FS_RemoveElement
    <3>3. Cardinality(Class(Added', Home', s)) = Cardinality(C) - 1
      BY <3>1, <3>2, Zenon
    <3>4. timer_cnt'[s] >= timer_cnt[s] - 1
      <4>1. s \in Slots /\ timer_cnt \in [Slots -> Int]
        BY HomeFacts DEF WheelType
      <4>. HIDE DEF C
      <4>. QED
        BY <2>1, <2>2, <4>1
    <3>5. timer_cnt'[s] \in Int
      BY HomeFacts DEF WheelType
    <3>. HIDE DEF C
    <3>. QED
      BY <2>1, <3>3, <3>4, <3>5
  <2>3. CASE s # Home[a]
    <3>1. Class(Added', Home', s) = C
      BY <1>5, <2>3 DEF Class
    <3>2. timer_cnt'[s] = timer_cnt[s]
      BY <2>3, HomeFacts DEF WheelType
    <3>. QED
      BY <2>1, <3>1, <3>2
  <2>. QED
    BY <2>2, <2>3
<1>. QED
  BY <1>2, <1>6, <1>7 DEF SlotLists

(* A timer joins the list of its slot, and its count.                      *)
LEMMA OneMore ==
  ASSUME WheelType, Control, WheelType', Control', SlotLists, init_flag,
         NEW a \in Addr \ Added, Added' = Added \cup {a},
         SetLinks(Placed(Links, a, Home[a])),
         UNCHANGED <<init_flag, slot_num, cur_slot, tm>>,
         timer_cnt' = [timer_cnt EXCEPT ![Home[a]] = @ + 1]
  PROVE  SlotLists'
<1>1. PICK rank \in [Nodes -> Nat] : Lists(Links, Added, Headers, Home, rank)
  BY DEF SlotLists
<1>2. Headers' = Headers /\ Home' = Home /\ Home[a] \in Headers
  BY HomeFacts DEF Headers, Home
<1>3. \E rank2 \in [Nodes -> Nat] :
        Lists(Placed(Links, a, Home[a]), Added \cup {a}, Headers, [Home EXCEPT ![a] = Home[a]], rank2)
  BY <1>1, <1>2, HomeFacts, LinksType, PlacedLists
<1>4. Links' = Placed(Links, a, Home[a])
  BY DEF SetLinks, Links, Placed, Between
<1>5. [Home EXCEPT ![a] = Home[a]] = Home
  BY HomeFacts DEF Nodes
<1>6. ASSUME NEW s \in Headers
      PROVE  Cardinality(Class(Added', Home', s)) <= timer_cnt'[s]
  <2>. DEFINE C == Class(Added, Home, s)
  <2>1. /\ IsFiniteSet(C) /\ Cardinality(C) \in Nat /\ Cardinality(C) <= timer_cnt[s]
        /\ timer_cnt[s] \in Int
    BY HomeFacts, ClassFinite DEF SlotLists, WheelType
  <2>2. CASE s = Home[a]
    <3>1. Class(Added', Home', s) = C \cup {a} /\ a \notin C
      BY <1>2, <2>2 DEF Class
    <3>2. Cardinality(C \cup {a}) = Cardinality(C) + 1
      BY <2>1, <3>1, FS_AddElement
    <3>3. Cardinality(Class(Added', Home', s)) = Cardinality(C) + 1
      BY <3>1, <3>2, Zenon
    <3>4. timer_cnt'[s] = timer_cnt[s] + 1
      BY <2>1, <2>2, HomeFacts DEF WheelType
    <3>. HIDE DEF C
    <3>. QED
      BY <2>1, <3>3, <3>4
  <2>3. CASE s # Home[a]
    <3>1. Class(Added', Home', s) = C
      BY <1>2, <2>3 DEF Class
    <3>2. timer_cnt'[s] = timer_cnt[s]
      BY <2>3, HomeFacts DEF WheelType
    <3>. QED
      BY <2>1, <3>1, <3>2
  <2>. QED
    BY <2>2, <2>3
<1>. QED
  BY <1>2, <1>3, <1>4, <1>5, <1>6 DEF SlotLists

-----------------------------------------------------------------------------
(* The steps of quiet callers and of the worker.                           *)

(* No lists without a manager, empty lists in a new one.                   *)
LEMMA InitLists ==
  ASSUME WheelType, Control, Kept, NEW n \in SlotNums, TiInit(n)
  PROVE  SlotLists'
<1>1. /\ alive' = {} /\ Added' = {} /\ init_flag' /\ slot_num' = n
      /\ timer_cnt' = [s \in Slots |-> 0]
      /\ next' = [x \in Nodes |-> IF x \in 0 .. n - 1 THEN x ELSE Poison] /\ prev' = next'
  BY DEF TiInit, Kept, Added
<1>2. Headers' = 0 .. n - 1 /\ Headers' \subseteq Slots
  BY <1>1, SlotFacts DEF Headers
<1>3. \A s \in Headers' : next'[s] = s /\ prev'[s] = s /\ Home'[s] = s /\ s \in Nodes
  BY <1>1, <1>2, HeaderHome DEF Nodes
<1>. DEFINE rank == [x \in Nodes |-> 0]
<1>4. rank \in [Nodes -> Nat] /\ \A s \in Headers' : rank[s] = 0
  BY <1>3
<1>. HIDE DEF rank
<1>5. \A s : Class(Added', Home', s) = {} /\ Cardinality(Class(Added', Home', s)) = 0
  BY <1>1, FS_EmptySet DEF Class
<1>6. DoublyLinked(Links', Added' \cup Headers')
  BY <1>1, <1>3 DEF DoublyLinked, Links
<1>7. Ranked(Links', Added', Headers', Home', rank)
  BY <1>1, <1>3, <1>4, <1>5 DEF Ranked, Links
<1>8. \A s \in Headers' : Cardinality(Class(Added', Home', s)) <= timer_cnt'[s]
  BY <1>1, <1>2, <1>5
<1>. QED
  BY <1>4, <1>6, <1>7, <1>8 DEF SlotLists, Lists

(* A slot later, every timer is one slot nearer.                           *)
LEMMA HomeKept ==
  ASSUME WheelType, Control, init_flag, slot_num' = slot_num, cur_slot < slot_num,
         Advance, Waited, NEW a \in alive
  PROVE  Home'[a] = Home[a]
<1>1. /\ slot_num \in Nat \ {0} /\ cur_slot \in Nat /\ a \in Addr /\ a \in Nodes
      /\ tm[a].due \in Int /\ tm'[a].due = Elapsed(tm[a].due)
  <2>1. a \in Addr /\ tm[a] \in Timer
    BY DEF WheelType
  <2>2. tm'[a] = [tm[a] EXCEPT !.due = Elapsed(@)]
    BY <2>1 DEF Waited
  <2>. QED
    BY <2>1, <2>2, HomeFacts DEF Timer, Nodes
<1>2. /\ Home[a] = (cur_slot + tm[a].due) % slot_num
      /\ Home'[a] = (cur_slot' + tm'[a].due) % slot_num
  BY <1>1, Zenon DEF Home
<1>. DEFINE d == tm[a].due - 1
            q == d \div slot_num
            r == d % slot_num
            e == Elapsed(tm[a].due)
<1>3. q \in Int /\ d \in Int /\ r \in Int /\ d = q * slot_num + r
  <2>1. d \in Int
    BY <1>1
  <2>. HIDE DEF d
  <2>. QED
    BY <1>1, <2>1, DivMod
<1>4. PICK k \in Int : e = d + k * slot_num
  <2>1. CASE d > -2 * slot_num
    <3>1. e = d + 0 * slot_num
      BY <1>1, <2>1 DEF Elapsed
    <3>. QED
      BY <3>1
  <2>2. CASE ~ (d > -2 * slot_num)
    <3>1. e = r - 2 * slot_num
      BY <1>1, <2>2 DEF Elapsed
    <3>. HIDE DEF q, d, r, e
    <3>2. (-q - 2) * slot_num = -(q * slot_num) - 2 * slot_num
      BY <1>1, <1>3
    <3>3. e = d + (-q - 2) * slot_num
      BY <1>1, <1>3, <3>1, <3>2
    <3>. QED
      BY <1>3, <3>3
  <2>. QED
    BY <2>1, <2>2
<1>5. PICK j \in Int : cur_slot' = (cur_slot + 1) + j * slot_num
  <2>1. CASE cur_slot = slot_num - 1
    <3>1. cur_slot' = (cur_slot + 1) + (-1) * slot_num
      BY <1>1, <2>1 DEF Advance
    <3>. QED
      BY <3>1
  <2>2. CASE cur_slot # slot_num - 1
    <3>1. cur_slot' = (cur_slot + 1) + 0 * slot_num
      BY <1>1, <2>2 DEF Advance
    <3>. QED
      BY <3>1
  <2>. QED
    BY <2>1, <2>2
<1>6. cur_slot' + e = (cur_slot + tm[a].due) + (j + k) * slot_num
  <2>1. (j + k) * slot_num = j * slot_num + k * slot_num
    BY <1>1
  <2>. HIDE DEF e
  <2>. QED
    BY <1>1, <1>4, <1>5, <2>1
<1>7. ((cur_slot + tm[a].due) + (j + k) * slot_num) % slot_num = (cur_slot + tm[a].due) % slot_num
  <2>1. cur_slot + tm[a].due \in Int /\ j + k \in Int
    BY <1>1
  <2>. QED
    BY <1>1, <2>1, TurnsAside
<1>. QED
  BY <1>1, <1>2, <1>6, <1>7

(* The worker moves an expired timer from the current slot's list to the   *)
(* one where it is due again, and goes on in the current slot's.           *)
LEMMA RearmLists ==
  ASSUME WheelType, Control, WheelType', Control', SlotLists, Walking, Kept, Rearm
  PROVE  /\ SlotLists'
         /\ tmp' \in Added' \cup Headers' /\ Home'[tmp'] = cur_slot'
         /\ timer_cnt' \in [Slots -> Nat]
<1>. DEFINE a     == temp
            slot  == Target(tm[temp].interval)
            l     == Unlinked(Links, temp)
            links == Placed(l, temp, slot)
<1>1. /\ init_flag /\ pc = "fired" /\ a = next[tmp] /\ a \in Added
      /\ tmp \in Added \cup Headers /\ Home[tmp] = cur_slot
      /\ caller.op = "none" /\ cur_slot < slot_num
  BY DEF Rearm, Walking, Control
<1>2. /\ next' = links.next /\ prev' = links.prev /\ tmp' = links.next[tmp]
      /\ timer_cnt' = Moved(timer_cnt, cur_slot, slot)
      /\ tm' = [tm EXCEPT ![a] = Armed(@.type, @.interval, @.id)]
      /\ UNCHANGED <<init_flag, slot_num, cur_slot, alive, caller>>
  BY DEF Rearm, SetLinks, confVars, ctlVars
<1>3. /\ slot_num \in Nat \ {0} /\ cur_slot \in Headers /\ Headers \in SUBSET Slots
      /\ Added \in SUBSET Addr /\ Home \in [Nodes -> Int] /\ Added \cup Headers \subseteq Nodes
      /\ \A s \in Headers : s \notin Addr
  BY <1>1, HomeFacts
<1>4. Added' = Added /\ Headers' = Headers
  BY <1>2 DEF Added, Headers
<1>5. Home[a] = cur_slot /\ tmp # a
  BY <1>1, <1>3, ListFacts
<1>6. slot \in Headers /\ tm'[a].due = tm[a].interval /\ slot = (cur_slot + tm[a].interval) % slot_num
  <2>1. tm[a].interval \in Nat
    BY <1>1, <1>3 DEF WheelType, Timer
  <2>2. slot \in Slots /\ slot < slot_num
    BY <1>3, <2>1, TargetTyped
  <2>3. tm'[a].due = tm[a].interval
    BY <1>1, <1>2, <1>3 DEF Armed, WheelType
  <2>4. slot \in 0 .. slot_num - 1
    <3>. HIDE DEF slot
    <3>. QED
      BY <1>3, <2>2, SlotFacts
  <2>. QED
    BY <1>1, <2>3, <2>4, HomeFacts DEF Target
<1>. HIDE DEF links, l, slot, a
<1>7. PICK rank \in [Nodes -> Nat] : Lists(Links, Added, Headers, Home, rank)
  BY <1>1 DEF SlotLists
<1>8. PICK rank2 \in [Nodes -> Nat] : Lists(l, Added \ {a}, Headers, Home, rank2)
  BY <1>1, <1>3, <1>7, LinksType, UnlinkedLists DEF l, a
<1>. DEFINE home3 == [Home EXCEPT ![a] = slot]
<1>9. PICK rank3 \in [Nodes -> Nat] : Lists(links, Added, Headers, home3, rank3)
  <2>1. l \in LinkTables /\ Added \ {a} \in SUBSET Addr /\ a \in Addr /\ a \notin Added \ {a}
        /\ (Added \ {a}) \cup {a} = Added
    BY <1>1, <1>3, LinksType, LinksTyped DEF l, a
  <2>2. \E rank3 \in [Nodes -> Nat] :
          Lists(Placed(l, a, slot), (Added \ {a}) \cup {a}, Headers, home3, rank3)
    BY <1>3, <1>6, <1>8, <2>1, PlacedLists
  <2>. QED
    BY <2>1, <2>2 DEF links, a
<1>10. Links' = links
  BY <1>2 DEF Links, links, Placed, Between
<1>11. \A x \in Added \cup Headers : Home'[x] = home3[x]
  <2>1. ASSUME NEW x \in Added PROVE Home'[x] = home3[x]
    <3>1. Home'[x] = (cur_slot + tm'[x].due) % slot_num /\ Home[x] = (cur_slot + tm[x].due) % slot_num
      BY <1>2, <1>3, Zenon DEF Home
    <3>2. CASE x = a
      BY <3>1, <3>2, <1>1, <1>3, <1>6
    <3>3. CASE x # a
      <4>1. tm'[x] = tm[x]
        BY <3>3, <1>2, <1>3 DEF WheelType
      <4>. QED
        BY <3>1, <3>3, <4>1, <1>3
    <3>. QED
      BY <3>2, <3>3
  <2>2. ASSUME NEW x \in Headers PROVE Home'[x] = home3[x]
    <3>1. x # a /\ Home'[x] = x /\ Home[x] = x
      BY <1>1, <1>3, HeaderHome
    <3>. QED
      BY <3>1, <1>3
  <2>. QED
    BY <2>1, <2>2
<1>. HIDE DEF home3
<1>12. Lists(Links', Added, Headers, Home', rank3)
  BY <1>3, <1>9, <1>10, <1>11, SameLists
<1>13. tmp' \in Added \cup Headers /\ Home'[tmp'] = cur_slot
  <2>1. links.next[tmp] \in Added \cup Headers /\ home3[links.next[tmp]] = home3[tmp]
    BY <1>1, <1>9 DEF Lists, DoublyLinked, Ranked
  <2>2. home3[tmp] = cur_slot
    BY <1>1, <1>3, <1>5 DEF home3
  <2>. QED
    BY <1>2, <1>11, <2>1, <2>2
<1>. DEFINE C(s)  == Class(Added, Home, s)
            C2(s) == Class(Added, Home', s)
<1>14. \A s : /\ IsFiniteSet(C(s)) /\ Cardinality(C(s)) \in Nat
  BY <1>3, ClassFinite
<1>15. /\ a \in C(cur_slot) /\ a \in Addr /\ Home'[a] = slot
       /\ \A x \in Added : x # a => Home'[x] = Home[x]
  BY <1>1, <1>3, <1>5, <1>11 DEF Class, home3
<1>16. /\ \A s : s # cur_slot /\ s # slot => C2(s) = C(s)
       /\ cur_slot = slot => C2(slot) = C(slot)
       /\ cur_slot # slot => C2(slot) = C(slot) \cup {a} /\ a \notin C(slot)
       /\ cur_slot # slot => C2(cur_slot) = C(cur_slot) \ {a}
  BY <1>1, <1>5, <1>15 DEF Class
<1>17. /\ \A s \in Slots : timer_cnt[s] \in Nat
       /\ \A s \in Headers : Cardinality(C(s)) <= timer_cnt[s]
       /\ cur_slot \in Slots /\ slot \in Slots
       /\ timer_cnt \in [Slots -> Nat]
  BY <1>1, <1>3, <1>6 DEF SlotLists, Kept
<1>. HIDE DEF C, C2
<1>18. cur_slot # slot =>
         /\ Cardinality(C2(slot)) = Cardinality(C(slot)) + 1
         /\ Cardinality(C2(cur_slot)) = Cardinality(C(cur_slot)) - 1
  <2>1. ASSUME cur_slot # slot PROVE Cardinality(C(slot) \cup {a}) = Cardinality(C(slot)) + 1
    BY <2>1, <1>14, <1>16, FS_AddElement
  <2>2. Cardinality(C(cur_slot) \ {a}) = Cardinality(C(cur_slot)) - 1
    BY <1>14, <1>15, FS_RemoveElement
  <2>. QED
    BY <2>1, <2>2, <1>16
<1>19. timer_cnt[cur_slot] > 0
  <2>1. Cardinality(C(cur_slot)) # 0
    BY <1>14, <1>15, FS_EmptySet
  <2>. QED
    BY <2>1, <1>3, <1>14, <1>17
<1>20. \A s \in Slots : timer_cnt'[s] = IF cur_slot = slot THEN timer_cnt[s]
                                        ELSE IF s = cur_slot THEN timer_cnt[s] - 1
                                        ELSE IF s = slot THEN timer_cnt[s] + 1 ELSE timer_cnt[s]
  BY <1>2, <1>17 DEF Moved
<1>21. timer_cnt' \in [Slots -> Nat]
  <2>1. timer_cnt' \in [Slots -> Int]
    BY DEF WheelType
  <2>2. \A s \in Slots : timer_cnt'[s] \in Nat
    BY <1>17, <1>19, <1>20
  <2>. QED
    BY <2>1, <2>2
<1>22. ASSUME NEW s \in Headers PROVE Cardinality(C2(s)) <= timer_cnt'[s]
  <2>1. s \in Slots /\ Cardinality(C(s)) <= timer_cnt[s] /\ Cardinality(C(s)) \in Nat /\ timer_cnt[s] \in Nat
    BY <1>3, <1>14, <1>17
  <2>2. CASE cur_slot = slot \/ (s # cur_slot /\ s # slot)
    <3>1. C2(s) = C(s)
      BY <2>2, <1>16
    <3>2. timer_cnt'[s] = timer_cnt[s]
      BY <2>1, <2>2, <1>20
    <3>. QED
      BY <2>1, <3>1, <3>2
  <2>3. CASE cur_slot # slot /\ (s = cur_slot \/ s = slot)
    BY <2>1, <2>3, <1>18, <1>20
  <2>. QED
    BY <2>2, <2>3
<1>. QED
  BY <1>2, <1>4, <1>12, <1>13, <1>21, <1>22 DEF SlotLists, C2

(* A slot with a timer has a count.                                        *)
LEMMA CountPositive ==
  ASSUME WheelType, Control, init_flag, SlotLists, NEW a \in Added
  PROVE  timer_cnt[Home[a]] > 0
<1>. DEFINE C == Class(Added, Home, Home[a])
<1>1. /\ IsFiniteSet(C) /\ Cardinality(C) \in Nat /\ Cardinality(C) <= timer_cnt[Home[a]]
      /\ timer_cnt[Home[a]] \in Int
  BY HomeFacts, ClassFinite DEF SlotLists, WheelType
<1>2. a \in C
  BY DEF Class
<1>. HIDE DEF C
<1>3. Cardinality(C) # 0
  BY <1>1, <1>2, FS_EmptySet
<1>. QED
  BY <1>1, <1>3

(* Steps that move no timer, out of the walk.                              *)
LEMMA Unmoved ==
  ASSUME WheelType, Control, WheelType', Control', QuietInv,
         UNCHANGED <<init_flag, slot_num, alive, next, prev, timer_cnt, cur_slot>>,
         \A a \in alive : tm'[a].due = tm[a].due,
         caller'.cell = caller.cell, caller'.op # "leaked",
         caller.cell # Null => caller' = caller,
         fault' \in QuietFaults,
         pc' \notin {"walk", "fired"}
  PROVE  QuietInv'
<1>1. Added' = Added /\ Added \subseteq alive /\ alive \subseteq Addr
  BY DEF Added, WheelType
<1>2. \A a \in alive : Home'[a] = Home[a]
  BY <1>1, SameHome
<1>3. SlotLists'
  BY <1>1, <1>2, SameWheel DEF QuietInv
<1>4. AddUnderWay'
  BY <1>2 DEF QuietInv, AddUnderWay, Control
<1>5. Walking' /\ Kept'
  BY DEF QuietInv, Walking, Kept
<1>. QED
  BY <1>3, <1>4, <1>5 DEF QuietInv

(* Steps that leave all that QuietInv looks at.                            *)
LEMMA Untouched ==
  ASSUME WheelType, Control, WheelType', Control', QuietInv,
         UNCHANGED <<init_flag, slot_num, heapVars, timer_cnt, workerVars, caller, fault>>
  PROVE  QuietInv'
<1>. USE DEF heapVars, workerVars
<1>1. Added' = Added /\ Headers' = Headers /\ Home' = Home
  BY DEF Added, Headers, Home
<1>2. SlotLists'
  BY <1>1, SameWheel DEF QuietInv
<1>3. AddUnderWay' /\ Walking' /\ Kept'
  BY <1>1 DEF QuietInv, AddUnderWay, Walking, Kept
<1>. QED
  BY <1>2, <1>3 DEF QuietInv

LEMMA QuietCallStep ==
  ASSUME WheelType, Control, Indexed, WheelType', Control', QuietInv,
         AtRest, ProperCall \/ ProperEnd
  PROVE  QuietInv'
<1>. USE DEF confVars, idVars, heapVars, tableVars, workerVars, ctlVars
<1>0. /\ caller.op = "none" => caller.cell = Null /\ fault = "none" /\ Added = alive
      /\ pc \notin {"walk", "fired"}
      /\ SlotLists /\ AddUnderWay /\ Kept
      /\ fault \in QuietFaults /\ caller.op # "leaked"
  BY AddedAll DEF Control, AtRest, QuietInv, Kept
<1>1. ASSUME NEW n \in SlotNums, TiInit(n)
      PROVE  QuietInv'
  <2>1. SlotLists'
    BY <1>0, <1>1, InitLists
  <2>2. /\ caller' = caller /\ caller.op = "none" /\ pc' = pc /\ alive' = alive /\ init_flag'
        /\ timer_cnt' = [s \in Slots |-> 0] /\ fault' = fault /\ ~ init_flag
    BY <1>1 DEF TiInit, LockFree
  <2>3. alive' = {}
    BY <1>0, <2>2 DEF Kept
  <2>. QED
    BY <1>0, <2>1, <2>2, <2>3 DEF QuietInv, AddUnderWay, Walking, Kept
<1>2. CASE TiInitRefused
  BY <1>0, <1>2, Unmoved DEF TiInitRefused
<1>9. CASE TiInitPastEnd
  <2>1. Crash("memset") /\ caller.op = "none"
    BY <1>9 DEF TiInitPastEnd, LockFree
  <2>2. fault' \in QuietFaults
    BY <2>1 DEF Crash, QuietFaults
  <2>. QED
    BY <1>0, <2>1, <2>2, Unmoved DEF Crash, WheelType
<1>3. ASSUME NEW on \in BOOLEAN, TiEnable(on)
      PROVE  QuietInv'
  BY <1>0, <1>3, Unmoved DEF TiEnable
<1>4. ASSUME NEW a \in Addr, NEW type \in Types, NEW interval \in Intervals,
             TiAdd(a, type, interval)
      PROVE  QuietInv'
  <2>1. CASE min_free = 0
    <3>1. Crash("wild bit") /\ caller.op = "none"
      BY <1>4, <2>1 DEF TiAdd, LockFree
    <3>2. fault' \in QuietFaults
      BY <3>1 DEF Crash, QuietFaults
    <3>. QED
      BY <1>0, <3>1, <3>2, Unmoved DEF Crash, WheelType
  <2>2. CASE min_free # 0
    <3>1. /\ caller.op = "none" /\ init_flag /\ a \notin alive
          /\ alive' = alive \cup {a}
          /\ tm' = [tm EXCEPT ![a] = Armed(type, interval, min_free)]
          /\ next' = [next EXCEPT ![a] = a] /\ prev' = [prev EXCEPT ![a] = a]
          /\ caller' = [op |-> "add", cell |-> a, slot |-> Target(interval)]
          /\ UNCHANGED <<init_flag, slot_num, cur_slot, timer_cnt, pc, fault>>
      BY <1>4, <2>2 DEF TiAdd, LockFree
    <3>2. Added' = Added /\ Added = alive /\ alive \subseteq Addr /\ a # Null /\ a \in Nodes
      BY <1>0, <3>1, SlotFacts DEF Added, Nodes, WheelType
    <3>3. tm'[a] = Armed(type, interval, min_free) /\ \A b \in alive : tm'[b] = tm[b]
      BY <3>1 DEF WheelType
    <3>4. \A b \in alive : Home'[b] = Home[b]
      BY <3>1, <3>2, <3>3, SameHome
    <3>5. \A x \in Added \cup Headers : next'[x] = next[x] /\ prev'[x] = prev[x]
      BY <3>1, <3>2, HomeFacts DEF WheelType
    <3>6. SlotLists'
      BY <1>0, <3>1, <3>2, <3>4, <3>5, SameWheel
    <3>7. AddUnderWay'
      <4>1. tm'[a].due = interval
        BY <3>3 DEF Armed
      <4>2. Home'[a] = (cur_slot + interval) % slot_num
        BY <3>1, <3>2, <4>1, Zenon DEF Home
      <4>3. next'[a] = a /\ prev'[a] = a
        BY <3>1, <3>2 DEF WheelType
      <4>. QED
        BY <3>1, <4>2, <4>3 DEF AddUnderWay, Target
    <3>8. Walking' /\ Kept'
      BY <1>0, <3>1 DEF Walking, Kept
    <3>. QED
      BY <3>6, <3>7, <3>8 DEF QuietInv
  <2>. QED
    BY <2>1, <2>2
<1>5. ASSUME NEW id \in Ids, init_flag, TiDel(id)
      PROVE  QuietInv'
  <2>. DEFINE a == rb_root[id]
  <2>1. caller.op = "none" /\ a # Null /\ a \in Addr
    BY <1>5 DEF TiDel, LockFree, WheelType
  <2>2. a \in Added /\ a \in alive /\ a \in Nodes /\ Added = alive
    BY <1>0, <1>5, <2>1 DEF Indexed, IndexAgrees, Nodes
  <2>3. CanUnlink(a)
    BY <1>0, <1>5, <2>2, ListFacts DEF CanUnlink
  <2>4. /\ SetLinks(Unlinked(Links, a)) /\ Freed({a})
        /\ UNCHANGED <<confVars, timer_cnt, workerVars, ctlVars>>
    BY <1>5, <2>2, <2>3 DEF TiDel
  <2>. HIDE DEF a
  <2>5. /\ alive' = alive \ {a} /\ Added' = Added \ {a}
        /\ \A b \in alive \ {a} : tm'[b] = tm[b]
    BY <2>2, <2>4 DEF Freed, Added, WheelType
  <2>6. SlotLists'
    BY <1>0, <1>5, <2>2, <2>4, <2>5, OneGone
  <2>7. AddUnderWay' /\ Walking' /\ Kept'
    BY <1>0, <1>5, <2>1, <2>4, <2>5 DEF AddUnderWay, Walking, Kept
  <2>. QED
    BY <2>6, <2>7 DEF QuietInv
<1>6. CASE alive = {} /\ TiDelAll
  <2>1. ASSUME NEW s \in Headers PROVE next[s] = s
    <3>1. init_flag /\ Added = {}
      BY <1>6 DEF Headers, Added
    <3>2. next[s] \in Headers /\ Home[next[s]] = Home[s] /\ Home[s] = s /\ Home[next[s]] = next[s]
      BY <1>0, <3>1, ListFacts, HomeFacts
    <3>. QED
      BY <3>2
  <2>2. UNCHANGED <<confVars, idVars, heapVars, timer_cnt, rb_root, workerVars, ctlVars>>
    BY <1>6, <2>1, Zenon DEF TiDelAll
  <2>. QED
    BY <1>0, <2>2, Unmoved
<1>7. CASE TiStart
  BY <1>0, <1>7, Unmoved DEF TiStart, LockFree, AtRest
<1>8. CASE TiStop \/ TiClose
  <2>1. caller'.op # "leaked" /\ caller'.cell = Null /\ caller.cell = Null
    BY <1>0, <1>8 DEF TiStop, TiClose, LockFree, Locked, Idle
  <2>. QED
    BY <1>0, <1>8, <2>1, Unmoved DEF TiStop, TiClose
<1>. QED
  BY <1>1, <1>2, <1>3, <1>4, <1>5, <1>6, <1>7, <1>8, <1>9 DEF ProperCall, ProperEnd

(* A kill notes in each timer that there was one.                          *)
LEMMA KilledMarks ==
  ASSUME WheelType, Killed, NEW a \in alive
  PROVE  /\ tm'[a].due = tm[a].due /\ tm'[a].round = tm[a].round
         /\ tm'[a].interval = tm[a].interval /\ tm'[a].ran = tm[a].ran
         /\ tm'[a].cut
<1>1. tm[a] \in Timer /\ a \in Addr
  BY DEF WheelType
<1>2. tm'[a] = [tm[a] EXCEPT !.cut = TRUE, !.torn = @ \/ (pc = "fired" /\ a = temp)]
  BY <1>1 DEF Killed
<1>. QED
  BY <1>1, <1>2 DEF Timer

LEMMA QuietFinishStep ==
  ASSUME WheelType, Control, Indexed, WheelType', Control', QuietInv, Finish
  PROVE  QuietInv'
<1>. USE DEF confVars, idVars, heapVars, tableVars, workerVars, ctlVars
<1>0. SlotLists /\ AddUnderWay /\ Walking /\ Kept
  BY DEF QuietInv
<1>1. CASE TiAddLink
  <2>. DEFINE a == caller.cell
  <2>1. /\ caller.op = "add" /\ a \in Addr /\ a \in alive /\ init_flag /\ a \notin Added
        /\ caller.slot = Home[a] /\ Home[a] \in Headers
    BY <1>0, <1>1, HomeFacts DEF TiAddLink, Control, WheelType, AddUnderWay, Added
  <2>2. CanPlace(Links, caller.slot)
    BY <1>0, <2>1, ListFacts DEF CanPlace, Links
  <2>3. /\ SetLinks(Placed(Links, a, Home[a]))
        /\ timer_cnt' = [timer_cnt EXCEPT ![Home[a]] = @ + 1]
        /\ caller' = Idle
        /\ UNCHANGED <<confVars, alive, tm, workerVars, fault>>
    BY <1>1, <2>1, <2>2 DEF TiAddLink
  <2>4. Added' = Added \cup {a}
    BY <2>1, <2>3, SlotFacts DEF Added, Idle, Nodes, WheelType
  <2>. HIDE DEF a
  <2>5. SlotLists'
    BY <1>0, <2>1, <2>3, <2>4, OneMore
  <2>6. AddUnderWay' /\ Walking'
    BY <1>0, <2>1, <2>3 DEF AddUnderWay, Walking, Idle
  <2>7. Kept'
    <3>1. timer_cnt' \in [Slots -> Nat]
      <4>1. timer_cnt \in [Slots -> Nat] /\ Home[a] \in Slots
        BY <1>0, <2>1, HomeFacts DEF Kept
      <4>. QED
        BY <2>3, <4>1
    <3>. QED
      BY <1>0, <2>1, <2>3, <3>1 DEF Kept, Idle
  <2>. QED
    BY <2>5, <2>6, <2>7 DEF QuietInv
<1>2. CASE TiStopKill \/ TiCloseKill
  <2>1. /\ caller.op \in {"stop", "close"} /\ caller.cell = Null /\ caller'.cell = Null
        /\ caller'.op # "leaked"
        /\ UNCHANGED <<init_flag, slot_num, alive, next, prev, timer_cnt, cur_slot, fault>>
        /\ pc' = "none" /\ Killed
    <3>1. CASE TiStopKill
      BY <3>1 DEF TiStopKill, Killed, WorkerGone, Control, Idle
    <3>2. CASE TiCloseKill
      BY <3>2 DEF TiCloseKill, Killed, WorkerGone, Control, Locked, Idle
    <3>. QED
      BY <1>2, <3>1, <3>2
  <2>2. \A a \in alive : tm'[a].due = tm[a].due
    BY <2>1, KilledMarks
  <2>. QED
    BY <1>0, <2>1, <2>2, Unmoved DEF Kept
<1>4. CASE TiInitEnable
  BY <1>4, Untouched DEF TiInitEnable
<1>3. CASE TiCloseFree
  <2>1. caller.op = "free" /\ init_flag /\ Added = alive /\ alive \subseteq Addr
    BY <1>3, AddedAll DEF TiCloseFree, Control, WheelType
  <2>2. PICK rank \in [Nodes -> Nat] : Lists(Links, Added, Headers, Home, rank)
    BY <1>0, <2>1 DEF SlotLists
  <2>3. \A s \in Headers : Members(s) = Class(Added, Home, s)
    BY <2>1, <2>2, HomeFacts, MembersOfClass
  <2>4. ASSUME NEW a \in alive PROVE a \in Doomed
    <3>1. Home[a] \in Headers /\ a \in Class(Added, Home, Home[a])
      BY <2>1, HomeFacts DEF Class
    <3>2. timer_cnt[Home[a]] # 0
      BY <1>0, <2>1, CountPositive
    <3>. QED
      BY <2>3, <3>1, <3>2 DEF Doomed
  <2>5. Doomed \subseteq alive
    BY <2>1, <2>3 DEF Doomed, Class
  <2>6. /\ alive' = {} /\ ~ init_flag' /\ caller' = Idle
        /\ UNCHANGED <<timer_cnt, pc, fault>>
    BY <1>3, <2>4, <2>5 DEF TiCloseFree, Freed
  <2>7. pc \notin {"walk", "fired"}
    BY <1>0, <2>1 DEF Walking
  <2>. QED
    BY <1>0, <2>6, <2>7 DEF QuietInv, SlotLists, AddUnderWay, Walking, Kept, Idle
<1>. QED
  BY <1>1, <1>2, <1>3, <1>4 DEF Finish

LEMMA QuietWorkerStep ==
  ASSUME WheelType, Control, Indexed, WheelType', Control', QuietInv, QuietWorker
  PROVE  QuietInv'
<1>. USE DEF confVars, idVars, heapVars, tableVars, workerVars, ctlVars
<1>0. /\ SlotLists /\ AddUnderWay /\ Walking /\ Kept
      /\ caller.op \notin {"add", "leaked"} /\ caller.cell = Null /\ Added = alive
      /\ fault \in QuietFaults /\ alive \subseteq Addr
  BY AddedAll DEF QuietInv, Kept, AddUnderWay, QuietWorker, WheelType
<1>1. Cut => \A a \in alive : tm'[a].due = tm[a].due
  BY DEF Cut, WheelType, Timer
<1>2. End => QuietInv'
  BY <1>0, <1>1, Unmoved DEF End
<1>3. CASE Arm
  <2>1. CASE timerfd
    BY <1>0, <1>3, <2>1, Unmoved DEF Arm
  <2>2. CASE ~ timerfd
    BY <1>2, <1>3, <2>2 DEF Arm
  <2>. QED
    BY <2>1, <2>2
<1>4. CASE Loop
  <2>1. CASE ~ start_flag
    BY <1>2, <1>4, <2>1 DEF Loop
  <2>2. CASE start_flag /\ cur_slot \notin Headers
    <3>1. Crash("data") /\ pc = "loop"
      BY <1>4, <2>2 DEF Loop
    <3>2. fault' \in QuietFaults
      BY <3>1 DEF Crash, QuietFaults
    <3>. QED
      BY <1>0, <3>1, <3>2, Unmoved DEF Crash, WheelType
  <2>3. CASE start_flag /\ cur_slot \in Headers
    <3>1. /\ pc = "loop" /\ pc' = "walk" /\ tmp' = cur_slot
          /\ UNCHANGED <<confVars, idVars, heapVars, tableVars, temp, replay, cur_slot, ctlVars>>
      BY <1>4, <2>3 DEF Loop
    <3>2. caller.op = "none"
      BY <1>0, <2>3, <3>1 DEF Control, WheelType, Ops
    <3>3. Added' = Added /\ Headers' = Headers /\ \A a \in alive : Home'[a] = Home[a]
      BY <1>0, <3>1, SameHome DEF Added, Headers
    <3>4. SlotLists'
      BY <1>0, <3>1, <3>3, SameWheel
    <3>5. Home'[cur_slot] = cur_slot
      BY HeaderHome DEF WheelType
    <3>6. Walking'
      BY <2>3, <3>1, <3>2, <3>3, <3>5 DEF Walking
    <3>7. AddUnderWay' /\ Kept'
      BY <1>0, <3>1 DEF AddUnderWay, Kept
    <3>. QED
      BY <3>4, <3>6, <3>7 DEF QuietInv
  <2>. QED
    BY <2>1, <2>2, <2>3
<1>5. CASE WalkEnds
  BY <1>0, <1>5, Unmoved DEF WalkEnds
\* The worker's place and what follows it.
<1>6. ASSUME pc \in {"walk", "fired"}
      PROVE  /\ init_flag /\ caller.op = "none" /\ tmp \in Added \cup Headers
             /\ Home[tmp] = cur_slot /\ next[tmp] \in Added \cup Headers
             /\ Home[next[tmp]] = cur_slot /\ Valid(tmp)
             /\ next[tmp] \in Headers => next[tmp] = cur_slot
             /\ next[tmp] \in Added => tmp # next[tmp] /\ CanUnlink(next[tmp])
  <2>1. /\ init_flag /\ caller.op = "none" /\ tmp \in Added \cup Headers
        /\ Home[tmp] = cur_slot
    BY <1>0, <1>6 DEF Walking, Control
  <2>2. /\ next[tmp] \in Added \cup Headers /\ Home[next[tmp]] = cur_slot /\ Valid(tmp)
        /\ next[tmp] \in Headers => next[tmp] = cur_slot
    BY <1>0, <2>1, ListFacts, HomeFacts
  <2>3. ASSUME next[tmp] \in Added PROVE tmp # next[tmp] /\ CanUnlink(next[tmp])
    BY <1>0, <2>1, <2>3, ListFacts DEF CanUnlink, Nodes
  <2>. QED
    BY <2>1, <2>2, <2>3
<1>7. CASE PassBy \/ Fire
  <2>. DEFINE a == next[tmp]
  <2>1. /\ pc = "walk" /\ a \in alive /\ a \in Addr /\ init_flag /\ caller.op = "none"
        /\ Home[a] = cur_slot /\ Home[tmp] = cur_slot /\ tmp \in Added \cup Headers
    BY <1>0, <1>6, <1>7 DEF PassBy, Fire
  <2>2. /\ UNCHANGED <<init_flag, slot_num, alive, next, prev, timer_cnt, cur_slot, caller, fault>>
        /\ \A b \in alive : tm'[b].due = tm[b].due
    <3>1. \A b \in alive : b # a => tm'[b] = tm[b]
      BY <1>7, <2>1 DEF PassBy, Fire, WheelType
    <3>2. tm'[a].due = tm[a].due
      <4>1. \/ tm'[a] = [tm[a] EXCEPT !.round = @ - 1]
            \/ tm'[a] = [tm[a] EXCEPT !.ran = TRUE]
        BY <1>7, <2>1 DEF PassBy, Fire, WheelType
      <4>. QED
        BY <2>1, <4>1 DEF WheelType, Timer
    <3>. QED
      BY <1>7, <3>1, <3>2 DEF PassBy, Fire
  <2>3. Added' = Added /\ Headers' = Headers /\ \A b \in alive : Home'[b] = Home[b]
    BY <1>0, <2>2, SameHome DEF Added, Headers
  <2>4. SlotLists'
    BY <1>0, <2>2, <2>3, SameWheel
  <2>5. AddUnderWay' /\ Kept'
    BY <1>0, <2>2 DEF AddUnderWay, Kept
  <2>6. CASE PassBy
    <3>1. pc' = "walk" /\ tmp' = a
      BY <2>1, <2>6 DEF PassBy
    <3>2. Walking'
      BY <1>0, <2>1, <2>2, <2>3, <3>1 DEF Walking
    <3>. QED
      BY <2>4, <2>5, <3>2 DEF QuietInv
  <2>7. CASE Fire
    <3>1. pc' = "fired" /\ temp' = a /\ tmp' = tmp
      BY <2>7 DEF Fire
    <3>2. Home'[tmp] = cur_slot
      <4>1. tmp \in Added \/ tmp \in Slots
        BY <2>1, HomeFacts
      <4>. QED
        BY <1>0, <2>1, <2>3, <4>1, HeaderHome
    <3>3. Walking'
      BY <1>0, <2>1, <2>2, <2>3, <3>1, <3>2 DEF Walking
    <3>. QED
      BY <2>4, <2>5, <3>3 DEF QuietInv
  <2>. QED
    BY <1>7, <2>6, <2>7
<1>8. ~ WalkLost
  BY <1>0, <1>6 DEF WalkLost
<1>9. CASE Rearm
  <2>1. /\ SlotLists' /\ tmp' \in Added' \cup Headers' /\ Home'[tmp'] = cur_slot'
        /\ timer_cnt' \in [Slots -> Nat]
    BY <1>0, <1>9, RearmLists
  <2>2. /\ pc = "fired" /\ pc' = "walk" /\ temp \in Addr /\ caller.op = "none"
        /\ UNCHANGED <<init_flag, alive, caller, fault>>
        /\ tm' = [tm EXCEPT ![temp] = Armed(@.type, @.interval, @.id)]
    BY <1>9 DEF Rearm, LockFree, WheelType
  <2>3. AddUnderWay' /\ Walking' /\ Kept'
    BY <1>0, <2>1, <2>2 DEF AddUnderWay, Walking, Kept
  <2>. QED
    BY <2>1, <2>3 DEF QuietInv
<1>10. CASE RearmRefused
  <2>1. /\ pc = "fired" /\ pc' = "walk" /\ tmp' = next[tmp] /\ tm[temp].type = "REPEAT"
        /\ temp \in alive
        /\ UNCHANGED <<confVars, idVars, heapVars, tableVars, replay, cur_slot, ctlVars>>
    BY <1>10 DEF RearmRefused
  <2>2. Added' = Added /\ Headers' = Headers /\ \A b \in alive : Home'[b] = Home[b]
    BY <1>0, <2>1, SameHome DEF Added, Headers
  <2>3. SlotLists'
    BY <1>0, <2>1, <2>2, SameWheel
  <2>4. next[tmp] \in Added /\ Home[next[tmp]] = cur_slot /\ caller.op = "none"
    BY <1>0, <1>6, <2>1 DEF Walking
  <2>5. Walking'
    BY <1>0, <2>1, <2>2, <2>4 DEF Walking
  <2>6. AddUnderWay' /\ Kept'
    BY <1>0, <2>1 DEF AddUnderWay, Kept
  <2>. QED
    BY <2>3, <2>5, <2>6 DEF QuietInv
<1>11. CASE Expire
  <2>1. /\ pc = "fired" /\ pc' = "walk" /\ temp = next[tmp] /\ temp \in Added /\ init_flag
        /\ Home[temp] = cur_slot /\ tmp # temp /\ Home[tmp] = cur_slot
        /\ tmp \in Added \cup Headers /\ caller.op = "none"
    BY <1>0, <1>6, <1>11 DEF Expire, CanExpire, Walking
  <2>2. /\ SetLinks(Unlinked(Links, temp)) /\ Freed({temp}) /\ tmp' = next'[tmp]
        /\ timer_cnt' = [timer_cnt EXCEPT ![Home[temp]] = @ - 1]
        /\ UNCHANGED <<confVars, cur_timer_num, replay, cur_slot, ctlVars>>
    BY <1>11, <2>1 DEF Expire, SetLinks
  <2>3. /\ alive' = alive \ {temp} /\ Added' = Added \ {temp} /\ Headers' = Headers
        /\ \A b \in alive \ {temp} : tm'[b] = tm[b]
    BY <1>0, <2>2 DEF Freed, Added, Headers, WheelType
  <2>4. SlotLists'
    BY <1>0, <2>1, <2>2, <2>3, OneGone
  <2>5. Home'[tmp] = cur_slot
    <3>1. tmp \in Added \ {temp} \/ tmp \in Slots
      BY <2>1, HomeFacts
    <3>2. tmp \in Added \ {temp} => Home'[tmp] = Home[tmp]
      BY <1>0, <2>2, <2>3, SameHome
    <3>. QED
      BY <1>0, <2>1, <3>1, <3>2, HeaderHome
  <2>6. tmp' \in Added' \cup Headers' /\ Home'[tmp'] = cur_slot'
    <3>1. PICK rank \in [Nodes -> Nat] : Lists(Links', Added', Headers', Home', rank)
      BY <2>1, <2>2, <2>4 DEF SlotLists
    <3>2. tmp \in Added' \cup Headers'
      BY <2>1, <2>3
    <3>3. next'[tmp] \in Added' \cup Headers' /\ Home'[next'[tmp]] = Home'[tmp]
      BY <3>1, <3>2 DEF Lists, DoublyLinked, Ranked, Links
    <3>. QED
      BY <2>2, <2>5, <3>3
  <2>7. AddUnderWay' /\ Walking'
    BY <1>0, <2>1, <2>2, <2>6 DEF AddUnderWay, Walking
  <2>8. Kept'
    <3>1. timer_cnt[Home[temp]] > 0 /\ Home[temp] \in Slots
      BY <1>0, <2>1, CountPositive DEF WheelType
    <3>2. timer_cnt' \in [Slots -> Nat]
      <4>. DEFINE cnt == timer_cnt[Home[temp]]
      <4>1. timer_cnt \in [Slots -> Nat] /\ cnt \in Nat
        BY <1>0, <3>1 DEF Kept
      <4>2. cnt - 1 \in Nat
        <5>1. cnt > 0
          BY <3>1
        <5>. HIDE DEF cnt
        <5>. QED
          BY <4>1, <5>1
      <4>. QED
        BY <2>2, <3>1, <4>1, <4>2
    <3>. QED
      BY <1>0, <2>1, <2>2, <3>2 DEF Kept
  <2>. QED
    BY <2>4, <2>7, <2>8 DEF QuietInv
<1>15. CASE ExpireMisread
  <2>1. Crash("freed id")
    BY <1>15 DEF ExpireMisread
  <2>2. fault' \in QuietFaults
    BY <2>1 DEF Crash, QuietFaults
  <2>. QED
    BY <1>0, <2>1, <2>2, Unmoved DEF Crash, WheelType
<1>16. CASE Leave
  BY <1>0, <1>16, Unmoved DEF Leave, WorkerGone
<1>12. ~ FiredLost
  <2>1. SUFFICES ASSUME pc = "fired"
                 PROVE  /\ temp \in alive /\ Valid(tmp) /\ CanUnlink(next[tmp]) /\ CanRearm
    BY DEF FiredLost
  <2>2. /\ temp = next[tmp] /\ temp \in Added /\ init_flag /\ Valid(tmp) /\ CanUnlink(temp)
    BY <1>0, <1>6, <2>1 DEF Walking
  <2>. DEFINE slot == Target(tm[temp].interval)
              l    == Unlinked(Links, temp)
  <2>3. slot \in Headers
    <3>1. tm[temp].interval \in Nat /\ slot_num \in Nat \ {0}
      BY <1>0, <2>2, HomeFacts DEF WheelType, Timer
    <3>2. slot \in Slots /\ slot < slot_num
      BY <3>1, TargetTyped
    <3>. HIDE DEF slot
    <3>. QED
      BY <2>2, <3>1, <3>2, SlotFacts, HomeFacts
  <2>4. CanPlace(l, slot)
    <3>1. PICK rank \in [Nodes -> Nat] : Lists(Links, Added, Headers, Home, rank)
      BY <1>0, <2>2 DEF SlotLists
    <3>2. \E rank2 \in [Nodes -> Nat] : Lists(l, Added \ {temp}, Headers, Home, rank2)
      BY <2>2, <3>1, HomeFacts, LinksType, UnlinkedLists
    <3>. HIDE DEF slot, l
    <3>3. l.next[slot] \in Added \cup Headers /\ l.prev[slot] \in Added \cup Headers
      BY <2>3, <3>2 DEF Lists, DoublyLinked
    <3>. QED
      BY <1>0, <2>2, <3>3, ListFacts DEF CanPlace
  <2>. QED
    BY <1>0, <2>2, <2>4 DEF CanRearm
<1>13. CASE Tick \/ (Overrun /\ replay + 1 # LateReads)
  <2>1. /\ pc = "read" /\ pc' = "loop" /\ Advance /\ Waited /\ init_flag /\ cur_slot < slot_num
        /\ UNCHANGED <<init_flag, slot_num, alive, next, prev, timer_cnt, caller, fault>>
    BY <1>13 DEF Tick, Overrun, Control
  <2>2. /\ Added' = Added /\ \A a \in alive : Home'[a] = Home[a]
    BY <1>0, <2>1, HomeKept DEF Added
  <2>3. SlotLists'
    BY <1>0, <2>1, <2>2, SameWheel
  <2>4. AddUnderWay' /\ Walking' /\ Kept'
    BY <1>0, <2>1 DEF AddUnderWay, Walking, Kept
  <2>. QED
    BY <2>3, <2>4 DEF QuietInv
<1>14. CASE Overrun /\ replay + 1 = LateReads
  BY <1>2, <1>14 DEF Overrun
<1>. QED
  BY <1>3, <1>4, <1>5, <1>7, <1>8, <1>9, <1>10, <1>11, <1>12, <1>13, <1>14, <1>15, <1>16
     DEF QuietWorker, Worker

-----------------------------------------------------------------------------
(* Quiet callers are proper callers.                                       *)
LEMMA QuietIsProper ==
  [QuietNext]_vars => [ProperNext]_vars
BY DEF QuietNext, Serving, QuietWorker, ProperNext, Finish

LEMMA QuietStart == Init => QuietInv
<1>. SUFFICES ASSUME Init PROVE QuietInv
  OBVIOUS
<1>1. timer_cnt \in [Slots -> Nat] /\ fault \in QuietFaults
  BY DEF Init, QuietFaults
<1>. QED
  BY <1>1 DEF Init, Idle, QuietInv, SlotLists, AddUnderWay, Walking, Kept

LEMMA QuietStep ==
  ASSUME WheelInv, WheelInv', QuietInv, [QuietNext]_vars
  PROVE  QuietInv'
<1>1. WheelType /\ Control /\ Indexed /\ WheelType' /\ Control'
  BY DEF WheelInv
<1>2. CASE AtRest /\ (ProperCall \/ ProperEnd)
  BY <1>1, <1>2, QuietCallStep
<1>3. CASE Finish
  BY <1>1, <1>3, QuietFinishStep
<1>4. CASE QuietWorker
  BY <1>1, <1>4, QuietWorkerStep
<1>5. CASE UNCHANGED vars
  BY <1>1, <1>5, Untouched DEF vars, confVars, tableVars, ctlVars
<1>. QED
  BY <1>2, <1>3, <1>4, <1>5 DEF QuietNext, Serving, Finish

(* The inductive invariant of the wheel under quiet callers.               *)
THEOREM QuietInvariant == QuietSpec => [](WheelInv /\ QuietInv)
<1>1. QuietSpec => ProperSpec
  BY QuietIsProper, PTL DEF QuietSpec, ProperSpec
<1>2. WheelInv /\ WheelInv' /\ QuietInv /\ [QuietNext]_vars => QuietInv'
  BY QuietStep
<1>. QED
  BY <1>1, <1>2, WheelInvariant, QuietStart, PTL DEF QuietSpec

(* Type correctness under quiet callers: the slots' counts and the         *)
(* capacity's stay natural numbers.                                        *)
THEOREM QuietTypeCorrect == QuietSpec => []TypeOK
<1>1. WheelInv /\ QuietInv => TypeOK
  <2>. SUFFICES ASSUME WheelInv, QuietInv PROVE TypeOK
    OBVIOUS
  <2>1. WheelType /\ Control /\ Kept /\ Indexed /\ IdsProofs!IdsInv
    BY DEF WheelInv, QuietInv
  <2>2. /\ Counted \in 0 .. TimerMax /\ Held \subseteq IdsProofs!Ids
        /\ IdsProofs!Cardinality(Held) <= Counted
    <3>1. IdsProofs!TypeOK /\ IdsProofs!CountCoversHeld
      BY <2>1 DEF IdsProofs!IdsInv
    <3>2. Held \subseteq IdsProofs!Ids
      BY <3>1, Zenon DEF IdsProofs!TypeOK
    <3>3. IdsProofs!Cardinality(Held) <= Counted
      BY <3>1, Zenon DEF IdsProofs!CountCoversHeld
    <3>4. Counted \in 0 .. TimerMax
      BY <3>1, Zenon DEF IdsProofs!TypeOK
    <3>. QED
      BY <3>2, <3>3, <3>4
  <2>3. cur_timer_num \in 0 .. TimerMax
    <3>1. cur_timer_num \in Int /\ TimerMax \in Nat
      BY <2>1, IdAssumption DEF WheelType
    <3>2. ASSUME caller.cell # Null PROVE Counted > 0
      <4>1. init_flag /\ caller.cell \in alive
        BY <2>1, <3>2 DEF Control
      <4>2. tm[caller.cell].id \in Held
        BY <4>1 DEF Held
      <4>3. IdsProofs!IsFiniteSet(Held)
        BY <2>2, IdsProofs!IdsFinite, IdsProofs!FS_Subset, IdAssumption, Zenon
      <4>4. IdsProofs!Cardinality(Held) # 0 /\ IdsProofs!Cardinality(Held) \in Nat
        <5>1. Held # {}
          BY <4>2
        <5>2. IdsProofs!Cardinality(Held) = 0 <=> Held = {}
          BY <4>3, IdsProofs!FS_EmptySet, IdAssumption, Zenon
        <5>3. IdsProofs!Cardinality(Held) \in Nat
          BY <4>3, IdsProofs!FS_CardinalityType, IdAssumption, Zenon
        <5>. QED
          BY <5>1, <5>2, <5>3
      <4>. QED
        BY <2>2, <4>4
    <3>3. fault = "wild bit" => cur_timer_num >= 0
      BY <2>1 DEF Indexed
    <3>. QED
      <4>1. CASE caller.cell # Null \/ fault = "wild bit"
        <5>1. Counted = cur_timer_num + 1
          BY <4>1 DEF Counted
        <5>2. Counted \in 0 .. TimerMax
          BY <2>2
        <5>3. Counted > 0 \/ cur_timer_num >= 0
          BY <3>2, <3>3, <4>1
        <5>. QED
          BY <3>1, <5>1, <5>2, <5>3
      <4>2. CASE ~ (caller.cell # Null \/ fault = "wild bit")
        BY <2>2, <4>2 DEF Counted
      <4>. QED
        BY <4>1, <4>2
  <2>4. caller.op \in Ops /\ fault \in Faults
    BY <2>1 DEF WheelType
  <2>. QED
    BY <2>1, <2>3, <2>4 DEF WheelType, Kept, TypeOK, Ops, Faults, Exempt, Misuse
<1>. QED
  BY <1>1, QuietInvariant, PTL

(* No step of the worker or of a quiet call follows, links or frees        *)
(* anything but live timers and headers, and no start meets a worker that  *)
(* has yet to clear pid.  What can go wrong beside the code's own two      *)
(* misuses (QuietFaults) is the bit of an id that there is none left for,  *)
(* and a cur_slot from a life with more slots.                             *)
THEOREM QuietListsSafe ==
  QuietSpec => [](fault \notin {"pid", "list", "use after free", "bad free"})
<1>1. QuietInv => fault \notin {"pid", "list", "use after free", "bad free"}
  BY DEF QuietInv, Kept, QuietFaults
<1>. QED
  BY <1>1, QuietInvariant, PTL

(* The slots' lists are doubly linked and hold live timers only.           *)
THEOREM QuietWellLinked == QuietSpec => []WellLinked
<1>1. WheelInv /\ QuietInv => WellLinked
  <2>. SUFFICES ASSUME WheelInv, QuietInv, NEW x \in alive \cup Headers
                PROVE  /\ Valid(next[x]) /\ prev[next[x]] = x
                       /\ Valid(prev[x]) /\ next[prev[x]] = x
    BY DEF WellLinked
  <2>1. init_flag /\ WheelType /\ Control /\ SlotLists
    BY DEF WheelInv, QuietInv, Kept, Headers
  <2>2. CASE x \in Added \cup Headers
    BY <2>1, <2>2, ListFacts
  <2>3. CASE x \notin Added \cup Headers
    <3>1. x = caller.cell /\ x \in alive /\ caller.cell # Null
      BY <2>1, <2>3, SlotFacts DEF Added, WheelType, Nodes
    <3>2. next[x] = x /\ prev[x] = x /\ Valid(x)
      BY <3>1 DEF QuietInv, AddUnderWay, Valid
    <3>. QED
      BY <3>2
  <2>. QED
    BY <2>2, <2>3
<1>. QED
  BY <1>1, QuietInvariant, PTL

(* The tree finds exactly the timers in the lists, under their own ids.    *)
THEOREM QuietIndexAgrees == QuietSpec => []IndexAgrees
<1>1. WheelInv => IndexAgrees
  BY DEF WheelInv, Indexed
<1>. QED
  BY <1>1, QuietInvariant, PTL

(* What Members collects from a slot's header are the timers at home there.*)
LEMMA QuietMembers ==
  ASSUME WheelInv, QuietInv, NEW s \in Headers
  PROVE  Members(s) = Class(Added, Home, s)
<1>1. init_flag /\ WheelType /\ Control /\ SlotLists
  BY DEF WheelInv, QuietInv, Headers
<1>2. PICK rank \in [Nodes -> Nat] : Lists(Links, Added, Headers, Home, rank)
  BY <1>1 DEF SlotLists
<1>. QED
  BY <1>1, <1>2, HomeFacts, MembersOfClass

(* Every timer is in the list of the slot that the worker reaches when the *)
(* timer is due, or whole turns later, through re-arming, wrap-arounds of  *)
(* cur_slot, late reads and restarts.                                      *)
THEOREM QuietInPhase == QuietSpec => []InPhase
<1>1. WheelInv /\ QuietInv => InPhase
  <2>. SUFFICES ASSUME WheelInv, QuietInv, NEW a \in Added
                PROVE  a \in Members((cur_slot + tm[a].due) % slot_num)
    BY DEF InPhase
  <2>1. init_flag /\ WheelType /\ Control
    BY DEF WheelInv, QuietInv, Kept, Added
  <2>2. a \in Addr /\ Home[a] \in Headers /\ Home[a] = (cur_slot + tm[a].due) % slot_num
    BY <2>1, HomeFacts
  <2>3. a \in Class(Added, Home, Home[a])
    BY DEF Class
  <2>. QED
    BY <2>2, <2>3, QuietMembers, Zenon
<1>. QED
  BY <1>1, QuietInvariant, PTL

(* timer_cnt never understates a slot.                                     *)
THEOREM QuietCountCovers == QuietSpec => []CountCoversSlot
<1>1. WheelInv /\ QuietInv => CountCoversSlot
  <2>. SUFFICES ASSUME WheelInv, QuietInv, NEW s \in Headers
                PROVE  Cardinality(Members(s) \cap Added) <= timer_cnt[s]
    BY DEF CountCoversSlot
  <2>1. Members(s) \cap Added = Class(Added, Home, s)
    BY QuietMembers DEF Class
  <2>2. Cardinality(Class(Added, Home, s)) <= timer_cnt[s]
    BY DEF QuietInv, SlotLists, Headers
  <2>. QED
    BY <2>1, <2>2, Zenon
<1>. QED
  BY <1>1, QuietInvariant, PTL

(* ti_close frees every timer, although it trusts timer_cnt.               *)
THEOREM QuietCloseFreesAll == QuietSpec => []CloseFreesAll
<1>1. QuietInv => CloseFreesAll
  BY DEF QuietInv, Kept, CloseFreesAll
<1>. QED
  BY <1>1, QuietInvariant, PTL

OneSlotCount == \A m, n \in SlotNums : m = n
NoOldSlot == OneSlotCount => fault # "data"

(* With a bit to spare and one slot count in use, memory is safe; but for  *)
(* the two misuses that MemorySafe leaves to the allocator.                *)
THEOREM QuietMemorySafe ==
  QuietSpec => [](IdsOf!SpareBit /\ OneSlotCount => MemorySafe)
<1>1. WheelInv => (IdsOf!SpareBit => fault # "wild bit")
  BY DEF WheelInv, IdsProofs!IdsInv, IdsProofs!SpareExact, IdsProofs!SpareBit, IdsOf!SpareBit,
         IdsProofs!Bytes, IdsOf!Bytes, IdFault
<1>2. NoOldSlot /\ WheelInv /\ [QuietNext]_vars => NoOldSlot'
  <2>. SUFFICES ASSUME OneSlotCount, fault # "data", WheelInv, QuietNext, fault' = "data"
                PROVE  FALSE
    BY DEF NoOldSlot, OneSlotCount, vars, ctlVars
  <2>. USE DEF confVars, idVars, heapVars, tableVars, workerVars, ctlVars
  <2>1. WheelType /\ Control
    BY DEF WheelInv
  <2>2. Loop /\ start_flag /\ cur_slot \notin Headers
    <3>1. CASE Worker
      <4>1. Loop
        BY <3>1 DEF Worker, Arm, End, WalkEnds, PassBy, Fire, WalkLost, Rearm, RearmRefused,
                    Expire, ExpireMisread, FiredLost, Tick, Overrun, Leave, Crash
      <4>. QED
        BY <4>1 DEF Loop, End
    <3>2. CASE ProperCall \/ ProperEnd
      <4>1. ~ TiDelAll
        <5>1. CASE \E s \in Headers : timer_cnt[s] # 0 /\ next[s] # s
          BY <5>1 DEF TiDelAll, Crash
        <5>2. CASE ~ \E s \in Headers : timer_cnt[s] # 0 /\ next[s] # s
          BY <5>2, Zenon DEF TiDelAll
        <5>. QED
          BY <5>1, <5>2
      <4>. QED
        BY <3>2, <4>1 DEF ProperCall, ProperEnd, TiInit, TiInitRefused, TiInitPastEnd, TiEnable,
                          TiAdd, TiDel,
                          TiStart, TiStop, TiClose, Crash
    <3>3. CASE Finish
      BY <3>3 DEF Finish, TiInitEnable, TiAddLink, TiStopKill, TiCloseKill, TiCloseFree, Crash
    <3>. QED
      BY <3>1, <3>2, <3>3 DEF QuietNext, Serving, QuietWorker, Finish
  <2>3. init_flag /\ cur_slot \in Slots /\ slot_num \in SlotNums
    BY <2>1, <2>2 DEF Loop, Control, WheelType
  <2>4. Slots = 0 .. slot_num - 1
    <3>1. \A n \in SlotNums : slot_num >= n
      BY <2>3, WheelAssumption DEF OneSlotCount
    <3>2. Max(SlotNums) \in SlotNums
      BY <2>3, <3>1 DEF Max
    <3>. QED
      BY <2>3, <3>2, Zenon DEF Slots, OneSlotCount
  <2>. QED
    BY <2>2, <2>3, <2>4 DEF Headers
<1>3. Init => NoOldSlot
  BY DEF Init, NoOldSlot
<1>4. QuietSpec => []NoOldSlot
  BY <1>2, <1>3, QuietInvariant, PTL DEF QuietSpec
<1>5. WheelInv /\ QuietInv /\ NoOldSlot => (IdsOf!SpareBit /\ OneSlotCount => MemorySafe)
  BY <1>1 DEF QuietInv, Kept, QuietFaults, Misuse, MemorySafe, NoOldSlot
<1>. QED
  BY <1>4, <1>5, QuietInvariant, PTL

-----------------------------------------------------------------------------
(***************************************************************************)
(* Timers that have their slots to themselves are on time.  The turns that *)
(* a timer has left, with the one that this slot's walk already took off,  *)
(* are the turns until it is due; or one more, which is late, where the    *)
(* interval is a number of whole turns; or fewer, after a worker ended.    *)
(***************************************************************************)
OwnSlots == \A s \in Headers : \A a, b \in Members(s) : a = b

Late(timer, met, n) == timer.round + (IF met THEN 1 ELSE 0) - (timer.due \div n)

OnAccount(timer, met, n) ==
  \/ timer.ran
  \/ /\ Late(timer, met, n) <= 1
     /\ \/ timer.cut \/ Late(timer, met, n) = 0
        \/ Late(timer, met, n) = 1 /\ timer.interval % n = 0

(* The walk of the current slot has come past the timer.                   *)
MetNow(a) == tm[a].due % slot_num = 0 /\ (pc = "read" \/ (pc = "walk" /\ tmp = a))

Account ==
  /\ fault = "none" => \A a \in alive : OnAccount(tm[a], MetNow(a), slot_num)
  /\ pc = "fired" => tm[temp].ran

LEMMA DueHere ==
  ASSUME WheelType, Control, init_flag, cur_slot \in Headers, NEW a \in Addr
  PROVE  Home[a] = cur_slot <=> tm[a].due % slot_num = 0
<1>. DEFINE d == tm[a].due
            q == d \div slot_num
            r == d % slot_num
<1>1. /\ slot_num \in Nat \ {0} /\ cur_slot \in 0 .. slot_num - 1 /\ d \in Int
      /\ Home[a] = (cur_slot + d) % slot_num
  BY HomeFacts DEF WheelType, Timer
<1>2. q \in Int /\ r \in 0 .. slot_num - 1 /\ d = q * slot_num + r /\ q * slot_num \in Int
  <2>. HIDE DEF d
  <2>1. d \div slot_num \in Int /\ d % slot_num \in 0 .. slot_num - 1
        /\ d = (d \div slot_num) * slot_num + (d % slot_num)
    BY <1>1, DivMod
  <2>2. (d \div slot_num) * slot_num \in Int
    BY <1>1, <2>1
  <2>. QED
    BY <2>1, <2>2
<1>. HIDE DEF d, q, r
<1>3. cur_slot + d = (cur_slot + r) + q * slot_num
  BY <1>1, <1>2
<1>4. Home[a] = (cur_slot + r) % slot_num
  <2>1. cur_slot + r \in Int
    BY <1>1, <1>2
  <2>2. ((cur_slot + r) + q * slot_num) % slot_num = (cur_slot + r) % slot_num
    BY <1>1, <1>2, <2>1, TurnsAside
  <2>. QED
    BY <1>1, <1>3, <2>2
<1>5. CASE cur_slot + r < slot_num
  <2>1. (0 * slot_num + (cur_slot + r)) % slot_num = cur_slot + r
    BY <1>1, <1>2, <1>5, UniqueRemainder
  <2>2. 0 * slot_num + (cur_slot + r) = cur_slot + r
    BY <1>1, <1>2
  <2>3. Home[a] = cur_slot + r
    BY <1>4, <2>1, <2>2
  <2>. QED
    BY <1>1, <1>2, <2>3 DEF r, d
<1>6. CASE ~ (cur_slot + r < slot_num)
  <2>1. (1 * slot_num + (cur_slot + r - slot_num)) % slot_num = cur_slot + r - slot_num
    BY <1>1, <1>2, <1>6, UniqueRemainder
  <2>2. 1 * slot_num + (cur_slot + r - slot_num) = cur_slot + r
    BY <1>1, <1>2
  <2>3. Home[a] = cur_slot + r - slot_num
    BY <1>4, <2>1, <2>2
  <2>. QED
    BY <1>1, <1>2, <1>6, <2>3 DEF r, d
<1>. QED
  BY <1>5, <1>6

(* No two timers are at home in one slot.                                  *)
LEMMA OwnHomes ==
  ASSUME WheelInv, QuietInv, OwnSlots, init_flag,
         NEW a \in Added, NEW b \in Added, Home[a] = Home[b]
  PROVE  a = b
<1>1. WheelType /\ Control
  BY DEF WheelInv
<1>2. Home[a] \in Headers
  BY <1>1, HomeFacts
<1>3. a \in Class(Added, Home, Home[a]) /\ b \in Class(Added, Home, Home[a])
  BY DEF Class
<1>4. a \in Members(Home[a]) /\ b \in Members(Home[a])
  BY <1>2, <1>3, QuietMembers
<1>. QED
  BY <1>2, <1>4 DEF OwnSlots

(* A step that leaves the timers that stay alone, and the worker's place.  *)
LEMMA AccountSame ==
  ASSUME Account, fault' = "none" => fault = "none", slot_num' = slot_num,
         \A a \in alive' : a \in alive /\ tm'[a] = tm[a],
         \A a \in alive' : MetNow(a)' <=> MetNow(a),
         pc' # "fired"
  PROVE  Account'
BY DEF Account, OnAccount, Late

(* The end of a worker is noted in all timers.                             *)
LEMMA AccountCut ==
  ASSUME WheelType, Control, QuietInv, Account, Cut \/ Killed, pc' \in {"none", "leaving"},
         slot_num' = slot_num, alive' = alive, fault' = fault
  PROVE  Account'
<1>. SUFFICES ASSUME fault = "none", NEW a \in alive
              PROVE  OnAccount(tm'[a], MetNow(a)', slot_num)
  BY DEF Account
<1>1. tm[a] \in Timer
  BY DEF WheelType
<1>2. tm[a].round \in Int /\ tm[a].due \in Int
  BY <1>1 DEF Timer
<1>3. ~ MetNow(a)'
  BY DEF MetNow
<1>4. OnAccount(tm[a], MetNow(a), slot_num)
  BY DEF Account
<1>5. /\ tm'[a].cut /\ tm'[a].ran = tm[a].ran
      /\ tm'[a].round = tm[a].round /\ tm'[a].due = tm[a].due
  <2>1. CASE Cut
    BY <1>1, <2>1 DEF Cut, WheelType, Timer
  <2>2. CASE Killed
    BY <2>2, KilledMarks
  <2>. QED
    BY <2>1, <2>2
<1>. DEFINE q == tm[a].due \div slot_num
<1>6. q \in Int
  <2>1. slot_num \in Nat \ {0}
    BY HomeFacts DEF QuietInv, Kept
  <2>. QED
    BY <1>2, <2>1, DivMod
<1>. QED
  BY <1>2, <1>3, <1>4, <1>5, <1>6 DEF OnAccount, Late

(* What the arithmetic says when a timer fires ...                         *)
LEMMA FiredOnAccount ==
  ASSUME NEW n \in Nat \ {0}, NEW timer \in Timer, timer.round = 0, ~ timer.ran,
         timer.due % n = 0, OnAccount(timer, FALSE, n)
  PROVE  \/ timer.due = 0
         \/ timer.interval % n = 0 /\ timer.due = -n
         \/ timer.cut /\ timer.due >= -n /\ timer.due % n = 0
<1>. DEFINE q == timer.due \div n
<1>1. q \in Int /\ timer.due \in Int /\ timer.due = q * n
  <2>1. timer.due \in Int
    BY DEF Timer
  <2>2. timer.due \div n \in Int /\ timer.due = (timer.due \div n) * n + (timer.due % n)
    BY <2>1, DivMod
  <2>3. (timer.due \div n) * n \in Int
    BY <2>2
  <2>. QED
    BY <2>1, <2>2, <2>3
<1>2. Late(timer, FALSE, n) = -q
  BY <1>1 DEF Late
<1>. HIDE DEF q
<1>3. q = 0 => timer.due = 0
  BY <1>1
<1>4. q = -1 => timer.due = -n
  BY <1>1
<1>5. q >= -1 => timer.due >= -n
  <2>1. ASSUME q >= -1 PROVE timer.due >= -n
    <3>1. (-1) * n <= q * n
      BY <1>1, <2>1, TimesMono
    <3>. QED
      BY <1>1, <3>1
  <2>. QED
    BY <2>1
<1>6. -q <= 1 /\ (timer.cut \/ -q = 0 \/ (-q = 1 /\ timer.interval % n = 0))
  BY <1>2 DEF OnAccount
<1>7. q >= -1 /\ (timer.cut \/ q = 0 \/ (q = -1 /\ timer.interval % n = 0))
  BY <1>1, <1>6
<1>. QED
  BY <1>3, <1>4, <1>5, <1>7

(* ... when it is armed, with the slot walked or not ...                   *)
LEMMA ArmedOnAccount ==
  ASSUME WheelType, slot_num \in Nat \ {0}, NEW type, NEW interval \in Nat, NEW id,
         NEW met \in BOOLEAN, met => interval % slot_num = 0
  PROVE  OnAccount(Armed(type, interval, id), met, slot_num)
<1>1. interval \div slot_num \in Int
  BY DivMod
<1>. DEFINE q == interval \div slot_num
<1>2. q \in Int /\ q - q = 0 /\ q + 1 - q = 1
  BY <1>1
<1>3. Late(Armed(type, interval, id), met, slot_num) = IF met THEN 1 ELSE 0
  BY <1>2 DEF Late, Armed
<1>. QED
  BY <1>3 DEF OnAccount, Armed

(* ... and when the worker advances: every timer due in the slot was met.  *)
LEMMA WaitedOnAccount ==
  ASSUME slot_num \in Nat \ {0}, NEW timer \in Timer,
         OnAccount(timer, timer.due % slot_num = 0, slot_num)
  PROVE  OnAccount([timer EXCEPT !.due = Elapsed(@)], FALSE, slot_num)
<1>. DEFINE q == timer.due \div slot_num
            r == timer.due % slot_num
            d == timer.due
            met == IF r = 0 THEN 1 ELSE 0
<1>0. SUFFICES ASSUME ~ timer.ran PROVE OnAccount([timer EXCEPT !.due = Elapsed(@)], FALSE, slot_num)
  BY DEF OnAccount, Timer
<1>1. d \in Int /\ timer.round \in Nat
  BY DEF Timer
<1>2. q \in Int /\ r \in 0 .. slot_num - 1 /\ d = q * slot_num + r
  <2>. HIDE DEF d
  <2>1. d \div slot_num \in Int /\ d % slot_num \in 0 .. slot_num - 1
        /\ d = (d \div slot_num) * slot_num + (d % slot_num)
    BY <1>1, DivMod
  <2>. QED
    BY <2>1 DEF d
<1>3. (d - 1) \div slot_num = q - met
  BY <1>1, QuotientBefore
<1>4. Late(timer, timer.due % slot_num = 0, slot_num) = timer.round + met - q
  BY DEF Late
<1>. HIDE DEF q, r, d
<1>5. met \in {0, 1} /\ (met = 0 <=> r # 0)
  OBVIOUS
<1>. HIDE DEF met
<1>6. timer.round + met - q <= 1
  BY <1>0, <1>4 DEF OnAccount
<1>7. d - 1 > -2 * slot_num
  <2>1. q >= met - 1
    BY <1>1, <1>2, <1>5, <1>6
  <2>2. CASE met = 1
    <3>1. 0 * slot_num <= q * slot_num
      BY <1>2, <2>1, <2>2, TimesMono
    <3>2. q * slot_num \in Int
      BY <1>2
    <3>. QED
      BY <1>2, <3>1, <3>2
  <2>3. CASE met = 0
    <3>1. (-1) * slot_num <= q * slot_num
      BY <1>2, <2>1, <2>3, TimesMono
    <3>2. q * slot_num \in Int /\ (-1) * slot_num = -slot_num
      BY <1>2
    <3>3. r >= 1
      BY <1>2, <1>5, <2>3
    <3>. QED
      BY <1>2, <3>1, <3>2, <3>3
  <2>. QED
    BY <1>5, <2>2, <2>3
<1>8. Elapsed(timer.due) = d - 1
  BY <1>7 DEF Elapsed, d
<1>. DEFINE later == [timer EXCEPT !.due = Elapsed(@)]
<1>9. /\ later.due = d - 1 /\ later.round = timer.round
      /\ later.cut = timer.cut /\ later.interval = timer.interval
  BY <1>8 DEF Timer
<1>10. Late(later, FALSE, slot_num) = timer.round + met - q
  <2>1. Late(later, FALSE, slot_num) = timer.round + 0 - (q - met)
    BY <1>3, <1>9 DEF Late
  <2>2. met \in Int /\ q \in Int /\ timer.round \in Int
    BY <1>1, <1>2, <1>5
  <2>3. timer.round + 0 - (q - met) = timer.round + met - q
    BY <2>2
  <2>. QED
    BY <2>1, <2>3, Zenon
<1>. QED
  BY <1>0, <1>4, <1>9, <1>10 DEF OnAccount

LEMMA AccountCrash ==
  ASSUME fault' # "none", pc' # "fired"
  PROVE  Account'
BY DEF Account

LEMMA AccountCallStep ==
  ASSUME WheelInv, QuietInv, Account, AtRest, ProperCall \/ ProperEnd
  PROVE  Account'
<1>. USE DEF confVars, idVars, heapVars, tableVars, workerVars, ctlVars
<1>1. /\ WheelType /\ Control /\ pc # "fired" /\ pc # "walk"
      /\ ~ init_flag => alive = {}
  BY DEF WheelInv, QuietInv, Kept, AtRest
<1>2. ASSUME UNCHANGED <<alive, tm, slot_num, pc, tmp, fault>> PROVE Account'
  BY <1>1, <1>2, AccountSame DEF MetNow
<1>3. ASSUME NEW n \in SlotNums, TiInit(n) PROVE Account'
  BY <1>1, <1>3 DEF TiInit, Account
<1>4. CASE TiInitRefused \/ TiStop \/ TiClose \/ \E on \in BOOLEAN : TiEnable(on)
  BY <1>2, <1>4 DEF TiInitRefused, TiStop, TiClose, TiEnable
<1>9. CASE TiInitPastEnd
  BY <1>9, AccountCrash DEF TiInitPastEnd, Crash
<1>5. ASSUME NEW a \in Addr, NEW type \in Types, NEW interval \in Intervals, TiAdd(a, type, interval)
      PROVE  Account'
  <2>1. CASE min_free = 0
    <3>1. Crash("wild bit")
      BY <1>5, <2>1 DEF TiAdd
    <3>. QED
      BY <3>1, AccountCrash DEF Crash
  <2>2. CASE min_free # 0
    <3>1. /\ a \notin alive /\ alive' = alive \cup {a} /\ init_flag
          /\ tm' = [tm EXCEPT ![a] = Armed(type, interval, min_free)]
          /\ UNCHANGED <<slot_num, pc, tmp, fault>>
      BY <1>5, <2>2 DEF TiAdd
    <3>2. ASSUME NEW b \in alive PROVE tm'[b] = tm[b] /\ (MetNow(b)' <=> MetNow(b))
      BY <1>1, <3>1, <3>2 DEF WheelType, MetNow
    <3>3. tm'[a] = Armed(type, interval, min_free) /\ tm'[a].due = interval
      BY <1>1, <3>1 DEF WheelType, Armed
    <3>4. MetNow(a)' \in BOOLEAN /\ (MetNow(a)' => interval % slot_num = 0)
      BY <3>1, <3>3 DEF MetNow
    <3>5. interval \in Nat /\ slot_num \in Nat \ {0}
      BY <1>1, <3>1, HomeFacts, WheelAssumption
    <3>6. OnAccount(tm'[a], MetNow(a)', slot_num)
      BY <1>1, <3>3, <3>4, <3>5, ArmedOnAccount
    <3>7. ASSUME fault = "none", NEW b \in alive PROVE OnAccount(tm'[b], MetNow(b)', slot_num)
      <4>1. OnAccount(tm[b], MetNow(b), slot_num)
        BY <3>7 DEF Account
      <4>. QED
        BY <3>2, <4>1 DEF OnAccount, Late
    <3>. QED
      BY <1>1, <3>1, <3>6, <3>7 DEF Account
  <2>. QED
    BY <2>1, <2>2
<1>6. ASSUME NEW id \in Ids, TiDel(id) PROVE Account'
  <2>. DEFINE a == rb_root[id]
  <2>1. CASE a \notin alive \/ ~ CanUnlink(a)
    <3>1. Crash("use after free")
      BY <1>6, <2>1 DEF TiDel
    <3>. QED
      BY <3>1, AccountCrash DEF Crash
  <2>2. CASE ~ (a \notin alive \/ ~ CanUnlink(a))
    <3>1. Freed({a}) /\ UNCHANGED <<slot_num, pc, tmp, fault>>
      BY <1>6, <2>2 DEF TiDel
    <3>. HIDE DEF a
    <3>2. ASSUME NEW b \in alive' PROVE b \in alive /\ tm'[b] = tm[b]
      BY <1>1, <3>1, <3>2 DEF Freed, WheelType
    <3>. QED
      BY <1>1, <3>1, <3>2, AccountSame DEF MetNow
  <2>. QED
    BY <2>1, <2>2
<1>7. CASE alive = {} /\ TiDelAll
  <2>1. CASE \E s \in Headers : timer_cnt[s] # 0 /\ next[s] # s
    <3>1. Crash("bad free")
      BY <1>7, <2>1 DEF TiDelAll
    <3>. QED
      BY <3>1, AccountCrash DEF Crash
  <2>2. CASE ~ \E s \in Headers : timer_cnt[s] # 0 /\ next[s] # s
    <3>1. UNCHANGED <<alive, tm, slot_num, pc, tmp, fault>>
      BY <1>7, <2>2, Zenon DEF TiDelAll
    <3>. QED
      BY <1>2, <3>1
  <2>. QED
    BY <2>1, <2>2
<1>8. CASE TiStart
  <2>1. /\ pc = "none" /\ pc' = "arm" /\ UNCHANGED <<alive, tm, slot_num, fault>>
    BY <1>1, <1>8 DEF TiStart, Control, LockFree, AtRest
  <2>. QED
    BY <2>1, AccountSame DEF MetNow
<1>. QED
  BY <1>3, <1>4, <1>5, <1>6, <1>7, <1>8, <1>9 DEF ProperCall, ProperEnd

LEMMA AccountFinishStep ==
  ASSUME WheelInv, QuietInv, QuietInv', Account, Finish
  PROVE  Account'
<1>. USE DEF confVars, idVars, heapVars, tableVars, workerVars, ctlVars
<1>1. WheelType /\ Control
  BY DEF WheelInv
<1>2. CASE TiAddLink
  <2>1. CASE ~ CanPlace(Links, caller.slot)
    <3>1. Crash("list")
      BY <1>2, <2>1 DEF TiAddLink
    <3>. QED
      BY <3>1, AccountCrash DEF Crash
  <2>2. CASE CanPlace(Links, caller.slot)
    <3>1. UNCHANGED <<alive, tm, slot_num, pc, tmp, fault>>
      BY <1>2, <2>2 DEF TiAddLink
    <3>2. pc # "fired"
      BY <1>2 DEF TiAddLink, QuietInv, Walking
    <3>. QED
      BY <3>1, <3>2, AccountSame DEF MetNow
  <2>. QED
    BY <2>1, <2>2
<1>3. CASE TiStopKill \/ TiCloseKill
  BY <1>1, <1>3, AccountCut DEF TiStopKill, TiCloseKill, Killed, WorkerGone
<1>5. CASE TiInitEnable
  BY <1>5 DEF TiInitEnable, Account, MetNow, OnAccount, Late
<1>4. CASE TiCloseFree
  <2>1. CASE Doomed \subseteq alive
    <3>1. init_flag' = FALSE /\ pc' = pc /\ pc # "fired"
      BY <1>4, <2>1 DEF TiCloseFree, QuietInv, Walking
    <3>2. alive' = {}
      BY <3>1 DEF QuietInv, Kept
    <3>. QED
      BY <3>1, <3>2 DEF Account
  <2>2. CASE ~ (Doomed \subseteq alive)
    <3>1. Crash("use after free")
      BY <1>4, <2>2 DEF TiCloseFree
    <3>. QED
      BY <3>1, AccountCrash DEF Crash
  <2>. QED
    BY <2>1, <2>2
<1>. QED
  BY <1>2, <1>3, <1>4, <1>5 DEF Finish

(* The worker's place, and the only timer of its slot.                     *)
LEMMA OnlyOneHere ==
  ASSUME WheelInv, QuietInv, OwnSlots, caller.op # "add", pc \in {"walk", "fired"}
  PROVE  /\ Added = alive /\ init_flag /\ cur_slot \in Headers /\ cur_slot \notin Addr
         /\ \A a \in alive : tm[a].due % slot_num = 0 <=> Home[a] = cur_slot
         /\ \A a, b \in alive : Home[a] = cur_slot /\ Home[b] = cur_slot => a = b
         /\ next[tmp] \in alive => Home[next[tmp]] = cur_slot /\ tmp \notin alive
         /\ next[tmp] = cur_slot => \A a \in alive : Home[a] = cur_slot => tmp = a
<1>1. /\ WheelType /\ Control /\ SlotLists /\ caller.cell = Null /\ init_flag
      /\ tmp \in Added \cup Headers /\ Home[tmp] = cur_slot
  BY DEF WheelInv, QuietInv, AddUnderWay, Walking, Control
<1>2. Added = alive /\ alive \subseteq Addr
  BY <1>1, AddedAll DEF WheelType
<1>3. cur_slot \in Headers /\ cur_slot \notin Addr
  BY <1>1, HomeFacts DEF Control
<1>4. /\ \A x \in Added \cup Headers :
           /\ next[x] \in Added \cup Headers /\ prev[next[x]] = x
           /\ Home[next[x]] = Home[x]
      /\ \A x \in Added : next[x] # x
      /\ \A s \in Headers : Home[s] = s /\ s \notin Addr
  BY <1>1, ListFacts, HomeFacts
<1>5. \A a \in alive : tm[a].due % slot_num = 0 <=> Home[a] = cur_slot
  BY <1>1, <1>2, <1>3, DueHere
<1>6. \A a, b \in alive : Home[a] = cur_slot /\ Home[b] = cur_slot => a = b
  BY <1>1, <1>2, OwnHomes
<1>7. ASSUME next[tmp] \in alive PROVE Home[next[tmp]] = cur_slot /\ tmp \notin alive
  <2>1. Home[next[tmp]] = cur_slot
    BY <1>1, <1>4
  <2>2. tmp \in alive => tmp = next[tmp]
    BY <1>1, <1>6, <1>7, <2>1
  <2>. QED
    BY <1>2, <1>4, <2>1, <2>2
<1>8. ASSUME next[tmp] = cur_slot, NEW a \in alive, Home[a] = cur_slot PROVE tmp = a
  <2>1. next[a] \in Added \cup Headers /\ Home[next[a]] = cur_slot /\ next[a] # a /\ prev[next[a]] = a
    BY <1>2, <1>4, <1>8
  <2>2. next[a] \notin alive
    BY <1>6, <1>8, <2>1
  <2>3. next[a] = cur_slot
    BY <1>2, <1>4, <2>1, <2>2
  <2>. QED
    BY <1>1, <1>4, <1>8, <2>1, <2>3
<1>. QED
  BY <1>1, <1>2, <1>3, <1>5, <1>6, <1>7, <1>8

LEMMA AccountWorkerStep ==
  ASSUME WheelInv, QuietInv, OwnSlots, Account, QuietWorker
  PROVE  Account'
<1>. USE DEF confVars, idVars, heapVars, tableVars, workerVars, ctlVars
<1>1. WheelType /\ Control /\ caller.op # "add" /\ tm \in [Addr -> Timer] /\ alive \subseteq Addr
  BY DEF WheelInv, QuietWorker, WheelType
<1>2. ASSUME Crash("use after free") \/ Crash("data") \/ Crash("freed id") PROVE Account'
  BY <1>2, AccountCrash DEF Crash
<1>3. ASSUME End PROVE Account'
  BY <1>1, <1>3, AccountCut DEF End
\* What the walk does to the timers it is not at.
<1>4. ASSUME UNCHANGED <<slot_num, fault>>, pc \in {"walk", "fired"}, pc' \in {"walk", "fired"},
             NEW x \in alive, Home[x] = cur_slot, tmp \notin alive \/ pc = "fired",
             alive' \subseteq alive, \A a \in alive' \ {x} : tm'[a] = tm[a],
             fault = "none" /\ x \in alive' => OnAccount(tm'[x], MetNow(x)', slot_num),
             pc' = "fired" => tm'[temp'].ran
      PROVE  Account'
  <2>. SUFFICES ASSUME fault = "none", NEW a \in alive', a # x
                PROVE  OnAccount(tm'[a], MetNow(a)', slot_num)
    BY <1>4 DEF Account
  <2>1. tm'[a] = tm[a] /\ OnAccount(tm[a], MetNow(a), slot_num) /\ a \in alive
    BY <1>4 DEF Account
  <2>2. tm[a].due % slot_num # 0
    BY <1>1, <1>4, <2>1, OnlyOneHere
  <2>3. ~ MetNow(a) /\ ~ MetNow(a)'
    BY <1>4, <2>1, <2>2 DEF MetNow
  <2>. QED
    BY <2>1, <2>3 DEF OnAccount, Late
<1>5. CASE Arm
  <2>1. CASE timerfd
    <3>1. /\ pc = "arm" /\ pc' = "loop" /\ UNCHANGED <<alive, tm, slot_num, fault>>
      BY <1>5, <2>1 DEF Arm
    <3>. QED
      BY <3>1, AccountSame DEF MetNow
  <2>. QED
    BY <1>3, <1>5, <2>1 DEF Arm
<1>6. CASE Loop
  <2>1. CASE start_flag /\ cur_slot \in Headers
    <3>1. /\ pc = "loop" /\ pc' = "walk" /\ tmp' = cur_slot /\ UNCHANGED <<alive, tm, slot_num, fault>>
      BY <1>6, <2>1 DEF Loop
    <3>2. cur_slot \notin alive
      BY <1>1, SlotFacts DEF WheelType
    <3>. QED
      BY <3>1, <3>2, AccountSame DEF MetNow
  <2>2. CASE ~ start_flag
    BY <1>3, <1>6, <2>2 DEF Loop
  <2>3. CASE start_flag /\ cur_slot \notin Headers
    BY <1>2, <1>6, <2>3 DEF Loop
  <2>. QED
    BY <2>1, <2>2, <2>3
<1>7. CASE WalkEnds
  <2>1. /\ pc = "walk" /\ pc' = "read" /\ next[tmp] = cur_slot
        /\ UNCHANGED <<alive, tm, slot_num, tmp, fault>>
    BY <1>7 DEF WalkEnds
  <2>2. ASSUME NEW a \in alive, tm[a].due % slot_num = 0 PROVE tmp = a
    BY <1>1, <2>1, <2>2, OnlyOneHere
  <2>. QED
    BY <2>1, <2>2, AccountSame DEF MetNow
<1>8. CASE PassBy
  <2>0. PICK x \in alive : x = next[tmp]
    BY <1>8 DEF PassBy
  <2>1. /\ pc = "walk" /\ pc' = "walk" /\ tm' = [tm EXCEPT ![x].round = @ - 1]
        /\ tmp' = x /\ UNCHANGED <<alive, slot_num, fault>>
    BY <1>8, <2>0 DEF PassBy
  <2>2. Home[x] = cur_slot /\ tmp \notin alive /\ tm[x].due % slot_num = 0
    BY <1>1, <2>0, <2>1, OnlyOneHere
  <2>3. ~ MetNow(x) /\ MetNow(x)'
    <3>1. tm'[x].due = tm[x].due
      BY <1>1, <2>1 DEF Timer
    <3>. QED
      BY <2>1, <2>2, <3>1 DEF MetNow
  <2>4. ASSUME fault = "none" PROVE OnAccount(tm'[x], MetNow(x)', slot_num)
    <3>1. OnAccount(tm[x], MetNow(x), slot_num) /\ tm[x] \in Timer
      BY <1>1, <2>4 DEF Account
    <3>2. tm'[x] = [tm[x] EXCEPT !.round = @ - 1]
      BY <1>1, <2>1
    <3>3. /\ tm'[x].round = tm[x].round - 1 /\ tm'[x].ran = tm[x].ran /\ tm'[x].due = tm[x].due
          /\ tm'[x].interval = tm[x].interval /\ tm'[x].cut = tm[x].cut
      BY <3>1, <3>2 DEF Timer
    <3>4. tm[x].round \in Int /\ tm[x].due \div slot_num \in Int
      <4>1. slot_num \in Nat \ {0}
        BY <1>1, <2>1, HomeFacts DEF Control
      <4>2. tm[x].round \in Int /\ tm[x].due \in Int
        BY <3>1 DEF Timer
      <4>. QED
        BY <4>1, <4>2, DivMod
    <3>5. Late(tm'[x], MetNow(x)', slot_num) = Late(tm[x], MetNow(x), slot_num)
      <4>. DEFINE q == tm[x].due \div slot_num
      <4>1. Late(tm'[x], MetNow(x)', slot_num) = (tm[x].round - 1) + 1 - q
        BY <2>3, <3>3 DEF Late
      <4>2. Late(tm[x], MetNow(x), slot_num) = tm[x].round + 0 - q
        BY <2>3 DEF Late
      <4>. HIDE DEF q
      <4>3. tm[x].round \in Int /\ q \in Int
        BY <3>4 DEF q
      <4>. QED
        BY <4>1, <4>2, <4>3
    <3>. QED
      BY <3>1, <3>3, <3>5 DEF OnAccount
  <2>. QED
    BY <1>1, <1>4, <2>1, <2>2, <2>4
<1>9. CASE Fire
  <2>0. PICK x \in alive : x = next[tmp]
    BY <1>9 DEF Fire
  <2>1. /\ pc = "walk" /\ pc' = "fired" /\ tm' = [tm EXCEPT ![x].ran = TRUE]
        /\ temp' = x /\ UNCHANGED <<alive, slot_num, fault>>
    BY <1>9, <2>0 DEF Fire
  <2>2. Home[x] = cur_slot /\ tmp \notin alive
    BY <1>1, <2>0, <2>1, OnlyOneHere
  <2>3. tm'[x].ran
    BY <1>1, <2>1 DEF Timer
  <2>. QED
    BY <1>1, <1>4, <2>1, <2>2, <2>3 DEF OnAccount
\* The timer whose callback returned.
<1>10. ASSUME pc = "fired" PROVE temp \in alive /\ Home[temp] = cur_slot /\ tm[temp].ran
  <2>1. temp = next[tmp] /\ temp \in Added /\ tm[temp].ran
    BY <1>10 DEF QuietInv, Walking, Account
  <2>. QED
    BY <1>1, <1>10, <2>1, OnlyOneHere
<1>11. CASE Rearm
  <2>1. /\ pc = "fired" /\ pc' = "walk"
        /\ tm' = [tm EXCEPT ![temp] = Armed(@.type, @.interval, @.id)]
        /\ UNCHANGED <<alive, slot_num, fault>>
    BY <1>11 DEF Rearm
  <2>0. PICK x \in alive : x = temp
    BY <1>10, <2>1
  <2>2. /\ x \in Addr /\ tm[x].interval \in Nat
        /\ tm'[x] = Armed(tm[x].type, tm[x].interval, tm[x].id)
    BY <1>1, <2>0, <2>1 DEF Timer
  <2>3. MetNow(x)' \in BOOLEAN /\ (MetNow(x)' => tm[x].interval % slot_num = 0)
    BY <2>1, <2>2 DEF MetNow, Armed
  <2>4. slot_num \in Nat \ {0}
    BY <1>1, <2>1, HomeFacts DEF Control
  <2>5. OnAccount(tm'[x], MetNow(x)', slot_num)
    BY <1>1, <2>2, <2>3, <2>4, ArmedOnAccount
  <2>6. Home[x] = cur_slot /\ \A a \in alive \ {x} : tm'[a] = tm[a]
    BY <1>1, <1>10, <2>0, <2>1
  <2>. QED
    BY <1>4, <2>1, <2>5, <2>6
<1>12. CASE RearmRefused
  <2>1. /\ pc = "fired" /\ pc' = "walk" /\ UNCHANGED <<alive, tm, slot_num, fault>>
    BY <1>12 DEF RearmRefused
  <2>2. PICK x \in alive : x = temp
    BY <1>10, <2>1
  <2>. QED
    BY <1>4, <1>10, <2>1, <2>2 DEF OnAccount
<1>13. CASE Expire
  <2>1. /\ pc = "fired" /\ pc' = "walk" /\ Freed({temp}) /\ UNCHANGED <<slot_num, fault>>
    BY <1>13 DEF Expire, CanExpire
  <2>2. PICK x \in alive : x = temp
    BY <1>10, <2>1
  <2>3. x \notin alive' /\ alive' \subseteq alive /\ \A a \in alive' \ {x} : tm'[a] = tm[a]
    BY <1>1, <2>1, <2>2 DEF Freed
  <2>. QED
    BY <1>4, <1>10, <2>1, <2>2, <2>3
\* The worker advances.
<1>14. ASSUME pc = "read", pc' = "loop", Waited, UNCHANGED <<alive, slot_num, fault>>
       PROVE  Account'
  <2>. SUFFICES ASSUME fault = "none", NEW a \in alive
                PROVE  OnAccount(tm'[a], MetNow(a)', slot_num)
    BY <1>14 DEF Account
  <2>1. tm[a] \in Timer /\ tm'[a] = [tm[a] EXCEPT !.due = Elapsed(@)]
    BY <1>1, <1>14 DEF Waited
  <2>2. OnAccount(tm[a], tm[a].due % slot_num = 0, slot_num)
    BY <1>14 DEF Account, MetNow, OnAccount, Late
  <2>3. slot_num \in Nat \ {0}
    BY <1>1, <1>14, HomeFacts DEF Control
  <2>4. OnAccount(tm'[a], FALSE, slot_num)
    BY <2>1, <2>2, <2>3, WaitedOnAccount
  <2>5. ~ MetNow(a)'
    BY <1>14 DEF MetNow
  <2>. QED
    BY <2>4, <2>5 DEF OnAccount, Late
<1>15. CASE Tick
  BY <1>14, <1>15 DEF Tick
<1>16. CASE Overrun
  <2>1. CASE replay + 1 = LateReads
    BY <1>3, <1>16, <2>1 DEF Overrun
  <2>2. CASE replay + 1 # LateReads
    BY <1>14, <1>16, <2>2 DEF Overrun
  <2>. QED
    BY <2>1, <2>2
<1>17. CASE WalkLost \/ FiredLost \/ ExpireMisread
  BY <1>2, <1>17 DEF WalkLost, FiredLost, ExpireMisread
<1>18. CASE Leave
  <2>1. pc = "leaving" /\ pc' = "none" /\ UNCHANGED <<alive, tm, slot_num, fault>>
    BY <1>18 DEF Leave, WorkerGone
  <2>. QED
    BY <2>1, AccountSame DEF MetNow
<1>. QED
  BY <1>5, <1>6, <1>7, <1>8, <1>9, <1>11, <1>12, <1>13, <1>15, <1>16, <1>17, <1>18
     DEF QuietWorker, Worker

(* Under quiet callers, and as long as no two timers share a slot: a timer *)
(* runs in the slot that its interval asks for, or a turn late if that is  *)
(* where the interval is a number of whole turns; late reads delay it by   *)
(* what they skipped; a worker that ended or was killed may cost turns, at *)
(* either end, but never the slot.                                         *)
THEOREM QuietOnTime == QuietSpec /\ []OwnSlots => OnTimeAlone
<1>1. Init => Account
  BY DEF Init, Account
<1>2. ASSUME WheelInv, QuietInv, OwnSlots, Account, QuietInv', [QuietNext]_vars
      PROVE  Account'
  <2>1. CASE UNCHANGED vars
    BY <1>2, <2>1 DEF Account, MetNow, OnAccount, Late, vars, confVars, heapVars, workerVars, ctlVars
  <2>. QED
    BY <1>2, <2>1, AccountCallStep, AccountFinishStep, AccountWorkerStep
       DEF QuietNext, Serving, Finish
<1>3. ASSUME WheelInv, QuietInv, OwnSlots, Account, QuietNext, Fire, ~ tm[temp'].ran
      PROVE  \/ tm[temp'].due = 0
             \/ tm[temp'].interval % slot_num = 0 /\ tm[temp'].due = -slot_num
             \/ tm[temp'].cut /\ tm[temp'].due >= -slot_num /\ tm[temp'].due % slot_num = 0
  <2>1. pc = "walk" /\ next[tmp] \in alive /\ tm[next[tmp]].round = 0 /\ temp' = next[tmp]
    BY <1>3 DEF Fire
  <2>2. WheelType /\ Control /\ fault = "none" /\ caller.op # "add"
    BY <1>3, <2>1 DEF WheelInv, Control, QuietInv, Walking
  <2>3. Home[temp'] = cur_slot /\ tm[temp'].due % slot_num = 0 /\ tmp # temp'
    BY <1>3, <2>1, <2>2, OnlyOneHere
  <2>4. ~ MetNow(temp') /\ OnAccount(tm[temp'], MetNow(temp'), slot_num)
    BY <1>3, <2>1, <2>2, <2>3 DEF Account, MetNow
  <2>5. OnAccount(tm[temp'], FALSE, slot_num)
    BY <2>4 DEF OnAccount, Late
  <2>6. slot_num \in Nat \ {0} /\ tm[temp'] \in Timer
    BY <2>1, <2>2, HomeFacts DEF Control, WheelType
  <2>. QED
    BY <1>3, <2>1, <2>3, <2>5, <2>6, FiredOnAccount
<1>4. WheelInv /\ QuietInv /\ OwnSlots /\ Account /\ [QuietNext]_vars =>
        [Fire /\ ~tm[temp'].ran =>
           \/ tm[temp'].due = 0
           \/ tm[temp'].interval % slot_num = 0 /\ tm[temp'].due = -slot_num
           \/ tm[temp'].cut /\ tm[temp'].due >= -slot_num /\ tm[temp'].due % slot_num = 0]_vars
  BY <1>3
<1>. QED
  BY <1>1, <1>2, <1>4, QuietInvariant, PTL DEF QuietSpec, OnTimeAlone
=============================================================================
