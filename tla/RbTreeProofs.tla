---------------------------- MODULE RbTreeProofs ----------------------------
(***************************************************************************)
(* Theorems about the red-black tree, for any finite set of keys.          *)
(***************************************************************************)
EXTENDS RbTree, NatLemmas, FiniteSetTheorems

-----------------------------------------------------------------------------
SearchBody(f, t, key) ==
  [at \in Place \X Place |->
     IF at[1] \in {Nil, key} THEN at
     ELSE f[<<t.child[at[1]][IF at[1] > key THEN "left" ELSE "right"], at[1]>>]]

Search(t, key) == CHOOSE f : f = SearchBody(f, t, key)

LEMMA SearchIs ==
  ASSUME NEW t, NEW key
  PROVE  SearchAuxiliary(t, key) = [found |-> Search(t, key)[<<t.root, Nil>>][1],
                                    save  |-> Search(t, key)[<<t.root, Nil>>][2]]
BY Zenon DEF SearchAuxiliary, Search, SearchBody

DownBody(f, t) ==
  [m \in Key |-> IF t.child[m]["left"] = Nil THEN m ELSE f[t.child[m]["left"]]]
Down(t) == CHOOSE f : f = DownBody(f, t)

LEMMA DownIs ==
  ASSUME NEW t, NEW n
  PROVE  Leftmost(t, n) = Down(t)[n]
BY Zenon DEF Leftmost, Down, DownBody

-----------------------------------------------------------------------------
(***************************************************************************)
(* The shape of the tree.  d[k] are the keys in the subtree of k; a key    *)
(* that is not in the tree has no links.                                   *)
(***************************************************************************)
Before(side, j, k) == IF side = "left" THEN j < k ELSE j > k

Trees == [root : Place, child : [Key -> [Sides -> Place]],
          parent : [Key -> Place], red : SUBSET Key]

Subtrees(t, d) ==
  /\ d \in [Place -> SUBSET Key] /\ d[Nil] = {}
  /\ \A k \in Key : d[k] = {k} \cup d[t.child[k]["left"]] \cup d[t.child[k]["right"]]
  /\ \A k \in Key : \A j \in d[k] : d[j] \subseteq d[k]

Sorted(t, d) ==
  \A k \in Key, side \in Sides : \A j \in d[t.child[k][side]] : Before(side, j, k)

LinksUp(t) ==
  /\ t.root # Nil => t.parent[t.root] = Nil
  /\ \A k \in Key, side \in Sides : t.child[k][side] # Nil => t.parent[t.child[k][side]] = k

(* Who is not at the top hangs from a node below the top.                  *)
Hangs(t, d) ==
  \A k \in Key : \A j \in d[k] :
    j = k \/ (t.parent[j] \in d[k] /\ \E side \in Sides : t.child[t.parent[j]][side] = j)

Outside(t, d) ==
  \A k \in Key \ d[t.root] : t.child[k] = NoLinks /\ t.parent[k] = Nil

Shape(t, d) ==
  t \in Trees /\ Subtrees(t, d) /\ Sorted(t, d) /\ LinksUp(t) /\ Hangs(t, d) /\ Outside(t, d)

(* Colours: no two red nodes in a row, but for what the loop is about.     *)
Reds(t, d, running, n) ==
  /\ t.red \subseteq d[t.root]
  /\ \A k \in t.red :
       \/ running # "idle" /\ k = n
       \/ t.parent[k] # Nil /\ t.parent[k] \notin t.red
       \/ running = "erase" /\ t.parent[k] # Nil /\ t.parent[k] = n

(* b[k] counts the black nodes on any way down from k, where the place     *)
(* `gap` (a node and a side) has one less than the others.                 *)
Heights(t, b, gap) ==
  /\ b \in [Place -> Nat] /\ b[Nil] = 0
  /\ \A k \in Key, side \in Sides :
       b[k] = b[t.child[k][side]] + (IF gap = <<k, side>> THEN 1 ELSE 0)
                                  + (IF k \in t.red THEN 0 ELSE 1)

NoGap == <<Nil, "left">>

(* The place where an erase took a black node, with the loop at n below q. *)
Gap(t, running, n, q) ==
  IF running = "erase" /\ n # t.root THEN <<q, Side(t, q, n)>> ELSE NoGap

Right(t, running, n, q, d, b) ==
  /\ Shape(t, d) /\ Reds(t, d, running, n) /\ Heights(t, b, Gap(t, running, n, q))
  /\ running = "insert" => n \in t.red
  /\ running = "erase" /\ n # t.root => q \in d[t.root] /\ n = t.child[q][Side(t, q, n)]
  /\ running = "idle" => n = Nil

TreeRight(d, b) == Right(tree, pc, node, parent, d, b)

TreeInv ==
  /\ pc \in {"idle", "insert", "erase"} /\ node \in Place /\ parent \in Place
  /\ \E d \in [Place -> SUBSET Key], b \in [Place -> Nat] : TreeRight(d, b)

-----------------------------------------------------------------------------
LEMMA SideFacts ==
  /\ \A s \in Sides : Opposite(s) \in Sides /\ Opposite(s) # s /\ Opposite(Opposite(s)) = s
  /\ \A s, r \in Sides : r = s \/ r = Opposite(s)
  /\ Key \subseteq Int /\ Nil \notin Key
<1>1. Sides = {"left", "right"}
  BY DEF Sides
<1>2. ASSUME NEW s \in Sides PROVE Opposite(s) \in Sides /\ Opposite(s) # s
  <2>1. \E u \in Sides : u # s
    BY <1>1
  <2>. QED
    BY <2>1, Zenon DEF Opposite
<1>. QED
  BY <1>1, <1>2, TreeAssumption

LEMMA BeforeFacts ==
  /\ \A s \in Sides, j \in Key : ~ Before(s, j, j)
  /\ \A s \in Sides, j, k \in Key : Before(s, j, k) <=> Before(Opposite(s), k, j)
  /\ \A s \in Sides, i, j, k \in Key : Before(s, i, j) /\ Before(s, j, k) => Before(s, i, k)
  /\ \A s \in Sides, j, k \in Key : Before(s, j, k) \/ Before(Opposite(s), j, k) \/ j = k
<1>1. Opposite("left") = "right" /\ Opposite("right") = "left"
  BY SideFacts DEF Sides
<1>. QED
  BY <1>1, SideFacts DEF Sides, Before

(* The two subtrees of a node are apart from it and from each other.       *)
LEMMA ShapeFacts ==
  ASSUME NEW t, NEW d, Shape(t, d)
  PROVE  /\ \A k \in Key : d[k] \subseteq Key /\ k \in d[k]
         /\ \A k \in Key, s \in Sides :
              /\ d[k] = {k} \cup d[t.child[k][s]] \cup d[t.child[k][Opposite(s)]]
              /\ t.child[k][s] \in Place
              /\ \A j \in d[t.child[k][s]] : j \notin d[t.child[k][Opposite(s)]]
              /\ k \notin d[t.child[k][s]]
              /\ t.child[k][s] # Nil =>
                   /\ t.child[k][s] \in d[t.child[k][s]] /\ t.parent[t.child[k][s]] = k
                   /\ t.child[k][s] # k /\ t.child[k][Opposite(s)] # t.child[k][s]
         /\ \A k \in d[t.root] : k # t.root =>
              t.parent[k] \in Key /\ t.child[t.parent[k]][Side(t, t.parent[k], k)] = k
         /\ t.root = Nil \/ (t.root \in Key /\ t.parent[t.root] = Nil)
<1>. USE DEF Shape, Subtrees, Sorted, LinksUp, Hangs, Trees, Place
<1>1. \A k \in Key : d[k] \subseteq Key /\ k \in d[k]
  OBVIOUS
<1>2. ASSUME NEW k \in Key, NEW s \in Sides
      PROVE  /\ d[k] = {k} \cup d[t.child[k][s]] \cup d[t.child[k][Opposite(s)]]
             /\ t.child[k][s] \in Place
             /\ \A j \in d[t.child[k][s]] : j \notin d[t.child[k][Opposite(s)]]
             /\ k \notin d[t.child[k][s]]
  <2>1. t.child[k][s] \in Place /\ t.child[k][Opposite(s)] \in Place
    BY SideFacts
  <2>2. d[k] = {k} \cup d[t.child[k][s]] \cup d[t.child[k][Opposite(s)]]
    BY SideFacts DEF Sides
  <2>3. d[t.child[k][s]] \subseteq Key
    BY <2>1
  <2>4. ASSUME NEW j \in d[t.child[k][s]] PROVE j \notin d[t.child[k][Opposite(s)]]
    BY <2>3, SideFacts, BeforeFacts
  <2>5. k \notin d[t.child[k][s]]
    BY <2>3, SideFacts, BeforeFacts
  <2>. QED
    BY <2>1, <2>2, <2>4, <2>5
<1>3. ASSUME NEW k \in Key, NEW s \in Sides, t.child[k][s] # Nil
      PROVE  /\ t.child[k][s] \in d[t.child[k][s]] /\ t.parent[t.child[k][s]] = k
             /\ t.child[k][s] # k /\ t.child[k][Opposite(s)] # t.child[k][s]
  BY <1>1, <1>2, <1>3
<1>4. t.root = Nil \/ (t.root \in Key /\ t.parent[t.root] = Nil)
  OBVIOUS
<1>5. ASSUME NEW k \in d[t.root], k # t.root
      PROVE  t.parent[k] \in Key /\ t.child[t.parent[k]][Side(t, t.parent[k], k)] = k
  <2>1. t.root \in Key
    BY <1>4, <1>5
  <2>2. t.parent[k] \in d[t.root] /\ \E side \in Sides : t.child[t.parent[k]][side] = k
    BY <1>5, <2>1
  <2>. QED
    BY <1>1, <2>1, <2>2 DEF Side, Sides
<1>. QED
  BY <1>1, <1>2, <1>3, <1>4, <1>5

LEMMA Children ==
  ASSUME NEW t, NEW d, Shape(t, d), NEW q \in Key, NEW s \in Sides
  PROVE  \A k \in Key : t.parent[k] = q => k \in {t.child[q][s], t.child[q][Opposite(s)]}
<1>. SUFFICES ASSUME NEW k \in Key, t.parent[k] = q
              PROVE  k \in {t.child[q][s], t.child[q][Opposite(s)]}
  OBVIOUS
<1>1. k \in d[t.root] /\ q # Nil
  BY SideFacts DEF Shape, Outside
<1>2. t.root # Nil
  BY <1>1 DEF Shape, Subtrees
<1>3. k # t.root
  BY <1>1, <1>2 DEF Shape, LinksUp
<1>4. t.child[q][Side(t, q, k)] = k /\ Side(t, q, k) \in Sides
  BY <1>1, <1>3, ShapeFacts DEF Side, Sides
<1>. QED
  BY <1>4, SideFacts

LEMMA ChildFacts ==
  ASSUME NEW t, NEW d, Shape(t, d)
  PROVE  \A q \in Key, s \in Sides : t.child[q][s] # Nil =>
           /\ t.child[q][s] \in Key /\ t.parent[t.child[q][s]] = q /\ t.child[q][s] # q
           /\ t.child[q][Opposite(s)] # t.child[q][s]
  BY ShapeFacts DEF Place

-----------------------------------------------------------------------------
(* One link of a tree is set.                                              *)
LEMMA RootSet ==
  ASSUME NEW t \in Trees, NEW v \in Place
  PROVE  /\ [t EXCEPT !.root = v] \in Trees /\ [t EXCEPT !.root = v].root = v
         /\ [t EXCEPT !.root = v].child = t.child
         /\ [t EXCEPT !.root = v].parent = t.parent
         /\ [t EXCEPT !.root = v].red = t.red
BY DEF Trees

SetParent(t, k, v)   == [t EXCEPT !.parent[k] = v]
SetChild(t, k, s, v) == [t EXCEPT !.child[k][s] = v]

LEMMA ParentSet ==
  ASSUME NEW t \in Trees, NEW k \in Key, NEW v \in Place
  PROVE  LET set == SetParent(t, k, v)
         IN  /\ set \in Trees /\ set.root = t.root /\ set.child = t.child /\ set.red = t.red
             /\ \A j \in Key : set.parent[j] = IF j = k THEN v ELSE t.parent[j]
BY DEF Trees, SetParent

LEMMA ChildSet ==
  ASSUME NEW t \in Trees, NEW k \in Key, NEW s \in Sides, NEW v \in Place
  PROVE  LET set == SetChild(t, k, s, v)
         IN  /\ set \in Trees /\ set.root = t.root /\ set.parent = t.parent /\ set.red = t.red
             /\ \A j \in Key, u \in Sides :
                  set.child[j][u] = IF j = k /\ u = s THEN v ELSE t.child[j][u]
BY DEF Trees, SetChild

LEMMA RedSet ==
  ASSUME NEW t \in Trees, NEW v \in SUBSET Key
  PROVE  /\ [t EXCEPT !.red = v] \in Trees /\ [t EXCEPT !.red = v].root = t.root
         /\ [t EXCEPT !.red = v].child = t.child
         /\ [t EXCEPT !.red = v].parent = t.parent
         /\ [t EXCEPT !.red = v].red = v
BY DEF Trees

LEMMA AdoptedIs ==
  ASSUME NEW t \in Trees, NEW n \in Place, NEW p \in Place
  PROVE  LET a == Adopted(t, n, p)
         IN  /\ a \in Trees /\ a.root = t.root /\ a.child = t.child /\ a.red = t.red
             /\ \A k \in Key : a.parent[k] = IF k = n THEN p ELSE t.parent[k]
<1>1. CASE n = Nil
  BY <1>1, SideFacts DEF Adopted
<1>2. CASE n \in Key
  BY <1>2, ParentSet, SideFacts DEF Adopted, SetParent
<1>. QED
  BY <1>1, <1>2 DEF Place

LEMMA HungIs ==
  ASSUME NEW t \in Trees, NEW p \in Place, NEW old, NEW new \in Place
  PROVE  LET h == Hung(t, p, old, new)
         IN  /\ h \in Trees /\ h.parent = t.parent /\ h.red = t.red
             /\ h.root = IF p = Nil THEN new ELSE t.root
             /\ \A k \in Key, s \in Sides :
                  h.child[k][s] = IF k = p /\ s = Side(t, k, old) THEN new ELSE t.child[k][s]
<1>1. CASE p = Nil
  <2>1. Hung(t, p, old, new) = [t EXCEPT !.root = new]
    BY <1>1 DEF Hung
  <2>. QED
    BY <1>1, <2>1, RootSet, SideFacts
<1>2. CASE p \in Key
  <2>1. Hung(t, p, old, new) = SetChild(t, p, Side(t, p, old), new)
    BY <1>2, SideFacts DEF Hung, SetChild
  <2>2. Side(t, p, old) \in Sides
    BY DEF Side, Sides
  <2>. HIDE DEF Side
  <2>. QED
    BY <1>2, <2>1, <2>2, ChildSet, SideFacts
<1>. QED
  BY <1>1, <1>2 DEF Place

-----------------------------------------------------------------------------
(***************************************************************************)
(* Rotations.  What the links of r are after one, in those of t.           *)
(***************************************************************************)
Turned(r, t, n, side, up, inner) ==
  /\ r \in Trees /\ r.red = t.red
  /\ r.root = IF t.parent[n] = Nil THEN up ELSE t.root
  /\ r.child[n][Opposite(side)] = inner /\ r.child[n][side] = t.child[n][side]
  /\ r.child[up][side] = n /\ r.child[up][Opposite(side)] = t.child[up][Opposite(side)]
  /\ \A k \in Key \ {n, up}, s \in Sides :
       r.child[k][s] = IF k = t.parent[n] /\ s = Side(t, k, n) THEN up ELSE t.child[k][s]
  /\ r.parent[n] = up /\ r.parent[up] = t.parent[n]
  /\ \A k \in Key \ {n, up} : r.parent[k] = IF k = inner THEN n ELSE t.parent[k]

RotatedTo(t, n, side, far, up, inner, p) ==
  SetParent(SetChild(SetChild(Hung(SetParent(Adopted(t, inner, n), up, p), p, n, up),
                              n, far, inner), up, side, n), n, up)

Rewired(r, t, n, side, far, up, inner, p) ==
  /\ r \in Trees /\ r.red = t.red /\ r.root = IF p = Nil THEN up ELSE t.root
  /\ \A k \in Key, s \in Sides :
       r.child[k][s] = IF k = up /\ s = side THEN n
                       ELSE IF k = n /\ s = far THEN inner
                       ELSE IF k = p /\ s = Side(t, k, n) THEN up ELSE t.child[k][s]
  /\ \A k \in Key :
       r.parent[k] = IF k = n THEN up ELSE IF k = up THEN p
                     ELSE IF k = inner THEN n ELSE t.parent[k]

LEMMA RotationLinks ==
  ASSUME NEW t \in Trees, NEW n \in Key, NEW up \in Key, NEW inner \in Place, NEW p \in Place,
         NEW side \in Sides, NEW far \in Sides
  PROVE  Rewired(RotatedTo(t, n, side, far, up, inner, p), t, n, side, far, up, inner, p)
<1>. DEFINE a == Adopted(t, inner, n)
            b == SetParent(a, up, p)
            h == Hung(b, p, n, up)
            c == SetChild(h, n, far, inner)
            e == SetChild(c, up, side, n)
            r == SetParent(e, n, up)
<1>1. n \in Place /\ up \in Place
  BY DEF Place
<1>2. /\ a \in Trees /\ a.red = t.red /\ a.child = t.child /\ a.root = t.root
      /\ \A k \in Key : a.parent[k] = IF k = inner THEN n ELSE t.parent[k]
  BY <1>1, AdoptedIs
<1>. HIDE DEF a
<1>3. /\ b \in Trees /\ b.red = a.red /\ b.child = a.child /\ b.root = a.root
      /\ \A k \in Key : b.parent[k] = IF k = up THEN p ELSE a.parent[k]
  BY <1>2, ParentSet
<1>. HIDE DEF b
<1>4. /\ h \in Trees /\ h.red = b.red /\ h.parent = b.parent
      /\ h.root = IF p = Nil THEN up ELSE b.root
      /\ \A k \in Key, s \in Sides :
           h.child[k][s] = IF k = p /\ s = Side(b, k, n) THEN up ELSE b.child[k][s]
  BY <1>1, <1>3, HungIs
<1>. HIDE DEF h
<1>5. /\ c \in Trees /\ c.red = h.red /\ c.root = h.root /\ c.parent = h.parent
      /\ \A k \in Key, s \in Sides :
           c.child[k][s] = IF k = n /\ s = far THEN inner ELSE h.child[k][s]
  BY <1>4, ChildSet
<1>. HIDE DEF c
<1>6. /\ e \in Trees /\ e.red = c.red /\ e.root = c.root /\ e.parent = c.parent
      /\ \A k \in Key, s \in Sides :
           e.child[k][s] = IF k = up /\ s = side THEN n ELSE c.child[k][s]
  BY <1>1, <1>5, ChildSet
<1>. HIDE DEF e
<1>7. /\ r \in Trees /\ r.red = e.red /\ r.root = e.root /\ r.child = e.child
      /\ \A k \in Key : r.parent[k] = IF k = n THEN up ELSE e.parent[k]
  <2>1. e \in Trees /\ up \in Place
    BY <1>1, <1>6
  <2>. QED
    BY <2>1, ParentSet
<1>8. \A k \in Key : Side(b, k, n) = Side(t, k, n)
  BY <1>2, <1>3 DEF Side
<1>. HIDE DEF r
<1>9. Rewired(r, t, n, side, far, up, inner, p)
  BY <1>2, <1>3, <1>4, <1>5, <1>6, <1>7, <1>8 DEF Rewired
<1>. QED
  BY <1>9 DEF r, e, c, h, b, a, RotatedTo

LEMMA RotatedTurns ==
  ASSUME NEW t \in Trees, NEW n \in Key, NEW side \in Sides,
         NEW up \in Key, up = t.child[n][Opposite(side)],
         NEW inner, inner = t.child[up][side],
         up # n, t.parent[n] \notin {n, up}, inner \notin {n, up}
  PROVE  Turned(Rotated(t, n, side), t, n, side, up, inner)
<1>. DEFINE p == t.parent[n]
            far == Opposite(side)
            r == RotatedTo(t, n, side, far, up, inner, p)
<1>1. /\ p \in Place /\ inner \in Place
      /\ far \in Sides /\ far # side /\ \A s \in Sides : s = side \/ s = far
  BY SideFacts DEF Trees, Place
<1>2. Rotated(t, n, side) = r
  BY DEF Rotated, RotatedTo, SetParent, SetChild
<1>3. Rewired(r, t, n, side, far, up, inner, p)
  <2>1. p \in Place /\ inner \in Place /\ far \in Sides
    BY <1>1
  <2>. HIDE DEF p, far
  <2>. QED
    BY <2>1, RotationLinks
<1>. HIDE DEF r
<1>. QED
  BY <1>1, <1>2, <1>3 DEF Turned, Rewired

(* What is below whom after a rotation.                                    *)
RotatedSubtrees(t, d, n, side, up) ==
  [d EXCEPT ![up] = d[n], ![n] = {n} \cup d[t.child[n][side]] \cup d[t.child[up][side]]]

(* Every other node keeps its children, but that up comes where n was.     *)
Replaced(r, t, n, up) ==
  \A k \in Key \ {n, up}, s \in Sides :
    t.child[k][s] # up /\ r.child[k][s] = IF t.child[k][s] = n THEN up ELSE t.child[k][s]

Rotation(r, e, t, d, n, side, up) ==
  /\ Turned(r, t, n, side, up, t.child[up][side]) /\ Replaced(r, t, n, up)
  /\ t.child[n][side] \notin {n, up} /\ \A s \in Sides : t.child[up][s] \notin {n, up}
  /\ Shape(r, e) /\ e[r.root] = d[t.root] /\ n \in d[t.root] /\ up \in d[t.root]

LEMMA RotatedShape ==
  ASSUME NEW t, NEW d, Shape(t, d), NEW n \in Key, NEW side \in Sides,
         NEW up \in Key, up = t.child[n][Opposite(side)]
  PROVE  Rotation(Rotated(t, n, side), RotatedSubtrees(t, d, n, side, up), t, d, n, side, up)
<1>. DEFINE r == Rotated(t, n, side)
            e == RotatedSubtrees(t, d, n, side, up)
            p == t.parent[n]
            far == Opposite(side)
            inner == t.child[up][side]
            c == t.child[n][side]
            o == t.child[up][far]
<1>0. /\ far \in Sides /\ far # side /\ Opposite(far) = side
      /\ \A s \in Sides : s = side \/ s = far
      /\ Nil \notin Key /\ up # Nil /\ n # Nil
  BY SideFacts
<1>1. /\ t \in Trees /\ Subtrees(t, d) /\ Sorted(t, d) /\ LinksUp(t) /\ Hangs(t, d) /\ Outside(t, d)
      /\ p \in Place /\ inner \in Place /\ c \in Place /\ o \in Place
  BY <1>0 DEF Shape, Trees, Place
<1>2. n \in d[t.root]
  BY <1>0, <1>1 DEF Outside, NoLinks
<1>. HIDE DEF far
<1>3. /\ t.root \in Key /\ t.parent[t.root] = Nil
      /\ p # Nil => p \in Key /\ t.child[p][Side(t, p, n)] = n
      /\ p = Nil => n = t.root
  BY <1>1, <1>2, ShapeFacts DEF Subtrees
<1>4. /\ t.parent[up] = n /\ up # n /\ up \in d[n] /\ n \notin d[up] /\ c # up
      /\ inner # Nil => t.parent[inner] = up /\ inner # up /\ inner \in d[up]
      /\ o # Nil => t.parent[o] = up /\ o # up /\ o # inner
      /\ c # Nil => t.parent[c] = n /\ c # n
  BY <1>0, <1>1, ShapeFacts DEF far
<1>5. inner \notin {n, up} /\ o \notin {n, up} /\ c \notin {n, up} /\ p \notin {n, up}
  <2>1. inner # n /\ o # n
    BY <1>0, <1>1, <1>4, ShapeFacts
  <2>2. \A s \in Sides : t.child[n][s] # n /\ t.child[up][s] # n
    BY <1>0, <1>4, <2>1, ShapeFacts
  <2>. QED
    BY <1>0, <1>3, <1>4, <2>1, <2>2 DEF Side, Sides
<1>6. Turned(r, t, n, side, up, inner)
  BY <1>1, <1>5, RotatedTurns DEF far
<1>. HIDE DEF r
<1>7. /\ e \in [Place -> SUBSET Key] /\ e[up] = d[n] /\ e[n] = {n} \cup d[c] \cup d[inner]
      /\ \A k \in Place \ {n, up} : e[k] = d[k]
  <2>. DEFINE S == {n} \cup d[c] \cup d[inner]
  <2>1. d \in [Place -> SUBSET Key] /\ n \in Place /\ up \in Place
    BY <1>1 DEF Subtrees, Place
  <2>2. S \subseteq Key /\ d[n] \subseteq Key
    BY <2>1, <1>1
  <2>3. e = [d EXCEPT ![up] = d[n], ![n] = S]
    BY DEF RotatedSubtrees
  <2>. HIDE DEF S, e
  <2>4. /\ e \in [Place -> SUBSET Key] /\ e[up] = d[n] /\ e[n] = S
        /\ \A k \in Place \ {n, up} : e[k] = d[k]
    BY <2>1, <2>2, <2>3, <1>4
  <2>. QED
    BY <2>4 DEF S
<1>. HIDE DEF e
<1>8. /\ d[n] = {n} \cup d[c] \cup d[up] /\ d[up] = {up} \cup d[inner] \cup d[o]
      /\ up \notin d[c] /\ n \notin d[c] /\ up \notin d[inner] /\ up \notin d[o]
      /\ n \notin d[inner]
  <2>1. /\ d[n] = {n} \cup d[c] \cup d[up] /\ n \notin d[c]
        /\ \A j \in d[c] : j \notin d[up]
    BY ShapeFacts DEF far
  <2>2. d[up] = {up} \cup d[inner] \cup d[o] /\ up \notin d[inner] /\ up \in d[up]
    BY ShapeFacts DEF far
  <2>3. up \notin d[o]
    BY <1>0, ShapeFacts
  <2>. QED
    BY <2>1, <2>2, <2>3, <1>4
<1>9. ASSUME NEW k \in Key \ {n, up}, NEW s \in Sides
      PROVE  /\ e[r.child[k][s]] = d[t.child[k][s]]
             /\ r.child[k][s] \in Place
             /\ r.child[k][s] = n \/ r.child[k][s] = t.child[k][s]
                  \/ (r.child[k][s] = up /\ k = p /\ t.child[k][s] = n)
             /\ t.child[k][s] \notin {n, up} => r.child[k][s] = t.child[k][s]
             /\ t.child[k][s] = n => r.child[k][s] = up /\ k = p
             /\ t.child[k][s] # up
  <2>1. r.child[k][s] = IF k = p /\ s = Side(t, k, n) THEN up ELSE t.child[k][s]
    BY <1>6 DEF Turned
  <2>2. t.child[k][s] \in Place /\ t.child[k][s] # up
    BY <1>0, <1>1, <1>4 DEF Trees, LinksUp
  <2>3. CASE k = p /\ s = Side(t, k, n)
    BY <1>0, <1>3, <1>7, <2>1, <2>2, <2>3 DEF Place
  <2>4. CASE ~(k = p /\ s = Side(t, k, n))
    <3>1. t.child[k][s] # n
      <4>1. SUFFICES ASSUME t.child[k][s] = n PROVE FALSE
        OBVIOUS
      <4>2. k = p
        BY <1>0, <1>1, <4>1 DEF LinksUp
      <4>3. t.child[k][Side(t, k, n)] = n /\ s # Side(t, k, n)
        BY <1>0, <1>3, <2>4, <4>2
      <4>4. Side(t, k, n) \in Sides
        BY DEF Side, Sides
      <4>5. Side(t, k, n) = Opposite(s)
        BY <4>3, <4>4, SideFacts
      <4>. QED
        BY <1>0, <4>1, <4>3, <4>5, ShapeFacts
    <3>. QED
      BY <1>7, <2>1, <2>2, <2>4, <3>1
  <2>. QED
    BY <2>3, <2>4
<1>10. /\ r.child[n][far] = inner /\ r.child[n][side] = c
       /\ r.child[up][side] = n /\ r.child[up][far] = o
       /\ r.parent[n] = up /\ r.parent[up] = p
       /\ \A k \in Key \ {n, up} : r.parent[k] = IF k = inner THEN n ELSE t.parent[k]
       /\ r \in Trees /\ r.root = IF p = Nil THEN up ELSE t.root
  BY <1>6 DEF Turned, far
<1>11. e[c] = d[c] /\ e[inner] = d[inner] /\ e[o] = d[o]
  BY <1>1, <1>5, <1>7
<1>12. \A k \in Key : (up \in d[k] /\ k # up => n \in d[k]) /\ (n \in d[k] => up \in d[k] /\ d[n] \subseteq d[k])
  BY <1>1, <1>4 DEF Subtrees, Hangs
<1>13. Subtrees(r, e)
  <2>1. e[Nil] = {}
    BY <1>0, <1>1, <1>7 DEF Subtrees, Place
  <2>2. ASSUME NEW k \in Key PROVE e[k] = {k} \cup e[r.child[k]["left"]] \cup e[r.child[k]["right"]]
    <3>1. CASE k \notin {n, up}
      <4>1. d[k] = {k} \cup d[t.child[k]["left"]] \cup d[t.child[k]["right"]]
        BY <1>1 DEF Subtrees
      <4>2. e[k] = d[k]
        BY <3>1, <1>7 DEF Place
      <4>. QED
        BY <3>1, <4>1, <4>2, <1>9 DEF Sides
    <3>2. CASE k = n
      <4>1. e[k] = {k} \cup e[r.child[k][side]] \cup e[r.child[k][far]]
        BY <3>2, <1>7, <1>10, <1>11
      <4>. QED
        BY <4>1, <1>0 DEF Sides
    <3>3. CASE k = up
      <4>1. e[k] = {k} \cup e[r.child[k][side]] \cup e[r.child[k][far]]
        BY <3>3, <1>7, <1>8, <1>10, <1>11
      <4>. QED
        BY <4>1, <1>0 DEF Sides
    <3>. QED
      BY <3>1, <3>2, <3>3
  <2>3. ASSUME NEW k \in Key, NEW j \in e[k] PROVE e[j] \subseteq e[k]
    <3>0. \A x \in Key : \A y \in d[x] : d[y] \subseteq d[x]
      BY <1>1 DEF Subtrees
    <3>1. e[n] \subseteq d[n] /\ j \in Key /\ \A x \in Key : d[x] \subseteq Key
      BY <1>1, <1>7, <1>8 DEF Subtrees, Place
    <3>2. CASE k \notin {n, up}
      BY <3>0, <3>1, <3>2, <1>7, <1>12 DEF Place
    <3>3. CASE k = up
      BY <3>0, <3>1, <3>3, <1>7 DEF Place
    <3>4. CASE k = n
      <4>1. CASE j = n
        BY <3>4, <4>1
      <4>2. CASE j \in d[c]
        <5>1. c \in Key /\ j \notin {n, up}
          <6>1. c # Nil
            BY <4>2, <1>1 DEF Subtrees
          <6>. QED
            BY <4>2, <6>1, <1>1, <1>8 DEF Place
        <5>. QED
          BY <4>2, <5>1, <3>0, <3>1, <3>4, <1>7 DEF Place
      <4>3. CASE j \in d[inner]
        <5>1. inner \in Key /\ j \notin {n, up}
          <6>1. inner # Nil
            BY <4>3, <1>1 DEF Subtrees
          <6>. QED
            BY <4>3, <6>1, <1>1, <1>8 DEF Place
        <5>. QED
          BY <4>3, <5>1, <3>0, <3>1, <3>4, <1>7 DEF Place
      <4>. QED
        BY <3>4, <4>1, <4>2, <4>3, <1>7
    <3>. QED
      BY <3>2, <3>3, <3>4
  <2>. QED
    BY <1>7, <2>1, <2>2, <2>3 DEF Subtrees
<1>14. Sorted(r, e)
  <2>0. \A k \in Key, s \in Sides : \A j \in d[t.child[k][s]] : j \in Key /\ Before(s, j, k)
    BY <1>1 DEF Sorted, Subtrees, Trees, Place
  <2>1. ASSUME NEW k \in Key \ {n, up}, NEW s \in Sides, NEW j \in e[r.child[k][s]] PROVE Before(s, j, k)
    BY <2>0, <2>1, <1>9
  <2>2. \A j \in e[r.child[n][side]] : Before(side, j, n)
    BY <2>0, <1>10, <1>11
  <2>3. \A j \in e[r.child[n][far]] : Before(far, j, n)
    BY <2>0, <1>0, <1>8, <1>10, <1>11 DEF far
  <2>4. \A j \in e[r.child[up][far]] : Before(far, j, up)
    BY <2>0, <1>0, <1>10, <1>11
  <2>5. Before(side, n, up)
    <3>1. Before(far, up, n)
      BY <2>0, <1>0, <1>8 DEF far
    <3>. QED
      BY <3>1, <1>0, BeforeFacts DEF far
  <2>6. ASSUME NEW j \in e[r.child[up][side]] PROVE Before(side, j, up)
    <3>1. j = n \/ j \in d[c] \/ j \in d[inner]
      BY <1>7, <1>10
    <3>2. CASE j \in d[c]
      <4>1. j \in Key /\ Before(side, j, n)
        BY <2>0, <3>2
      <4>. QED
        BY <4>1, <2>5, BeforeFacts
    <3>3. CASE j \in d[inner]
      BY <2>0, <3>3
    <3>. QED
      BY <3>1, <3>2, <3>3, <2>5
  <2>. QED
    BY <1>0, <2>1, <2>2, <2>3, <2>4, <2>6 DEF Sorted

<1>15. LinksUp(r)
  <2>1. r.root # Nil => r.parent[r.root] = Nil
    <3>1. CASE p = Nil
      BY <3>1, <1>10
    <3>2. CASE p # Nil
      <4>1. t.root \notin {n, up} /\ t.root # inner
        BY <3>2, <1>0, <1>1, <1>3, <1>4, <1>10
      <4>. QED
        BY <3>2, <4>1, <1>3, <1>10
    <3>. QED
      BY <3>1, <3>2
  <2>2. ASSUME NEW k \in Key, NEW s \in Sides, r.child[k][s] # Nil
        PROVE  r.parent[r.child[k][s]] = k
    <3>1. CASE k = n /\ s = far
      BY <2>2, <3>1, <1>1, <1>5, <1>10 DEF Place
    <3>2. CASE k = n /\ s = side
      <4>1. c \in Key /\ c # inner
        BY <2>2, <3>2, <1>1, <1>4, <1>10 DEF Place
      <4>. QED
        BY <2>2, <3>2, <4>1, <1>4, <1>5, <1>10
    <3>3. CASE k = up /\ s = side
      BY <3>3, <1>10
    <3>4. CASE k = up /\ s = far
      <4>1. o \in Key
        BY <2>2, <3>4, <1>1, <1>10 DEF Place
      <4>. QED
        BY <2>2, <3>4, <4>1, <1>4, <1>5, <1>10
    <3>5. CASE k \notin {n, up}
      <4>1. CASE t.child[k][s] = n
        BY <3>5, <4>1, <1>9, <1>10
      <4>2. CASE t.child[k][s] # n
        <5>1. r.child[k][s] = t.child[k][s] /\ t.child[k][s] \in Key
          BY <2>2, <3>5, <4>2, <1>9 DEF Place
        <5>2. t.parent[t.child[k][s]] = k
          BY <5>1, <1>0, <1>1 DEF LinksUp
        <5>3. t.child[k][s] \notin {n, up, inner}
          BY <3>5, <4>2, <5>1, <5>2, <1>0, <1>4
        <5>. QED
          BY <5>1, <5>2, <5>3, <1>10
      <4>. QED
        BY <4>1, <4>2
    <3>. QED
      BY <3>1, <3>2, <3>3, <3>4, <3>5, <1>0
  <2>. QED
    BY <2>1, <2>2 DEF LinksUp
<1>16. Hangs(r, e)
  <2>0. \A k \in Key : \A j \in d[k] : j \in Key /\
           (j = k \/ (t.parent[j] \in d[k] /\ \E s \in Sides : t.child[t.parent[j]][s] = j))
    BY <1>1 DEF Hangs, Subtrees, Place
  <2>. SUFFICES ASSUME NEW k \in Key, NEW j \in e[k], j # k
                PROVE  r.parent[j] \in e[k] /\ \E s \in Sides : r.child[r.parent[j]][s] = j
    BY DEF Hangs
  <2>1. j \in Key
    BY <1>7 DEF Place
  <2>2. n \in e[k] /\ k # n => up \in e[k]
    BY <1>4, <1>7, <1>12 DEF Place
  <2>3. CASE j = n
    BY <2>2, <2>3, <1>10
  <2>4. CASE j = up
    <3>1. k \notin {n, up} /\ up \in d[k]
      BY <2>4, <1>4, <1>7, <1>8 DEF Place
    <3>2. n \in d[k]
      BY <3>1, <1>12
    <3>3. p \in d[k] /\ \E s \in Sides : t.child[p][s] = n
      BY <3>1, <3>2, <2>0
    <3>4. PICK s \in Sides : t.child[p][s] = n
      BY <3>3
    <3>5. p \in Key \ {n, up}
      BY <3>3, <1>1, <1>5, <2>0
    <3>6. r.child[p][s] = up
      BY <3>4, <3>5, <1>9
    <3>. QED
      BY <2>4, <3>1, <3>3, <3>6, <1>7, <1>10 DEF Place
  <2>5. CASE j = inner
    <3>1. r.parent[j] = n /\ r.child[n][far] = j
      BY <2>1, <2>5, <1>5, <1>10
    <3>2. n \in e[k]
      <4>1. CASE k \notin {n, up}
        <5>1. inner \in d[k] /\ inner # k
          BY <4>1, <2>5, <1>7 DEF Place
        <5>2. up \in d[k]
          BY <5>1, <2>0, <2>1, <2>5, <1>0, <1>4
        <5>. QED
          BY <4>1, <5>2, <1>7, <1>12 DEF Place
      <4>2. CASE k = n
        BY <4>2, <1>7
      <4>3. CASE k = up
        BY <4>3, <1>7, <1>8
      <4>. QED
        BY <4>1, <4>2, <4>3
    <3>. QED
      BY <3>1, <3>2, <1>0
  <2>6. CASE j \notin {n, up, inner}
    <3>1. r.parent[j] = t.parent[j]
      BY <2>1, <2>6, <1>10
    <3>2. t.parent[j] \in e[k]
      <4>1. CASE k \notin {n, up}
        BY <4>1, <2>0, <1>7 DEF Place
      <4>2. CASE k = up
        BY <4>2, <2>0, <2>6, <1>7
      <4>3. CASE k = n
        <5>1. j \in d[c] \/ j \in d[inner]
          BY <4>3, <1>7
        <5>2. CASE j \in d[c]
          <6>1. c \in Key
            BY <5>2, <1>1 DEF Subtrees, Place
          <6>2. j = c => t.parent[j] = n
            BY <6>1, <1>0, <1>4
          <6>. QED
            BY <4>3, <5>2, <6>1, <6>2, <2>0, <1>7
        <5>3. CASE j \in d[inner]
          <6>1. inner \in Key
            BY <5>3, <1>1 DEF Subtrees, Place
          <6>. QED
            BY <4>3, <5>3, <6>1, <2>0, <2>6, <1>7
        <5>. QED
          BY <5>1, <5>2, <5>3
      <4>. QED
        BY <4>1, <4>2, <4>3
    <3>3. \E s \in Sides : t.child[t.parent[j]][s] = j
      <4>1. j \in d[n] \/ (k \notin {n, up} /\ j \in d[k])
        BY <1>7, <1>8 DEF Place
      <4>. QED
        BY <2>0, <2>6, <4>1
    <3>4. PICK s \in Sides : t.child[t.parent[j]][s] = j
      BY <3>3
    <3>5. t.parent[j] \in Key
      BY <3>2, <1>7 DEF Place
    <3>6. r.child[t.parent[j]][s] = j
      <4>1. CASE t.parent[j] \notin {n, up}
        BY <2>6, <3>4, <3>5, <4>1, <1>9
      <4>2. CASE t.parent[j] = n
        <5>1. s = side
          BY <2>6, <3>4, <4>2, <1>0 DEF far
        <5>. QED
          BY <3>4, <4>2, <5>1, <1>10
      <4>3. CASE t.parent[j] = up
        <5>1. s = far
          BY <2>6, <3>4, <4>3, <1>0
        <5>. QED
          BY <3>4, <4>3, <5>1, <1>10
      <4>. QED
        BY <4>1, <4>2, <4>3
    <3>. QED
      BY <3>1, <3>2, <3>6
  <2>. QED
    BY <2>3, <2>4, <2>5, <2>6
<1>17. e[r.root] = d[t.root]
  <2>1. CASE p = Nil
    BY <2>1, <1>3, <1>7, <1>10
  <2>2. CASE p # Nil
    <3>1. t.root \notin {n, up}
      BY <2>2, <1>0, <1>3, <1>4
    <3>. QED
      BY <2>2, <3>1, <1>3, <1>7, <1>10 DEF Place
  <2>. QED
    BY <2>1, <2>2
<1>18. Outside(r, e)
  <2>. SUFFICES ASSUME NEW k \in Key \ d[t.root]
                PROVE  r.child[k] = NoLinks /\ r.parent[k] = Nil
    BY <1>17 DEF Outside
  <2>1. n \in d[t.root] /\ up \in d[t.root] /\ k \notin {n, up}
    BY <1>2, <1>3, <1>12
  <2>2. t.child[k] = NoLinks /\ t.parent[k] = Nil
    BY <1>1 DEF Outside
  <2>3. k # inner
    BY <2>2, <1>0, <1>4
  <2>4. r.parent[k] = Nil
    BY <2>1, <2>2, <2>3, <1>10
  <2>5. ASSUME NEW s \in Sides PROVE r.child[k][s] = Nil
    <3>1. t.child[k][s] = Nil
      BY <2>2 DEF NoLinks
    <3>. QED
      BY <2>1, <3>1, <1>0, <1>9
  <2>6. r.child[k] \in [Sides -> Place]
    BY <1>10 DEF Trees
  <2>. QED
    BY <2>4, <2>5, <2>6 DEF NoLinks
<1>19. Shape(r, e)
  BY <1>10, <1>13, <1>14, <1>15, <1>16, <1>18 DEF Shape
<1>20. Replaced(r, t, n, up)
  BY <1>9 DEF Replaced
<1>21. c \notin {n, up} /\ \A s \in Sides : t.child[up][s] \notin {n, up}
  BY <1>0, <1>5
<1>. QED
  BY <1>2, <1>3, <1>6, <1>12, <1>17, <1>19, <1>20, <1>21 DEF r, e, Rotation

(* The heights after a rotation, if the two nodes that turn exchange       *)
(* theirs.  Given are the colours and the gap that there are afterwards.   *)
Exchanged(b, n, up) == [b EXCEPT ![n] = b[up], ![up] = b[n]]

HighElsewhere(t, b, gap, n, up) ==
  \A k \in Key \ {n, up}, s \in Sides :
    b[k] = b[t.child[k][s]] + (IF gap = <<k, s>> THEN 1 ELSE 0) + (IF k \in t.red THEN 0 ELSE 1)

HighThere(t, b, gap, n, side, up) ==
  /\ b[up] = b[t.child[n][side]] + (IF gap = <<n, side>> THEN 1 ELSE 0)
                                 + (IF n \in t.red THEN 0 ELSE 1)
  /\ b[up] = b[t.child[up][side]] + (IF n \in t.red THEN 0 ELSE 1)
  /\ b[n] = b[up] + (IF up \in t.red THEN 0 ELSE 1)
  /\ b[n] = b[t.child[up][Opposite(side)]] + (IF up \in t.red THEN 0 ELSE 1)
  /\ gap # <<n, Opposite(side)>> /\ \A s \in Sides : gap # <<up, s>>

LEMMA RotatedHeights ==
  ASSUME NEW t, NEW d, Shape(t, d), NEW n \in Key, NEW side \in Sides, NEW up \in Key,
         up = t.child[n][Opposite(side)], NEW r, NEW e, Rotation(r, e, t, d, n, side, up),
         NEW b \in [Place -> Nat], b[Nil] = 0, NEW gap,
         HighElsewhere(t, b, gap, n, up), HighThere(t, b, gap, n, side, up)
  PROVE  Heights(r, Exchanged(b, n, up), gap)
<1>. DEFINE c == Exchanged(b, n, up)
<1>1. /\ side \in Sides /\ Opposite(side) # side /\ \A s \in Sides : s = side \/ s = Opposite(side)
      /\ Nil \notin Key /\ Opposite(side) \in Sides /\ up # n
  BY SideFacts, ShapeFacts
<1>2. /\ r.child[n][Opposite(side)] = t.child[up][side] /\ r.child[n][side] = t.child[n][side]
      /\ r.child[up][side] = n /\ r.child[up][Opposite(side)] = t.child[up][Opposite(side)]
      /\ r.red = t.red /\ Replaced(r, t, n, up)
      /\ t.child[n][side] \notin {n, up} /\ \A s \in Sides : t.child[up][s] \notin {n, up}
  BY DEF Rotation, Turned
<1>3. /\ c \in [Place -> Nat] /\ c[n] = b[up] /\ c[up] = b[n] /\ c[Nil] = 0
      /\ \A k \in Place \ {n, up} : c[k] = b[k]
  BY <1>1 DEF Exchanged, Place
<1>. HIDE DEF c
<1>4. \A k \in Key, s \in Sides : t.child[k][s] \in Place
  BY ShapeFacts
<1>5. /\ c[t.child[n][side]] = b[t.child[n][side]]
      /\ \A s \in Sides : c[t.child[up][s]] = b[t.child[up][s]]
      /\ \A k \in Key, s \in Sides : b[t.child[k][s]] \in Nat
  BY <1>1, <1>2, <1>3, <1>4
<1>. DEFINE lack(k, s)  == IF gap = <<k, s>> THEN 1 ELSE 0
            black(k) == IF k \in t.red THEN 0 ELSE 1
<1>6. ASSUME NEW k \in Key, NEW s \in Sides
      PROVE  c[k] = c[r.child[k][s]] + lack(k, s) + black(k)
  <2>1. CASE k \notin {n, up}
    <3>1. c[k] = b[k] /\ c[r.child[k][s]] = b[t.child[k][s]]
      BY <2>1, <1>2, <1>3, <1>4 DEF Place, Replaced
    <3>2. b[k] = b[t.child[k][s]] + lack(k, s) + black(k)
      BY <2>1 DEF HighElsewhere
    <3>. QED
      BY <3>1, <3>2
  <2>2. /\ b[up] = b[t.child[n][side]] + lack(n, side) + black(n)
        /\ b[up] = b[t.child[up][side]] + black(n) /\ b[n] = b[up] + black(up)
        /\ b[n] = b[t.child[up][Opposite(side)]] + black(up)
        /\ lack(n, Opposite(side)) = 0 /\ \A u \in Sides : lack(up, u) = 0
    BY DEF HighThere
  <2>3. /\ b[up] \in Nat /\ b[t.child[up][side]] \in Nat /\ black(n) \in Int /\ black(up) \in Int
        /\ b[t.child[up][Opposite(side)]] \in Nat
    BY <1>1, <1>5 DEF Place
  <2>. HIDE DEF lack, black
  <2>4. CASE k = n /\ s = side
    BY <2>2, <2>4, <1>2, <1>3, <1>5
  <2>5. CASE k = n /\ s = Opposite(side)
    <3>1. c[k] = b[up] /\ c[r.child[k][s]] = b[t.child[up][side]] /\ lack(k, s) = 0
      BY <2>2, <2>5, <1>1, <1>2, <1>3, <1>5, ZenonT(40)
    <3>2. b[up] = b[t.child[up][side]] + 0 + black(n)
      BY <2>2, <2>3
    <3>. QED
      BY <2>5, <3>1, <3>2
  <2>6. CASE k = up /\ s = side
    <3>1. c[k] = b[n] /\ c[r.child[k][s]] = b[up] /\ lack(k, s) = 0
      BY <2>2, <2>6, <1>2, <1>3, ZenonT(40)
    <3>2. b[n] = b[up] + 0 + black(up)
      BY <2>2, <2>3
    <3>. QED
      BY <2>6, <3>1, <3>2
  <2>7. CASE k = up /\ s = Opposite(side)
    <3>1. c[k] = b[n] /\ c[r.child[k][s]] = b[t.child[up][Opposite(side)]] /\ lack(k, s) = 0
      BY <2>2, <2>7, <1>1, <1>2, <1>3, <1>5, ZenonT(40)
    <3>2. b[n] = b[t.child[up][Opposite(side)]] + 0 + black(up)
      BY <2>2, <2>3
    <3>. QED
      BY <2>7, <3>1, <3>2
  <2>. QED
    BY <2>1, <2>4, <2>5, <2>6, <2>7, <1>1
<1>. QED
  BY <1>2, <1>3, <1>6, ZenonT(40) DEF Heights, c

LEMMA RecolouredShape ==
  ASSUME NEW t, NEW d, Shape(t, d), NEW v \in SUBSET Key
  PROVE  Shape([t EXCEPT !.red = v], d)
<1>. DEFINE r == [t EXCEPT !.red = v]
<1>1. t \in Trees
  BY DEF Shape
<1>2. /\ r \in Trees /\ r.root = t.root /\ r.child = t.child /\ r.parent = t.parent
  BY <1>1, RedSet
<1>. HIDE DEF r
<1>3. Shape(r, d)
  BY <1>2 DEF Shape, Subtrees, Sorted, LinksUp, Hangs, Outside
<1>. QED
  BY <1>3 DEF r

-----------------------------------------------------------------------------
(***************************************************************************)
(* The loop of an insert.                                                  *)
(***************************************************************************)
LEMMA RedParentFacts ==
  ASSUME NEW d, NEW b, TreeRight(d, b), RedParent
  PROVE  LET p == tree.parent[node]
             g == tree.parent[p]
         IN  /\ {node, p, g} \subseteq d[tree.root] \cap Key
             /\ node # p /\ node # g /\ p # g
             /\ node \in tree.red /\ p \in tree.red /\ g \notin tree.red
             /\ tree.child[p][Side(tree, p, node)] = node
             /\ tree.child[g][Side(tree, g, p)] = p
             /\ Side(tree, p, node) \in Sides /\ Side(tree, g, p) \in Sides
             /\ \A k \in tree.red \ {node} :
                  tree.parent[k] # Nil /\ tree.parent[k] \notin tree.red
             /\ tree.red \subseteq d[tree.root] /\ d[tree.root] \subseteq Key
             /\ \A k \in Key, s \in Sides :
                  b[k] = b[tree.child[k][s]] + (IF k \in tree.red THEN 0 ELSE 1)
<1>. DEFINE p == tree.parent[node]
            g == tree.parent[p]
<1>1. /\ Shape(tree, d) /\ Reds(tree, d, pc, node) /\ Heights(tree, b, Gap(tree, pc, node, parent))
      /\ pc = "insert" /\ node \in tree.red /\ p # Nil /\ p \in tree.red
  BY DEF TreeRight, Right, RedParent, Red
<1>2. /\ tree.root \in Place /\ d \in [Place -> SUBSET Key] /\ d[Nil] = {}
      /\ tree.parent \in [Key -> Place] /\ Nil \notin Key
  BY <1>1, SideFacts DEF Shape, Subtrees, Trees
<1>3. tree.red \subseteq d[tree.root] /\ d[tree.root] \subseteq Key /\ tree.root \in Key
  BY <1>1, <1>2 DEF Reds, Place
<1>4. node \in d[tree.root] /\ p \in d[tree.root] /\ node \in Key /\ p \in Key
  BY <1>1, <1>3
<1>5. \A k \in tree.red \ {node} : tree.parent[k] # Nil /\ tree.parent[k] \notin tree.red
  BY <1>1 DEF Reds
<1>6. \A k \in d[tree.root] : k # tree.root =>
        /\ tree.parent[k] \in d[tree.root]
        /\ tree.child[tree.parent[k]][Side(tree, tree.parent[k], k)] = k
  BY <1>1, <1>3, ShapeFacts DEF Shape, Hangs
<1>7. tree.parent[tree.root] = Nil
  BY <1>1, <1>2, <1>3 DEF Shape, LinksUp
<1>8. tree.child[p][Side(tree, p, node)] = node /\ Side(tree, p, node) \in Sides
  BY <1>1, <1>4, <1>6, <1>7 DEF Side, Sides
<1>9. node # p
  BY <1>1, <1>2, <1>4, <1>8, ShapeFacts
<1>10. g # Nil /\ g \notin tree.red
  BY <1>1, <1>5, <1>9
<1>11. g \in d[tree.root] /\ tree.child[g][Side(tree, g, p)] = p /\ Side(tree, g, p) \in Sides
  BY <1>4, <1>6, <1>7, <1>10 DEF Side, Sides
<1>12. \A k \in Key, s \in Sides :
         b[k] = b[tree.child[k][s]] + (IF k \in tree.red THEN 0 ELSE 1)
  <2>1. Gap(tree, pc, node, parent) = NoGap /\ \A k \in Key, s \in Sides : NoGap # <<k, s>>
    BY <1>1, <1>2 DEF Gap, NoGap
  <2>2. b \in [Place -> Nat] /\ \A k \in Key, s \in Sides : tree.child[k][s] \in Place
    BY <1>1, ShapeFacts DEF Heights
  <2>. QED
    BY <1>1, <2>1, <2>2 DEF Heights
<1>. QED
  BY <1>1, <1>3, <1>4, <1>5, <1>8, <1>9, <1>10, <1>11, <1>12

LEMMA InsertRecolourRight ==
  ASSUME NEW d, NEW b, TreeRight(d, b), InsertRecolour
  PROVE  \E e, c : TreeRight(e, c)' /\ e[tree'.root] = d[tree.root]
<1>. DEFINE p == tree.parent[node]
            g == tree.parent[p]
            u == Uncle(node)
            v == (tree.red \ {u, p}) \cup {g}
            c == [b EXCEPT ![p] = b[p] + 1, ![u] = b[u] + 1]
<1>1. /\ Shape(tree, d) /\ b \in [Place -> Nat] /\ b[Nil] = 0
      /\ RedParent /\ u \in tree.red /\ pc = "insert"
      /\ tree' = [tree EXCEPT !.red = v] /\ node' = g /\ pc' = pc /\ parent' = parent
  BY DEF TreeRight, Right, Heights, InsertRecolour, RedParent, Red, Gparent
<1>2. /\ {node, p, g} \subseteq d[tree.root] \cap Key
      /\ node # p /\ node # g /\ p # g
      /\ node \in tree.red /\ p \in tree.red /\ g \notin tree.red
      /\ tree.child[g][Side(tree, g, p)] = p /\ Side(tree, g, p) \in Sides
      /\ \A k \in tree.red \ {node} : tree.parent[k] # Nil /\ tree.parent[k] \notin tree.red
      /\ tree.red \subseteq d[tree.root] /\ d[tree.root] \subseteq Key
      /\ \A k \in Key, s \in Sides :
           b[k] = b[tree.child[k][s]] + (IF k \in tree.red THEN 0 ELSE 1)
  BY <1>1, RedParentFacts
<1>3. u = tree.child[g][Opposite(Side(tree, g, p))] /\ u \in Key /\ u # Nil /\ Nil \notin Key
  BY <1>1, <1>2, SideFacts DEF Uncle, Gparent
<1>4. tree.parent[u] = g /\ u # p /\ u # g
  <2>1. PICK s \in Sides : s = Side(tree, g, p)
    BY <1>2
  <2>2. /\ Opposite(s) \in Sides /\ g \in Key /\ p # Nil
        /\ tree.child[g][s] = p /\ tree.child[g][Opposite(s)] = u
    BY <2>1, <1>2, <1>3, SideFacts
  <2>. HIDE DEF g, p, u
  <2>3. \A q \in Key, r \in Sides : tree.child[q][r] # Nil =>
          /\ tree.parent[tree.child[q][r]] = q /\ tree.child[q][r] # q
          /\ tree.child[q][Opposite(r)] # tree.child[q][r]
    BY <1>1, ChildFacts
  <2>4. tree.parent[u] = g /\ u # g
    BY <2>2, <2>3, <1>3
  <2>. QED
    BY <2>2, <2>3, <2>4
<1>. HIDE DEF u, p, g
<1>5. v \subseteq Key /\ v \subseteq d[tree.root]
  BY <1>2, <1>3
<1>. HIDE DEF v
<1>6. /\ Shape(tree', d) /\ tree'.red = v /\ tree'.root = tree.root
      /\ tree'.child = tree.child /\ tree'.parent = tree.parent
  BY <1>1, <1>5, RecolouredShape, RedSet DEF Shape
<1>7. \A k \in Key, s \in Sides : tree.child[k][s] # Nil => tree.parent[tree.child[k][s]] = k
  BY <1>1, ShapeFacts
<1>8. Reds(tree', d, pc', node')
  <2>1. ASSUME NEW k \in v, k # g
        PROVE  tree'.parent[k] # Nil /\ tree'.parent[k] \notin v
    <3>1. CASE k = node
      BY <3>1, <1>2, <1>3, <1>6 DEF p, v
    <3>2. CASE k # node
      <4>1. k \in tree.red \ {node, u, p} /\ k \in Key
        BY <2>1, <3>2, <1>2 DEF v
      <4>2. k # g /\ k \in d[tree.root] /\ tree.parent[k] # Nil /\ tree.parent[k] \notin tree.red
        BY <4>1, <1>2
      <4>3. SUFFICES ASSUME tree.parent[k] = g PROVE FALSE
        BY <4>2, <1>6 DEF v
      <4>4. k \in {p, u}
        BY <4>1, <4>3, <1>1, <1>2, <1>3, Children
      <4>. QED
        BY <4>1, <4>4
    <3>. QED
      BY <3>1, <3>2
  <2>. QED
    BY <2>1, <1>1, <1>5, <1>6 DEF Reds
<1>9. Heights(tree', c, NoGap)
  <2>1. b[p] \in Nat /\ b[u] \in Nat /\ p \in Place /\ u \in Place
    BY <1>1, <1>2, <1>3 DEF Place
  <2>2. /\ c \in [Place -> Nat] /\ c[p] = b[p] + 1 /\ c[u] = b[u] + 1
        /\ \A k \in Place \ {p, u} : c[k] = b[k]
    BY <2>1, <1>1, <1>4
  <2>. HIDE DEF c
  <2>3. c[Nil] = 0
    BY <2>2, <1>1, <1>2, <1>3 DEF Place
  <2>4. ASSUME NEW k \in Key, NEW s \in Sides
        PROVE  c[k] = c[tree.child[k][s]] + (IF k \in v THEN 0 ELSE 1)
    <3>1. tree.child[k][s] \in Place /\ k \in Place /\ b[k] \in Nat /\ b[tree.child[k][s]] \in Nat
      BY <1>1, ShapeFacts DEF Place
    <3>2. b[k] = b[tree.child[k][s]] + (IF k \in tree.red THEN 0 ELSE 1)
      BY <1>2
    <3>3. CASE k \in {p, u}
      <4>1. tree.child[k][s] \notin {p, u}
        BY <3>3, <1>2, <1>3, <1>4, <1>7 DEF g
      <4>. QED
        BY <3>1, <3>2, <3>3, <4>1, <2>2, <1>1, <1>2, <1>3, <1>4 DEF v
    <3>4. CASE k = g
      <4>1. tree.child[k][s] \in {p, u}
        <5>1. s = Side(tree, g, p) \/ s = Opposite(Side(tree, g, p))
          BY <1>2, SideFacts
        <5>. QED
          BY <3>4, <5>1, <1>2, <1>3
      <4>. QED
        BY <3>1, <3>2, <3>4, <4>1, <2>1, <2>2, <1>2, <1>4 DEF v
    <3>5. CASE k \notin {p, u, g}
      <4>1. tree.child[k][s] \notin {p, u}
        BY <3>5, <1>2, <1>3, <1>4, <1>7 DEF g
      <4>. QED
        BY <3>1, <3>2, <3>5, <4>1, <2>2 DEF v
    <3>. QED
      BY <3>3, <3>4, <3>5
  <2>5. \A k \in Key, s \in Sides : NoGap # <<k, s>>
    BY <1>3 DEF NoGap
  <2>6. \A k \in Place : c[k] \in Nat
    BY <2>2
  <2>7. \A k \in Key, s \in Sides : tree.child[k][s] \in Place
    BY <1>1, ShapeFacts
  <2>. HIDE DEF NoGap
  <2>. QED
    BY <2>2, <2>3, <2>4, <2>5, <2>6, <2>7, <1>6 DEF Heights
<1>10. Gap(tree', pc', node', parent') = NoGap /\ node' \in tree'.red
  BY <1>1, <1>6 DEF Gap, v
<1>. QED
  BY <1>1, <1>6, <1>8, <1>9, <1>10 DEF TreeRight, Right

LEMMA RunningInsert ==
  ASSUME NEW t, NEW n, NEW q
  PROVE  Gap(t, "insert", n, q) = NoGap /\ Gap(t, "idle", n, q) = NoGap
BY DEF Gap

(* A node that is red on both sides of a rotation is as high as before.    *)
LEMMA InsertStraightenRight ==
  ASSUME NEW d, NEW b, TreeRight(d, b), InsertStraighten
  PROVE  \E e, c : TreeRight(e, c)' /\ e[tree'.root] = d[tree.root]
<1>. DEFINE p == tree.parent[node]
            g == tree.parent[p]
            side == Side(tree, g, p)
            r == Rotated(tree, p, side)
            e == RotatedSubtrees(tree, d, p, side, node)
<1>1. /\ Shape(tree, d) /\ b \in [Place -> Nat] /\ b[Nil] = 0
      /\ RedParent /\ pc = "insert" /\ Side(tree, p, node) # side
      /\ tree' = r /\ node' = p /\ pc' = pc /\ parent' = parent
  BY DEF TreeRight, Right, Heights, InsertStraighten, Bent, RedParent, Red, Gparent
<1>2. /\ {node, p, g} \subseteq d[tree.root] \cap Key
      /\ node # p /\ node # g /\ p # g
      /\ node \in tree.red /\ p \in tree.red /\ g \notin tree.red
      /\ tree.child[p][Side(tree, p, node)] = node /\ Side(tree, p, node) \in Sides
      /\ side \in Sides
      /\ \A k \in tree.red \ {node} : tree.parent[k] # Nil /\ tree.parent[k] \notin tree.red
      /\ tree.red \subseteq d[tree.root] /\ d[tree.root] \subseteq Key
      /\ \A k \in Key, s \in Sides :
           b[k] = b[tree.child[k][s]] + (IF k \in tree.red THEN 0 ELSE 1)
  BY <1>1, RedParentFacts
<1>3. tree.parent[p] = g /\ tree.parent[node] = p
  OBVIOUS
<1>. HIDE DEF p, g, side
<1>4. node = tree.child[p][Opposite(side)] /\ Nil \notin Key
  BY <1>1, <1>2, SideFacts
<1>5. Rotation(r, e, tree, d, p, side, node)
  BY <1>1, <1>2, <1>4, RotatedShape
<1>. DEFINE inner == tree.child[node][side]
<1>. HIDE DEF r, e
<1>6. /\ r.red = tree.red /\ r \in Trees /\ Shape(r, e) /\ e[r.root] = d[tree.root]
      /\ r.child[p][Opposite(side)] = inner /\ r.child[p][side] = tree.child[p][side]
      /\ r.child[node][side] = p
      /\ r.child[node][Opposite(side)] = tree.child[node][Opposite(side)]
      /\ r.parent[p] = node /\ r.parent[node] = g
      /\ \A k \in Key \ {p, node} : r.parent[k] = IF k = inner THEN p ELSE tree.parent[k]
      /\ \A k \in Key \ {p, node}, s \in Sides :
           r.child[k][s] = IF tree.child[k][s] = p THEN node ELSE tree.child[k][s]
  BY <1>3, <1>5 DEF Rotation, Turned, Replaced
<1>7. \A k \in Key, s \in Sides : tree.child[k][s] # Nil => tree.parent[tree.child[k][s]] = k
  BY <1>1, ShapeFacts
<1>8. Reds(r, e, "insert", p)
  <2>1. ASSUME NEW k \in r.red, k # p PROVE r.parent[k] # Nil /\ r.parent[k] \notin r.red
    <3>1. CASE k = node
      BY <3>1, <1>2, <1>4, <1>6
    <3>2. CASE k # node
      <4>1. k \in Key /\ tree.parent[k] # Nil /\ tree.parent[k] \notin tree.red
        BY <2>1, <3>2, <1>2, <1>6
      <4>2. k # inner
        BY <4>1, <1>2, <1>4, <1>7
      <4>. QED
        BY <2>1, <3>2, <4>1, <4>2, <1>6
    <3>. QED
      BY <3>1, <3>2
  <2>. QED
    BY <2>1, <1>2, <1>6 DEF Reds
<1>9. Heights(r, Exchanged(b, p, node), NoGap)
  <2>1. Opposite(side) \in Sides /\ \A k \in Key, s \in Sides : NoGap # <<k, s>>
    BY <1>2, <1>4, SideFacts DEF NoGap
  <2>2. \A m \in Key, u \in Sides : b[tree.child[m][u]] \in Nat
    BY <1>1, ShapeFacts
  <2>. HIDE DEF NoGap
  <2>3. \A m \in {p, node}, u \in Sides : b[m] = b[tree.child[m][u]]
    BY <2>2, <1>2
  <2>4. HighElsewhere(tree, b, NoGap, p, node)
    BY <2>1, <2>2, <1>2 DEF HighElsewhere
  <2>5. HighThere(tree, b, NoGap, p, side, node)
    BY <2>1, <2>2, <2>3, <1>2, <1>4 DEF HighThere
  <2>. QED
    BY <2>4, <2>5, <1>1, <1>2, <1>4, <1>5, RotatedHeights
<1>10. Right(r, "insert", p, parent, e, Exchanged(b, p, node))
  BY <1>2, <1>6, <1>8, <1>9, RunningInsert DEF Right
<1>. QED
  BY <1>1, <1>10, <1>6 DEF TreeRight

LEMMA InsertRotateRight ==
  ASSUME NEW d, NEW b, TreeRight(d, b), InsertRotate
  PROVE  \E e, c : TreeRight(e, c)' /\ e[tree'.root] = d[tree.root]
<1>. DEFINE p == tree.parent[node]
            g == tree.parent[p]
            near == Side(tree, p, node)
            side == Opposite(near)
            v == (tree.red \ {p}) \cup {g}
            t == [tree EXCEPT !.red = v]
            r == Rotated(t, g, side)
            e == RotatedSubtrees(t, d, g, side, p)
<1>1. /\ Shape(tree, d) /\ b \in [Place -> Nat] /\ b[Nil] = 0
      /\ RedParent /\ pc = "insert" /\ near = Side(tree, g, p)
      /\ tree.child[g][Opposite(Side(tree, g, p))] \notin tree.red
      /\ tree' = r /\ node' = node /\ pc' = pc /\ parent' = parent
  BY DEF TreeRight, Right, Heights, InsertRotate, Bent, RedParent, Red, Gparent, Uncle
<1>2. /\ {node, p, g} \subseteq d[tree.root] \cap Key
      /\ node # p /\ node # g /\ p # g
      /\ node \in tree.red /\ p \in tree.red /\ g \notin tree.red
      /\ tree.child[p][near] = node /\ near \in Sides /\ tree.child[g][near] = p
      /\ \A k \in tree.red \ {node} : tree.parent[k] # Nil /\ tree.parent[k] \notin tree.red
      /\ tree.red \subseteq d[tree.root] /\ d[tree.root] \subseteq Key
      /\ \A k \in Key, s \in Sides :
           b[k] = b[tree.child[k][s]] + (IF k \in tree.red THEN 0 ELSE 1)
  <2>1. /\ {node, p, g} \subseteq d[tree.root] \cap Key
        /\ node # p /\ node # g /\ p # g
        /\ node \in tree.red /\ p \in tree.red /\ g \notin tree.red
        /\ tree.child[p][Side(tree, p, node)] = node
        /\ tree.child[g][Side(tree, g, p)] = p /\ Side(tree, p, node) \in Sides
        /\ \A k \in tree.red \ {node} : tree.parent[k] # Nil /\ tree.parent[k] \notin tree.red
        /\ tree.red \subseteq d[tree.root] /\ d[tree.root] \subseteq Key
        /\ \A k \in Key, s \in Sides :
             b[k] = b[tree.child[k][s]] + (IF k \in tree.red THEN 0 ELSE 1)
    <3>1. RedParent
      BY <1>1
    <3>. QED
      BY <3>1, RedParentFacts
  <2>. QED
    BY <1>1, <2>1
<1>3. tree.parent[p] = g /\ tree.parent[node] = p /\ v \subseteq Key
  BY <1>2
<1>4. /\ Shape(t, d) /\ t.red = v /\ t.root = tree.root
      /\ t.child = tree.child /\ t.parent = tree.parent
  <2>. HIDE DEF v
  <2>. QED
    BY <1>1, <1>3, RecolouredShape, RedSet DEF Shape
<1>. HIDE DEF t
<1>5. /\ side \in Sides /\ Opposite(side) = near /\ side # near /\ Nil \notin Key
      /\ \A s \in Sides : s = near \/ s = side
  BY <1>2, SideFacts
<1>6. tree.child[g][side] \notin tree.red
  BY <1>1
<1>. HIDE DEF p, g, side, near, v
<1>7. p = t.child[g][Opposite(side)]
  BY <1>2, <1>4, <1>5
<1>8. Rotation(r, e, t, d, g, side, p)
  BY <1>2, <1>4, <1>5, <1>7, RotatedShape
<1>. DEFINE inner == tree.child[p][side]
<1>. HIDE DEF r, e
<1>9. /\ r.red = v /\ r \in Trees /\ Shape(r, e) /\ e[r.root] = d[tree.root]
      /\ r.child[g][near] = inner /\ r.child[g][side] = tree.child[g][side]
      /\ r.child[p][side] = g /\ r.child[p][near] = node
      /\ r.parent[g] = p
      /\ \A k \in Key \ {p, g} : r.parent[k] = IF k = inner THEN g ELSE tree.parent[k]
      /\ \A k \in Key \ {p, g}, s \in Sides :
           tree.child[k][s] # p /\ r.child[k][s] = IF tree.child[k][s] = g THEN p ELSE tree.child[k][s]
  BY <1>2, <1>4, <1>5, <1>8 DEF Rotation, Turned, Replaced
<1>10. \A k \in Key, s \in Sides : tree.child[k][s] # Nil => tree.parent[tree.child[k][s]] = k
  BY <1>1, ShapeFacts
<1>11. Reds(r, e, "insert", node)
  <2>1. ASSUME NEW k \in v, k # node PROVE r.parent[k] # Nil /\ r.parent[k] \notin v
    <3>1. CASE k = g
      BY <3>1, <1>2, <1>5, <1>9 DEF v
    <3>2. CASE k # g
      <4>1. k \in tree.red /\ k \in Key \ {p, g} /\ tree.parent[k] # Nil /\ tree.parent[k] \notin tree.red
        BY <2>1, <3>2, <1>2 DEF v
      <4>2. k # inner
        BY <4>1, <1>2, <1>5, <1>10
      <4>3. tree.parent[k] # g
        <5>1. tree.parent[k] = g => k \in {tree.child[g][near], tree.child[g][side]}
          BY <4>1, <1>1, <1>2, Children DEF side
        <5>. QED
          BY <4>1, <5>1, <1>2, <1>6
      <4>. QED
        BY <4>1, <4>2, <4>3, <1>9 DEF v
    <3>. QED
      BY <3>1, <3>2
  <2>. QED
    BY <2>1, <1>2, <1>9 DEF Reds, v
<1>12. Heights(r, Exchanged(b, g, p), NoGap)
  <2>1. \A k \in Key, s \in Sides : NoGap # <<k, s>>
    BY <1>5 DEF NoGap
  <2>2. \A m \in Key, u \in Sides : b[tree.child[m][u]] \in Nat
    BY <1>1, ShapeFacts
  <2>. HIDE DEF NoGap
  <2>3. HighElsewhere(t, b, NoGap, g, p)
    BY <2>1, <2>2, <1>2, <1>4 DEF HighElsewhere, v
  <2>4. /\ b[g] = b[tree.child[g][near]] + 1 /\ b[g] = b[tree.child[g][side]] + 1
        /\ b[p] = b[inner] + 0 /\ b[p] = b[tree.child[p][near]] + 0 /\ b[p] \in Nat
    BY <1>1, <1>2, <1>5 DEF Place
  <2>5. g \in t.red /\ p \notin t.red
    BY <1>2, <1>4 DEF v
  <2>6. HighThere(t, b, NoGap, g, side, p)
    BY <2>1, <2>2, <2>4, <2>5, <1>2, <1>4, <1>5 DEF HighThere
  <2>. QED
    BY <2>3, <2>6, <1>1, <1>2, <1>4, <1>5, <1>7, <1>8, RotatedHeights
<1>13. Right(r, "insert", node, parent, e, Exchanged(b, g, p))
  BY <1>2, <1>9, <1>11, <1>12, RunningInsert DEF Right, v
<1>. QED
  BY <1>1, <1>13, <1>9 DEF TreeRight

(* A red node that is painted black is higher by one, and nothing else,    *)
(* if the place where it hangs had the gap or it is the root.              *)
Raised(b, n) == [b EXCEPT ![n] = b[n] + 1]

LEMMA BlackenedHeights ==
  ASSUME NEW t, NEW d, Shape(t, d), NEW b, NEW gap, Heights(t, b, gap), NEW n \in t.red,
         \A k \in Key, s \in Sides : t.child[k][s] = n <=> gap = <<k, s>>
  PROVE  Heights([t EXCEPT !.red = @ \ {n}], Raised(b, n), NoGap)
<1>. DEFINE v == t.red \ {n}
            r == [t EXCEPT !.red = v]
            c == Raised(b, n)
            lack(k, s) == IF gap = <<k, s>> THEN 1 ELSE 0
<1>1. t \in Trees /\ t.red \subseteq Key /\ n \in Key /\ Nil \notin Key /\ v \in SUBSET Key
  BY SideFacts DEF Shape, Trees
<1>2. r.child = t.child /\ r.red = v
  <2>. HIDE DEF v
  <2>. QED
    BY <1>1, RedSet
<1>3. /\ c \in [Place -> Nat] /\ c[n] = b[n] + 1 /\ c[Nil] = 0 /\ b[n] \in Nat
      /\ \A k \in Place \ {n} : c[k] = b[k]
  BY <1>1 DEF Raised, Heights, Place
<1>4. \A k \in Key, s \in Sides :
        /\ t.child[k][s] \in Place /\ b[t.child[k][s]] \in Nat
        /\ NoGap # <<k, s>> /\ t.child[n][s] # n
  <2>1. \A k \in Key, s \in Sides : NoGap # <<k, s>>
    BY <1>1 DEF NoGap
  <2>2. \A k \in Key, s \in Sides : t.child[k][s] \in Place /\ t.child[n][s] # n
    BY <1>1, ShapeFacts
  <2>. QED
    BY <2>1, <2>2 DEF Heights
<1>5. ASSUME NEW k \in Key, NEW s \in Sides
      PROVE  c[k] = c[t.child[k][s]] + (IF k \in v THEN 0 ELSE 1)
  <2>1. b[k] = b[t.child[k][s]] + lack(k, s) + (IF k \in t.red THEN 0 ELSE 1)
    BY DEF Heights
  <2>2. CASE k = n
    <3>1. lack(k, s) = 0
      BY <2>2, <1>4
    <3>. HIDE DEF lack
    <3>. QED
      BY <2>1, <2>2, <3>1, <1>3, <1>4
  <2>3. CASE k # n /\ t.child[k][s] = n
    <3>1. lack(k, s) = 1
      BY <2>3
    <3>. HIDE DEF lack
    <3>. QED
      BY <2>1, <2>3, <3>1, <1>3, <1>4 DEF Place
  <2>4. CASE k # n /\ t.child[k][s] # n
    <3>1. lack(k, s) = 0
      BY <2>4
    <3>. HIDE DEF lack
    <3>. QED
      BY <2>1, <2>4, <3>1, <1>3, <1>4 DEF Place
  <2>. QED
    BY <2>2, <2>3, <2>4
<1>6. ASSUME NEW k \in Key, NEW s \in Sides
      PROVE  c[k] = c[r.child[k][s]] + (IF NoGap = <<k, s>> THEN 1 ELSE 0)
                                     + (IF k \in r.red THEN 0 ELSE 1)
  <2>1. (IF NoGap = <<k, s>> THEN 1 ELSE 0) = 0 /\ c[t.child[k][s]] \in Nat
    BY <1>3, <1>4
  <2>. HIDE DEF NoGap, v, r, c
  <2>. QED
    BY <2>1, <1>2, <1>5
<1>. HIDE DEF c, r
<1>7. Heights(r, c, NoGap)
  BY <1>3, <1>6 DEF Heights
<1>. QED
  BY <1>7 DEF c, r

LEMMA RootHangsNowhere ==
  ASSUME NEW t, NEW d, Shape(t, d), t.root # Nil
  PROVE  \A k \in Key, s \in Sides : t.child[k][s] # t.root
BY ShapeFacts, SideFacts DEF Shape, LinksUp

LEMMA InsertDoneRight ==
  ASSUME NEW d, NEW b, TreeRight(d, b), InsertDone
  PROVE  \E e, c : TreeRight(e, c)' /\ e[tree'.root] = d[tree.root]
<1>. DEFINE v == tree.red \ {tree.root}
            t == [tree EXCEPT !.red = v]
<1>1. /\ Shape(tree, d) /\ Reds(tree, d, "insert", node) /\ Heights(tree, b, NoGap)
      /\ tree' = t /\ pc' = "idle" /\ node' = Nil /\ parent' = Nil
      /\ ~ (tree.parent[node] # Nil /\ tree.parent[node] \in tree.red)
  BY RunningInsert DEF TreeRight, Right, InsertDone, RedParent, Red, Return
<1>2. /\ tree \in Trees /\ v \in SUBSET Key /\ Nil \notin Key
      /\ tree.red \subseteq d[tree.root] /\ tree.red \subseteq Key
  BY <1>1, SideFacts DEF Shape, Trees, Reds
<1>3. Shape(t, d) /\ t.red = v /\ t.root = tree.root /\ t.child = tree.child /\ t.parent = tree.parent
  <2>. HIDE DEF v
  <2>. QED
    BY <1>1, <1>2, RecolouredShape, RedSet
<1>4. Reds(t, d, "idle", Nil)
  <2>1. ASSUME NEW k \in v PROVE tree.parent[k] # Nil /\ tree.parent[k] \notin v
    <3>1. tree.parent[k] \in Key
      BY <1>1, <1>2, ShapeFacts
    <3>2. k = node \/ tree.parent[k] \notin tree.red
      BY <1>1 DEF Reds
    <3>. QED
      BY <3>1, <3>2, <1>1, <1>2
  <2>. QED
    BY <2>1, <1>2, <1>3 DEF Reds
<1>5. \E c : Heights(t, c, NoGap)
  <2>1. CASE tree.root \in tree.red
    <3>1. \A k \in Key, s \in Sides : tree.child[k][s] # tree.root /\ NoGap # <<k, s>>
      BY <2>1, <1>1, <1>2, RootHangsNowhere DEF NoGap
    <3>2. \A k \in Key, s \in Sides : tree.child[k][s] = tree.root <=> NoGap = <<k, s>>
      BY <3>1
    <3>. QED
      BY <2>1, <3>2, <1>1, BlackenedHeights
  <2>2. CASE tree.root \notin tree.red
    <3>1. v = tree.red
      BY <2>2
    <3>2. Heights(t, b, NoGap)
      <4>. HIDE DEF t, NoGap
      <4>. QED
        BY <3>1, <1>1, <1>3 DEF Heights
    <3>. QED
      BY <3>2
  <2>. QED
    BY <2>1, <2>2
<1>6. PICK c : Heights(t, c, NoGap)
  BY <1>5
<1>. HIDE DEF t
<1>7. Right(t, "idle", Nil, Nil, d, c)
  BY <1>3, <1>4, <1>6, RunningInsert DEF Right
<1>. QED
  BY <1>1, <1>7, <1>3 DEF TreeRight

-----------------------------------------------------------------------------
(* Where an erase took a black node from, the other side is higher by one. *)
LEMMA LackingFacts ==
  ASSUME NEW d, NEW b, TreeRight(d, b), Lacking
  PROVE  /\ parent \in d[tree.root] \cap Key /\ Here \in Sides /\ Far \in Sides /\ Far # Here
         /\ \A s \in Sides : s = Here \/ s = Far
         /\ Opposite(Here) = Far /\ Opposite(Far) = Here
         /\ tree.child[parent][Here] = node /\ node \in Place /\ node # parent
         /\ Sibling \in Key /\ Sibling \in d[tree.root] /\ tree.parent[Sibling] = parent
         /\ Sibling # parent /\ Sibling # node /\ node \notin tree.red
         /\ b[Sibling] = b[node] + 1
         /\ b[parent] = b[Sibling] + (IF parent \in tree.red THEN 0 ELSE 1)
         /\ \A k \in Key \ {parent}, s \in Sides :
              b[k] = b[tree.child[k][s]] + (IF k \in tree.red THEN 0 ELSE 1)
         /\ \A k \in tree.red : tree.parent[k] # Nil /\ tree.parent[k] \notin tree.red
         /\ tree.red \subseteq d[tree.root] /\ d[tree.root] \subseteq Key
         /\ Gap(tree, pc, node, parent) = <<parent, Here>>
<1>1. /\ Shape(tree, d) /\ Reds(tree, d, "erase", node) /\ Heights(tree, b, Gap(tree, pc, node, parent))
      /\ parent \in d[tree.root] /\ node = tree.child[parent][Here]
      /\ node \notin tree.red /\ node # tree.root /\ pc = "erase"
  BY DEF TreeRight, Right, Lacking, Red, Here
<1>2. d[tree.root] \subseteq Key /\ Nil \notin Key
  BY <1>1, SideFacts DEF Shape, Subtrees, Trees
<1>3. /\ parent \in Key /\ Here \in Sides /\ Far \in Sides /\ Far # Here
      /\ \A s \in Sides : s = Here \/ s = Far
      /\ Opposite(Here) = Far /\ Opposite(Far) = Here
  <2>1. Here \in Sides
    BY DEF Here, Side, Sides
  <2>. QED
    BY <2>1, <1>1, <1>2, SideFacts DEF Far
<1>4. Gap(tree, pc, node, parent) = <<parent, Here>>
  BY <1>1 DEF Gap, Here
<1>5. \A k \in Key, s \in Sides : tree.child[k][s] \in Place /\ b[tree.child[k][s]] \in Nat
  BY <1>1, ShapeFacts DEF Heights
<1>6. /\ b[parent] = b[node] + 1 + (IF parent \in tree.red THEN 0 ELSE 1)
      /\ b[parent] = b[Sibling] + (IF parent \in tree.red THEN 0 ELSE 1)
      /\ \A k \in Key \ {parent}, s \in Sides :
           b[k] = b[tree.child[k][s]] + (IF k \in tree.red THEN 0 ELSE 1)
  <2>1. ASSUME NEW k \in Key, NEW s \in Sides, <<parent, Here>> # <<k, s>>
        PROVE  b[k] = b[tree.child[k][s]] + (IF k \in tree.red THEN 0 ELSE 1)
    BY <2>1, <1>1, <1>4, <1>5 DEF Heights
  <2>2. b[parent] = b[node] + 1 + (IF parent \in tree.red THEN 0 ELSE 1)
    BY <1>1, <1>3, <1>4 DEF Heights
  <2>3. \A k \in Key \ {parent}, s \in Sides : <<parent, Here>> # <<k, s>>
    OBVIOUS
  <2>4. <<parent, Here>> # <<parent, Far>>
    BY <1>3
  <2>. QED
    BY <2>1, <2>2, <2>3, <2>4, <1>3 DEF Sibling
<1>7. b[node] \in Nat /\ b[Sibling] \in Nat /\ Sibling \in Place /\ node \in Place
  BY <1>1, <1>3, <1>5 DEF Sibling
<1>8. b[Sibling] = b[node] + 1
  BY <1>6, <1>7
<1>9. Sibling \in Key /\ Sibling # node
  <2>1. b[Nil] = 0
    BY <1>1 DEF Heights
  <2>. QED
    BY <2>1, <1>7, <1>8 DEF Place
<1>10. tree.parent[Sibling] = parent /\ Sibling # parent /\ node # parent
  <2>1. Sibling # Nil
    BY <1>2, <1>9
  <2>2. parent \notin d[tree.child[parent][Here]] /\ node \in Key => node \in d[node]
    BY <1>1, <1>3, ShapeFacts
  <2>. QED
    BY <2>1, <2>2, <1>1, <1>2, <1>3, <1>9, ShapeFacts, ChildFacts DEF Sibling
<1>11. Sibling \in d[tree.root]
  BY <1>1, <1>2, <1>3, <1>9, <1>10 DEF Shape, Outside
<1>12. \A k \in tree.red : tree.parent[k] # Nil /\ tree.parent[k] \notin tree.red
  BY <1>1 DEF Reds
<1>. QED
  BY <1>1, <1>2, <1>3, <1>4, <1>6, <1>7, <1>8, <1>9, <1>10, <1>11, <1>12 DEF Reds

LEMMA EraseDoneRight ==
  ASSUME NEW d, NEW b, TreeRight(d, b), EraseDone
  PROVE  \E e, c : TreeRight(e, c)' /\ e[tree'.root] = d[tree.root]
<1>. DEFINE v == tree.red \ {node}
            t == [tree EXCEPT !.red = v]
            gap == Gap(tree, pc, node, parent)
<1>1. /\ Shape(tree, d) /\ Reds(tree, d, "erase", node) /\ Heights(tree, b, gap)
      /\ tree' = t /\ pc' = "idle" /\ node' = Nil /\ parent' = Nil
      /\ node \in tree.red \/ node = tree.root
      /\ node # tree.root => parent \in d[tree.root] /\ node = tree.child[parent][Side(tree, parent, node)]
      /\ pc = "erase"
  BY DEF TreeRight, Right, EraseDone, Lacking, Red, Return
<1>2. /\ tree \in Trees /\ v \in SUBSET Key /\ Nil \notin Key
      /\ tree.red \subseteq d[tree.root] /\ tree.red \subseteq Key /\ d[tree.root] \subseteq Key
  BY <1>1, SideFacts DEF Shape, Subtrees, Trees, Reds
<1>3. Shape(t, d) /\ t.red = v /\ t.root = tree.root /\ t.child = tree.child /\ t.parent = tree.parent
  <2>. HIDE DEF v
  <2>. QED
    BY <1>1, <1>2, RecolouredShape, RedSet
<1>4. Reds(t, d, "idle", Nil)
  <2>1. ASSUME NEW k \in v PROVE tree.parent[k] # Nil /\ tree.parent[k] \notin v
    BY <1>1 DEF Reds
  <2>. QED
    BY <2>1, <1>2, <1>3 DEF Reds
<1>5. \E c : Heights(t, c, NoGap)
  <2>1. CASE node \in tree.red
    <3>1. \A k \in Key, s \in Sides : tree.child[k][s] = node <=> gap = <<k, s>>
      <4>1. CASE node = tree.root
        <5>1. gap = NoGap
          BY <4>1 DEF Gap
        <5>2. \A k \in Key, s \in Sides : tree.child[k][s] # node /\ NoGap # <<k, s>>
          BY <4>1, <2>1, <1>1, <1>2, RootHangsNowhere DEF NoGap
        <5>. QED
          BY <5>1, <5>2
      <4>2. CASE node # tree.root
        <5>. DEFINE here == Side(tree, parent, node)
        <5>1. gap = <<parent, here>> /\ here \in Sides /\ parent \in Key /\ node = tree.child[parent][here]
          BY <4>2, <1>1, <1>2 DEF Gap, Side, Sides
        <5>. HIDE DEF gap, here
        <5>2. ASSUME NEW k \in Key, NEW s \in Sides, tree.child[k][s] = node PROVE k = parent /\ s = here
          <6>1. node # Nil
            BY <2>1, <1>2
          <6>2. tree.parent[node] = k /\ tree.parent[node] = parent /\ tree.child[k][Opposite(s)] # node
            BY <5>1, <5>2, <6>1, <1>1, ShapeFacts
          <6>3. s = here \/ here = Opposite(s)
            BY <5>1, SideFacts
          <6>. QED
            BY <5>1, <6>2, <6>3
        <5>3. \A k \in Key, s \in Sides : gap = <<k, s>> => k = parent /\ s = here
          BY <5>1
        <5>. QED
          BY <5>1, <5>2, <5>3
      <4>. QED
        BY <4>1, <4>2
    <3>. HIDE DEF gap
    <3>2. Heights([tree EXCEPT !.red = @ \ {node}], Raised(b, node), NoGap)
      BY <2>1, <3>1, <1>1, BlackenedHeights
    <3>. QED
      BY <3>2
  <2>2. CASE node \notin tree.red
    <3>1. v = tree.red /\ gap = NoGap
      BY <2>2, <1>1 DEF Gap
    <3>2. Heights(t, b, NoGap)
      <4>. HIDE DEF t, NoGap, gap
      <4>. QED
        BY <3>1, <1>1, <1>3 DEF Heights
    <3>. QED
      BY <3>2
  <2>. QED
    BY <2>1, <2>2
<1>6. PICK c : Heights(t, c, NoGap)
  BY <1>5
<1>. HIDE DEF t
<1>7. Right(t, "idle", Nil, Nil, d, c)
  BY <1>3, <1>4, <1>6, RunningInsert DEF Right
<1>. QED
  BY <1>1, <1>7, <1>3 DEF TreeRight

LEMMA SideIs ==
  ASSUME NEW t, NEW q, NEW n, NEW s \in Sides, t.child[q][s] = n, t.child[q][Opposite(s)] # n
  PROVE  Side(t, q, n) = s
<1>1. s = "left" \/ (s = "right" /\ Opposite(s) = "left")
  BY SideFacts DEF Sides
<1>. QED
  BY <1>1 DEF Side

LEMMA NotOwnParent ==
  ASSUME NEW t, NEW d, Shape(t, d)
  PROVE  \A k \in Key : t.parent[k] # k
<1>. SUFFICES ASSUME NEW k \in Key, t.parent[k] = k PROVE FALSE
  OBVIOUS
<1>1. PICK s \in Sides : s = "left"
  BY DEF Sides
<1>2. k \in {t.child[k][s], t.child[k][Opposite(s)]}
  BY Children
<1>. QED
  BY <1>2, SideFacts, ChildFacts

(* The gap above a node is the place where the node hangs.                 *)
LEMMA GapIs ==
  ASSUME NEW t, NEW d, Shape(t, d), NEW n \in d[t.root], NEW q, q = t.parent[n]
  PROVE  /\ n # t.root => q \in d[t.root] /\ n = t.child[q][Side(t, q, n)]
         /\ \A k \in Key, s \in Sides : t.child[k][s] = n <=> Gap(t, "erase", n, q) = <<k, s>>
<1>1. n \in Key /\ Nil \notin Key /\ t.root \in Key
  BY SideFacts DEF Shape, Subtrees, Trees, Place
<1>2. CASE n = t.root
  <2>1. Gap(t, "erase", n, q) = NoGap
    BY <1>2 DEF Gap
  <2>2. \A k \in Key, s \in Sides : t.child[k][s] # n /\ NoGap # <<k, s>>
    BY <1>1, <1>2, RootHangsNowhere DEF NoGap
  <2>. QED
    BY <1>2, <2>1, <2>2
<1>3. CASE n # t.root
  <2>. DEFINE here == Side(t, q, n)
  <2>1. q \in d[t.root] /\ q \in Key /\ t.child[q][here] = n
    <3>1. q \in d[t.root]
      BY <1>1, <1>3 DEF Shape, Hangs
    <3>. QED
      BY <3>1, <1>1, <1>3, ShapeFacts
  <2>2. Gap(t, "erase", n, q) = <<q, here>> /\ here \in Sides
    BY <1>3 DEF Gap, Side, Sides
  <2>. HIDE DEF here
  <2>3. ASSUME NEW k \in Key, NEW s \in Sides, t.child[k][s] = n PROVE k = q /\ s = here
    <3>1. k = q /\ t.child[k][Opposite(s)] # n
      BY <2>3, <1>1, ShapeFacts
    <3>2. s = here \/ here = Opposite(s)
      BY <2>2, SideFacts
    <3>. QED
      BY <2>1, <3>1, <3>2
  <2>4. \A k \in Key, s \in Sides : <<q, here>> = <<k, s>> => k = q /\ s = here
    OBVIOUS
  <2>. QED
    BY <2>1, <2>2, <2>3, <2>4 DEF here
<1>. QED
  BY <1>2, <1>3

LEMMA EraseTurnRight ==
  ASSUME NEW d, NEW b, TreeRight(d, b), EraseTurn
  PROVE  \E e, c : TreeRight(e, c)' /\ e[tree'.root] = d[tree.root]
<1>. DEFINE v == (tree.red \ {Sibling}) \cup {parent}
            t == [tree EXCEPT !.red = v]
            r == Rotated(t, parent, Here)
            e == RotatedSubtrees(t, d, parent, Here, Sibling)
            gap == <<parent, Here>>
            inner == tree.child[Sibling][Here]
<1>1. /\ Shape(tree, d) /\ b \in [Place -> Nat] /\ b[Nil] = 0
      /\ Lacking /\ Sibling \in tree.red /\ pc = "erase" /\ node # tree.root
      /\ tree' = r /\ node' = node /\ pc' = pc /\ parent' = parent
  BY DEF TreeRight, Right, Heights, EraseTurn, Lacking, Red
<1>2. /\ parent \in d[tree.root] \cap Key /\ Here \in Sides /\ Far \in Sides /\ Far # Here
      /\ \A s \in Sides : s = Here \/ s = Far
      /\ Opposite(Here) = Far
      /\ tree.child[parent][Here] = node /\ node \in Place /\ node # parent
      /\ Sibling \in Key /\ tree.parent[Sibling] = parent
      /\ Sibling # parent /\ Sibling # node /\ node \notin tree.red
      /\ b[Sibling] = b[node] + 1
      /\ b[parent] = b[Sibling] + (IF parent \in tree.red THEN 0 ELSE 1)
      /\ \A k \in Key \ {parent}, s \in Sides :
           b[k] = b[tree.child[k][s]] + (IF k \in tree.red THEN 0 ELSE 1)
      /\ \A k \in tree.red : tree.parent[k] # Nil /\ tree.parent[k] \notin tree.red
      /\ tree.red \subseteq d[tree.root] /\ d[tree.root] \subseteq Key
  BY <1>1, LackingFacts
<1>3. /\ Shape(t, d) /\ t.red = v /\ t.root = tree.root
      /\ t.child = tree.child /\ t.parent = tree.parent
  <2>1. v \in SUBSET Key
    BY <1>2
  <2>. HIDE DEF v
  <2>. QED
    BY <1>1, <2>1, RecolouredShape, RedSet DEF Shape
<1>. HIDE DEF t
<1>4. Sibling = t.child[parent][Opposite(Here)] /\ parent \notin tree.red
  BY <1>1, <1>2, <1>3 DEF Sibling
<1>5. Rotation(r, e, t, d, parent, Here, Sibling)
  BY <1>2, <1>3, <1>4, RotatedShape
<1>. HIDE DEF r, e
<1>6. /\ r.red = v /\ Shape(r, e) /\ e[r.root] = d[tree.root]
      /\ r.child[parent][Far] = inner /\ r.child[parent][Here] = node
      /\ r.parent[parent] = Sibling /\ r.root \in {Sibling, tree.root}
      /\ \A k \in Key \ {parent, Sibling} :
           r.parent[k] = IF k = inner THEN parent ELSE tree.parent[k]
  BY <1>2, <1>3, <1>5 DEF Rotation, Turned
<1>7. /\ \A m \in Key, u \in Sides : b[tree.child[m][u]] \in Nat
      /\ \A k \in Key, s \in Sides : tree.child[k][s] # Nil => tree.parent[tree.child[k][s]] = k
      /\ b[node] \in Nat
  BY <1>1, <1>2, ShapeFacts
<1>8. /\ b[Sibling] = b[inner] /\ b[Sibling] = b[tree.child[Sibling][Far]]
      /\ b[parent] = b[Sibling] + 1 /\ b[Sibling] \in Nat /\ inner # node
  BY <1>1, <1>2, <1>4, <1>7
<1>9. Reds(r, e, "erase", node)
  <2>1. ASSUME NEW k \in v PROVE r.parent[k] # Nil /\ r.parent[k] \notin v
    <3>1. CASE k = parent
      BY <3>1, <1>2, <1>6, SideFacts DEF v
    <3>2. CASE k # parent
      <4>1. k \in tree.red /\ k \in Key \ {parent, Sibling}
        BY <2>1, <3>2, <1>2 DEF v
      <4>2. k # inner
        BY <4>1, <1>1, <1>2, <1>7, SideFacts
      <4>3. tree.parent[k] # parent
        <5>1. tree.parent[k] = parent => k \in {tree.child[parent][Here], tree.child[parent][Far]}
          BY <4>1, <1>1, <1>2, Children
        <5>. QED
          BY <4>1, <5>1, <1>2 DEF Sibling
      <4>. QED
        BY <4>1, <4>2, <4>3, <1>2, <1>6 DEF v
    <3>. QED
      BY <3>1, <3>2
  <2>. QED
    BY <2>1, <1>2, <1>6 DEF Reds, v
<1>10. Heights(r, Exchanged(b, parent, Sibling), gap)
  <2>1. HighElsewhere(t, b, gap, parent, Sibling)
    <3>. SUFFICES ASSUME NEW k \in Key \ {parent, Sibling}, NEW s \in Sides
                  PROVE  b[k] = b[tree.child[k][s]] + (IF gap = <<k, s>> THEN 1 ELSE 0)
                                                    + (IF k \in v THEN 0 ELSE 1)
      BY <1>3 DEF HighElsewhere
    <3>1. gap # <<k, s>> /\ b[tree.child[k][s]] \in Nat
      BY <1>7
    <3>. HIDE DEF gap
    <3>. QED
      BY <3>1, <1>2 DEF v
  <2>2. HighThere(t, b, gap, parent, Here, Sibling)
    <3>1. parent \in t.red /\ Sibling \notin t.red
      BY <1>2, <1>3 DEF v
    <3>2. gap # <<parent, Far>> /\ \A s \in Sides : gap # <<Sibling, s>>
      BY <1>2
    <3>3. /\ b[Sibling] = b[tree.child[parent][Here]] + 1 + 0
          /\ b[Sibling] = b[tree.child[Sibling][Here]] + 0
          /\ b[parent] = b[tree.child[Sibling][Far]] + 1
      BY <1>2, <1>7, <1>8
    <3>. HIDE DEF gap
    <3>4. gap = <<parent, Here>>
      BY DEF gap
    <3>. QED
      BY <3>1, <3>2, <3>3, <3>4, <1>2, <1>3, <1>8 DEF HighThere
  <2>. HIDE DEF gap
  <2>. QED
    BY <2>1, <2>2, <1>1, <1>2, <1>3, <1>4, <1>5, RotatedHeights
<1>11. Side(r, parent, node) = Here
  BY <1>2, <1>6, <1>8, SideIs
<1>12. node # r.root
  BY <1>1, <1>2, <1>6
<1>13. Right(r, "erase", node, parent, e, Exchanged(b, parent, Sibling))
  <2>1. Gap(r, "erase", node, parent) = gap
    BY <1>11, <1>12 DEF Gap
  <2>. HIDE DEF gap
  <2>. QED
    BY <2>1, <1>2, <1>6, <1>9, <1>10, <1>11 DEF Right
<1>. QED
  BY <1>1, <1>13, <1>6 DEF TreeRight

LEMMA EraseRecolourRight ==
  ASSUME NEW d, NEW b, TreeRight(d, b), EraseRecolour
  PROVE  \E e, c : TreeRight(e, c)' /\ e[tree'.root] = d[tree.root]
<1>. DEFINE v == tree.red \cup {Sibling}
            t == [tree EXCEPT !.red = v]
            q == tree.parent[parent]
            c == [b EXCEPT ![Sibling] = b[Sibling] - 1, ![parent] = b[parent] - 1]
            gap == Gap(t, "erase", parent, q)
            high(k, s) == b[tree.child[k][s]] + (IF k \in tree.red THEN 0 ELSE 1)
<1>1. /\ Shape(tree, d) /\ b \in [Place -> Nat] /\ b[Nil] = 0
      /\ Lacking /\ Sibling \notin tree.red /\ pc = "erase" /\ node # tree.root
      /\ \A s \in {Here, Far} : tree.child[Sibling][s] \notin tree.red
      /\ tree' = t /\ node' = parent /\ pc' = pc /\ parent' = q
  BY DEF TreeRight, Right, Heights, EraseRecolour, BlackSibling, Lacking, Red, Nephew
<1>2. /\ parent \in d[tree.root] \cap Key /\ Here \in Sides /\ Far \in Sides /\ Far # Here
      /\ \A s \in Sides : s = Here \/ s = Far
      /\ Opposite(Here) = Far
      /\ tree.child[parent][Here] = node /\ node \in Place /\ node # parent
      /\ Sibling \in Key /\ Sibling \in d[tree.root] /\ tree.parent[Sibling] = parent
      /\ Sibling # parent /\ Sibling # node /\ node \notin tree.red
      /\ b[Sibling] = b[node] + 1
      /\ b[parent] = b[Sibling] + (IF parent \in tree.red THEN 0 ELSE 1)
      /\ \A k \in Key \ {parent}, s \in Sides : b[k] = high(k, s)
      /\ \A k \in tree.red : tree.parent[k] # Nil /\ tree.parent[k] \notin tree.red
      /\ tree.red \subseteq d[tree.root] /\ d[tree.root] \subseteq Key
  BY <1>1, LackingFacts
<1>3. /\ Shape(t, d) /\ t.red = v /\ t.root = tree.root
      /\ t.child = tree.child /\ t.parent = tree.parent
  <2>1. v \in SUBSET Key
    BY <1>2
  <2>. HIDE DEF v
  <2>. QED
    BY <1>1, <2>1, RecolouredShape, RedSet DEF Shape
<1>4. tree.child[parent][Far] = Sibling
  BY DEF Sibling
<1>. HIDE DEF t
<1>5. /\ parent # t.root => q \in d[t.root] /\ parent = t.child[q][Side(t, q, parent)]
      /\ \A k \in Key, s \in Sides : tree.child[k][s] = parent <=> gap = <<k, s>>
  BY <1>2, <1>3, GapIs
<1>6. /\ \A m \in Key, u \in Sides : tree.child[m][u] \in Place /\ b[tree.child[m][u]] \in Nat
      /\ \A k \in Key, s \in Sides : tree.child[k][s] # Nil =>
           tree.parent[tree.child[k][s]] = k /\ tree.child[k][s] # k
      /\ b[node] \in Nat /\ b[Sibling] \in Nat /\ b[parent] \in Nat
  BY <1>1, <1>2, ShapeFacts DEF Place
<1>7. Reds(t, d, "erase", parent)
  <2>1. ASSUME NEW k \in tree.red PROVE tree.parent[k] # Nil /\ tree.parent[k] \notin v
    <3>1. tree.parent[k] = Sibling => k \in {tree.child[Sibling][Here], tree.child[Sibling][Far]}
      BY <1>1, <1>2, Children
    <3>. QED
      BY <3>1, <1>1, <1>2
  <2>. QED
    BY <2>1, <1>2, <1>3, SideFacts DEF Reds
<1>8. /\ c \in [Place -> Nat] /\ c[Sibling] = b[node] /\ c[parent] = b[parent] - 1 /\ c[Nil] = 0
      /\ \A k \in Place \ {Sibling, parent} : c[k] = b[k]
      /\ c[parent] \in Nat
  <2>1. b[Sibling] - 1 = b[node] /\ b[parent] - 1 \in Nat /\ Nil \notin {Sibling, parent}
    BY <1>2, <1>6, SideFacts
  <2>. QED
    BY <2>1, <1>1, <1>2, <1>6 DEF Place
<1>. HIDE DEF c
<1>9. Heights(t, c, gap)
  <2>. DEFINE lack(k, s) == IF gap = <<k, s>> THEN 1 ELSE 0
              black(k)   == IF k \in v THEN 0 ELSE 1
  <2>. SUFFICES ASSUME NEW k \in Key, NEW s \in Sides
                PROVE  c[k] = c[tree.child[k][s]] + lack(k, s) + black(k)
    BY <1>3, <1>8 DEF Heights
  <2>1. lack(k, s) = IF tree.child[k][s] = parent THEN 1 ELSE 0
    BY <1>5
  <2>2. black(k) = IF k = Sibling \/ k \in tree.red THEN 0 ELSE 1
    OBVIOUS
  <2>. HIDE DEF lack, black, gap
  <2>3. CASE k = Sibling
    <3>1. tree.child[k][s] \notin {Sibling, parent}
      <4>1. parent \notin d[tree.child[parent][Far]]
        BY <1>1, <1>2, ShapeFacts
      <4>2. tree.child[k][s] # Nil => tree.child[k][s] \in d[k]
        BY <2>3, <1>1, <1>2, ShapeFacts
      <4>. QED
        BY <2>3, <4>1, <4>2, <1>2, <1>4, <1>6, SideFacts
    <3>2. b[k] = b[tree.child[k][s]] + 1 /\ c[tree.child[k][s]] = b[tree.child[k][s]]
      BY <2>3, <3>1, <1>1, <1>2, <1>6, <1>8
    <3>. QED
      BY <2>1, <2>2, <2>3, <3>1, <3>2, <1>2, <1>6, <1>8
  <2>4. CASE k = parent
    <3>1. c[tree.child[k][s]] = b[node] /\ tree.child[k][s] # parent
      BY <2>4, <1>2, <1>4, <1>8
    <3>. QED
      BY <2>1, <2>2, <2>4, <3>1, <1>2, <1>6, <1>8
  <2>5. CASE k \notin {Sibling, parent}
    <3>1. c[k] = b[k] /\ b[k] = high(k, s) /\ tree.child[k][s] # Sibling
      BY <2>5, <1>2, <1>6, <1>8, SideFacts DEF Place
    <3>2. CASE tree.child[k][s] = parent
      BY <2>1, <2>2, <2>5, <3>1, <3>2, <1>6, <1>8
    <3>3. CASE tree.child[k][s] # parent
      BY <2>1, <2>2, <2>5, <3>1, <3>3, <1>6, <1>8
    <3>. QED
      BY <3>2, <3>3
  <2>. QED
    BY <2>3, <2>4, <2>5
<1>10. Right(t, "erase", parent, q, d, c)
  <2>1. gap = Gap(t, "erase", parent, q)
    OBVIOUS
  <2>. HIDE DEF gap, q
  <2>. QED
    BY <2>1, <1>3, <1>5, <1>7, <1>9 DEF Right
<1>. QED
  BY <1>1, <1>10, <1>3 DEF TreeRight

LEMMA EraseStraightenRight ==
  ASSUME NEW d, NEW b, TreeRight(d, b), EraseStraighten
  PROVE  \E e, c : TreeRight(e, c)' /\ e[tree'.root] = d[tree.root]
<1>. DEFINE up == tree.child[Sibling][Here]
            v == (tree.red \ {up}) \cup {Sibling}
            t == [tree EXCEPT !.red = v]
            r == Rotated(t, Sibling, Far)
            e == RotatedSubtrees(t, d, Sibling, Far, up)
            gap == <<parent, Here>>
            inner == tree.child[up][Far]
<1>1. /\ Shape(tree, d) /\ b \in [Place -> Nat] /\ b[Nil] = 0
      /\ Lacking /\ Sibling \notin tree.red /\ pc = "erase" /\ node # tree.root
      /\ up \in tree.red /\ tree.child[Sibling][Far] \notin tree.red
      /\ tree' = r /\ node' = node /\ pc' = pc /\ parent' = parent
  BY DEF TreeRight, Right, Heights, EraseStraighten, BlackSibling, Lacking, Red, Nephew
<1>2. /\ parent \in d[tree.root] \cap Key /\ Here \in Sides /\ Far \in Sides /\ Far # Here
      /\ \A s \in Sides : s = Here \/ s = Far
      /\ Opposite(Here) = Far /\ Opposite(Far) = Here
      /\ tree.child[parent][Here] = node /\ node \in Place /\ node # parent
      /\ Sibling \in Key /\ Sibling \in d[tree.root] /\ tree.parent[Sibling] = parent
      /\ Sibling # parent /\ Sibling # node /\ node \notin tree.red
      /\ b[Sibling] = b[node] + 1
      /\ b[parent] = b[Sibling] + (IF parent \in tree.red THEN 0 ELSE 1)
      /\ \A k \in Key \ {parent}, s \in Sides :
           b[k] = b[tree.child[k][s]] + (IF k \in tree.red THEN 0 ELSE 1)
      /\ \A k \in tree.red : tree.parent[k] # Nil /\ tree.parent[k] \notin tree.red
      /\ tree.red \subseteq d[tree.root] /\ d[tree.root] \subseteq Key
  BY <1>1, LackingFacts
<1>3. /\ Shape(t, d) /\ t.red = v /\ t.root = tree.root
      /\ t.child = tree.child /\ t.parent = tree.parent
  <2>1. v \in SUBSET Key
    BY <1>2
  <2>. HIDE DEF v
  <2>. QED
    BY <1>1, <2>1, RecolouredShape, RedSet DEF Shape
<1>. HIDE DEF t
<1>4. /\ tree.child[parent][Far] = Sibling /\ up \in Key /\ up # Sibling /\ up # parent /\ up # node
      /\ tree.parent[up] = Sibling
  <2>1. up \in Key /\ up # node /\ up # Nil /\ tree.child[parent][Far] = Sibling
    BY <1>1, <1>2, SideFacts DEF Sibling
  <2>2. /\ up \in d[Sibling] /\ up # Sibling /\ tree.parent[up] = Sibling
        /\ parent \notin d[tree.child[parent][Far]]
    BY <2>1, <1>1, <1>2, ShapeFacts
  <2>. QED
    BY <2>1, <2>2
<1>5. Rotation(r, e, t, d, Sibling, Far, up)
  BY <1>2, <1>3, <1>4, RotatedShape
<1>. HIDE DEF r, e, up
<1>6. /\ r.red = v /\ Shape(r, e) /\ e[r.root] = d[tree.root] /\ r.root = tree.root
      /\ r.child[parent][Far] = up /\ r.child[parent][Here] = node
      /\ r.parent[Sibling] = up /\ r.parent[up] = parent
      /\ \A k \in Key \ {up, Sibling} :
           r.parent[k] = IF k = inner THEN Sibling ELSE tree.parent[k]
  <2>1. /\ r.red = v /\ Shape(r, e) /\ e[r.root] = d[tree.root]
        /\ r.root = IF tree.parent[Sibling] = Nil THEN up ELSE tree.root
        /\ r.parent[Sibling] = up /\ r.parent[up] = tree.parent[Sibling]
        /\ \A k \in Key \ {Sibling, up} :
             r.parent[k] = IF k = tree.child[up][Far] THEN Sibling ELSE tree.parent[k]
        /\ \A k \in Key \ {Sibling, up}, s \in Sides :
             r.child[k][s] = IF tree.child[k][s] = Sibling THEN up ELSE tree.child[k][s]
    BY <1>3, <1>5 DEF Rotation, Turned, Replaced
  <2>2. parent \in Key \ {Sibling, up} /\ parent # Nil
    BY <1>2, <1>4, SideFacts
  <2>3. r.child[parent][Far] = up /\ r.child[parent][Here] = node
    BY <2>1, <2>2, <1>2, <1>4
  <2>. QED
    BY <2>1, <2>2, <2>3, <1>2, Zenon
<1>7. /\ \A m \in Key, u \in Sides : b[tree.child[m][u]] \in Nat
      /\ \A k \in Key, s \in Sides : tree.child[k][s] # Nil => tree.parent[tree.child[k][s]] = k
      /\ b[node] \in Nat
  BY <1>1, <1>2, ShapeFacts
<1>8. /\ b[up] = b[inner] /\ b[up] = b[tree.child[up][Here]] /\ b[up] \in Nat
      /\ b[Sibling] = b[up] + 1 /\ b[Sibling] = b[tree.child[Sibling][Far]] + 1
  <2>1. b[up] = b[inner] /\ b[up] = b[tree.child[up][Here]] /\ b[up] \in Nat
    BY <1>1, <1>2, <1>4, <1>7 DEF Place
  <2>2. b[Sibling] = b[tree.child[Sibling][Here]] + 1 /\ b[Sibling] = b[tree.child[Sibling][Far]] + 1
    BY <1>1, <1>2
  <2>. QED
    BY <2>1, <2>2 DEF up
<1>9. Reds(r, e, "erase", node)
  <2>1. ASSUME NEW k \in v PROVE r.parent[k] # Nil /\ r.parent[k] \notin v
    <3>1. CASE k = Sibling
      BY <3>1, <1>4, <1>6, SideFacts DEF v
    <3>2. CASE k # Sibling
      <4>1. k \in tree.red /\ k \in Key \ {up, Sibling}
        BY <2>1, <3>2, <1>2 DEF v
      <4>2. k # inner
        BY <4>1, <1>1, <1>2, <1>4, <1>7, SideFacts
      <4>3. tree.parent[k] # Sibling
        <5>1. tree.parent[k] = Sibling => k \in {tree.child[Sibling][Here], tree.child[Sibling][Far]}
          BY <4>1, <1>1, <1>2, Children
        <5>. QED
          BY <4>1, <5>1, <1>1 DEF up
      <4>. QED
        BY <4>1, <4>2, <4>3, <1>2, <1>6 DEF v
    <3>. QED
      BY <3>1, <3>2
  <2>. QED
    BY <2>1, <1>2, <1>6 DEF Reds, v
<1>10. Heights(r, Exchanged(b, Sibling, up), gap)
  <2>1. HighElsewhere(t, b, gap, Sibling, up)
    <3>. SUFFICES ASSUME NEW k \in Key \ {Sibling, up}, NEW s \in Sides
                  PROVE  b[k] = b[tree.child[k][s]] + (IF gap = <<k, s>> THEN 1 ELSE 0)
                                                    + (IF k \in v THEN 0 ELSE 1)
      BY <1>3 DEF HighElsewhere
    <3>1. b[tree.child[k][s]] \in Nat /\ (k \in v <=> k \in tree.red)
      BY <1>7
    <3>2. CASE k # parent
      <4>1. gap # <<k, s>>
        BY <3>2
      <4>. HIDE DEF gap
      <4>. QED
        BY <3>1, <3>2, <4>1, <1>2
    <3>3. CASE k = parent /\ s = Here
      <4>1. gap = <<k, s>>
        BY <3>3
      <4>. HIDE DEF gap
      <4>. QED
        BY <3>1, <3>3, <4>1, <1>2
    <3>4. CASE k = parent /\ s = Far
      <4>1. gap # <<k, s>>
        BY <3>4, <1>2
      <4>. HIDE DEF gap
      <4>. QED
        BY <3>1, <3>4, <4>1, <1>2, <1>4
    <3>. QED
      BY <3>2, <3>3, <3>4, <1>2
  <2>2. HighThere(t, b, gap, Sibling, Far, up)
    <3>1. Sibling \in t.red /\ up \notin t.red
      BY <1>3, <1>4 DEF v
    <3>2. \A s \in Sides : gap # <<Sibling, s>> /\ gap # <<up, s>>
      BY <1>2, <1>4
    <3>3. /\ b[up] = b[tree.child[Sibling][Far]] + 0 + 0
          /\ b[up] = b[tree.child[up][Far]] + 0
          /\ b[Sibling] = b[tree.child[up][Here]] + 1
      BY <1>2, <1>4, <1>7, <1>8
    <3>. HIDE DEF gap
    <3>. QED
      BY <3>1, <3>2, <3>3, <1>2, <1>3, <1>8 DEF HighThere
  <2>3. up = t.child[Sibling][Opposite(Far)]
    BY <1>2, <1>3 DEF up
  <2>. HIDE DEF gap
  <2>. QED
    BY <2>1, <2>2, <2>3, <1>1, <1>2, <1>3, <1>4, <1>5, RotatedHeights
<1>11. Side(r, parent, node) = Here
  BY <1>2, <1>4, <1>6, SideIs
<1>12. Right(r, "erase", node, parent, e, Exchanged(b, Sibling, up))
  <2>1. Gap(r, "erase", node, parent) = gap
    BY <1>1, <1>6, <1>11 DEF Gap
  <2>. HIDE DEF gap
  <2>. QED
    BY <2>1, <1>2, <1>6, <1>9, <1>10, <1>11 DEF Right
<1>. QED
  BY <1>1, <1>12, <1>6 DEF TreeRight

LEMMA EraseRotateRight ==
  ASSUME NEW d, NEW b, TreeRight(d, b), EraseRotate
  PROVE  \E e, c : TreeRight(e, c)' /\ e[tree'.root] = d[tree.root]
<1>. DEFINE far == tree.child[Sibling][Far]
            v == (tree.red \ {parent, far}) \cup (IF parent \in tree.red THEN {Sibling} ELSE {})
            t == [tree EXCEPT !.red = v]
            r == Rotated(t, parent, Here)
            e == RotatedSubtrees(t, d, parent, Here, Sibling)
            inner == tree.child[Sibling][Here]
            c == Raised(b, far)
<1>1. /\ Shape(tree, d) /\ b \in [Place -> Nat] /\ b[Nil] = 0
      /\ Lacking /\ Sibling \notin tree.red /\ pc = "erase" /\ node # tree.root
      /\ far \in tree.red
      /\ tree' = r /\ node' = r.root /\ pc' = pc /\ parent' = parent
  BY DEF TreeRight, Right, Heights, EraseRotate, BlackSibling, Lacking, Red, Nephew
<1>2. /\ parent \in d[tree.root] \cap Key /\ Here \in Sides /\ Far \in Sides /\ Far # Here
      /\ \A s \in Sides : s = Here \/ s = Far
      /\ Opposite(Here) = Far /\ Opposite(Far) = Here
      /\ tree.child[parent][Here] = node /\ node \in Place /\ node # parent
      /\ Sibling \in Key /\ Sibling \in d[tree.root] /\ tree.parent[Sibling] = parent
      /\ Sibling # parent /\ Sibling # node /\ node \notin tree.red
      /\ b[Sibling] = b[node] + 1
      /\ b[parent] = b[Sibling] + (IF parent \in tree.red THEN 0 ELSE 1)
      /\ \A k \in Key \ {parent}, s \in Sides :
           b[k] = b[tree.child[k][s]] + (IF k \in tree.red THEN 0 ELSE 1)
      /\ \A k \in tree.red : tree.parent[k] # Nil /\ tree.parent[k] \notin tree.red
      /\ tree.red \subseteq d[tree.root] /\ d[tree.root] \subseteq Key
  BY <1>1, LackingFacts
<1>3. /\ Shape(t, d) /\ t.red = v /\ t.root = tree.root
      /\ t.child = tree.child /\ t.parent = tree.parent
  <2>1. v \in SUBSET Key
    BY <1>2
  <2>. HIDE DEF v
  <2>. QED
    BY <1>1, <2>1, RecolouredShape, RedSet DEF Shape
<1>. HIDE DEF t
<1>4. /\ tree.child[parent][Far] = Sibling
      /\ far \in Key /\ far # Sibling /\ far # parent /\ far # node /\ far # inner
      /\ tree.parent[far] = Sibling
  <2>1. far \in Key /\ far # node /\ far # Nil /\ tree.child[parent][Far] = Sibling
    BY <1>1, <1>2, SideFacts DEF Sibling
  <2>2. /\ far \in d[Sibling] /\ far # Sibling /\ tree.parent[far] = Sibling
        /\ parent \notin d[tree.child[parent][Far]] /\ far # inner
    BY <2>1, <1>1, <1>2, ShapeFacts
  <2>. QED
    BY <2>1, <2>2
<1>5. Rotation(r, e, t, d, parent, Here, Sibling)
  BY <1>2, <1>3, <1>4, RotatedShape
<1>. HIDE DEF r, e, far
<1>6. /\ r.red = v /\ Shape(r, e) /\ e[r.root] = d[tree.root]
      /\ r.parent[parent] = Sibling /\ r.parent[Sibling] = tree.parent[parent]
      /\ \A k \in Key \ {parent, Sibling} :
           r.parent[k] = IF k = inner THEN parent ELSE tree.parent[k]
  BY <1>3, <1>5 DEF Rotation, Turned
<1>7. /\ \A m \in Key, u \in Sides : tree.child[m][u] \in Place /\ b[tree.child[m][u]] \in Nat
      /\ \A k \in Key, s \in Sides : tree.child[k][s] # Nil =>
           tree.parent[tree.child[k][s]] = k /\ tree.child[k][s] # k
      /\ b[node] \in Nat /\ b[far] \in Nat /\ b[inner] \in Nat /\ inner \in Place
  <2>1. b[far] \in Nat /\ b[node] \in Nat
    BY <1>1, <1>2, <1>4 DEF Place
  <2>2. /\ \A m \in Key, u \in Sides : tree.child[m][u] \in Place /\ b[tree.child[m][u]] \in Nat
        /\ \A k \in Key, s \in Sides : tree.child[k][s] # Nil =>
             tree.parent[tree.child[k][s]] = k /\ tree.child[k][s] # k
    BY <1>1, ShapeFacts
  <2>. QED
    BY <2>1, <2>2, <1>2
<1>8. r.parent[Sibling] # Sibling
  BY <1>2, <1>6, NotOwnParent
<1>9. Reds(r, e, "erase", r.root)
  <2>1. ASSUME NEW k \in v PROVE r.parent[k] # Nil /\ r.parent[k] \notin v
    <3>1. CASE k = Sibling
      <4>1. parent \in tree.red
        BY <2>1, <3>1, <1>1 DEF v
      <4>2. tree.parent[parent] # Nil /\ tree.parent[parent] \notin tree.red
        BY <4>1, <1>2
      <4>. QED
        BY <3>1, <4>2, <1>6, <1>8 DEF v
    <3>2. CASE k # Sibling
      <4>1. k \in tree.red \ {far} /\ k \in Key \ {parent, Sibling}
        BY <2>1, <3>2, <1>2 DEF v
      <4>2. CASE k = inner
        BY <4>1, <4>2, <1>2, <1>6, SideFacts DEF v
      <4>3. CASE k # inner
        <5>1. tree.parent[k] # Sibling
          <6>1. tree.parent[k] = Sibling => k \in {tree.child[Sibling][Here], tree.child[Sibling][Far]}
            BY <4>1, <1>1, <1>2, Children
          <6>. QED
            BY <4>1, <4>3, <6>1 DEF far
        <5>. QED
          BY <4>1, <4>3, <5>1, <1>2, <1>6 DEF v
      <4>. QED
        BY <4>2, <4>3
    <3>. QED
      BY <3>1, <3>2
  <2>2. v \subseteq d[tree.root]
    BY <1>2
  <2>. QED
    BY <2>1, <2>2, <1>6 DEF Reds
<1>10. /\ c \in [Place -> Nat] /\ c[far] = b[far] + 1 /\ c[Nil] = 0
       /\ \A k \in Place \ {far} : c[k] = b[k]
  BY <1>1, <1>4, <1>7, SideFacts DEF Raised, Place
<1>. HIDE DEF c
<1>11. Heights(r, Exchanged(c, parent, Sibling), NoGap)
  <2>0. \A k \in Key, s \in Sides : NoGap # <<k, s>>
    BY SideFacts DEF NoGap
  <2>. HIDE DEF NoGap
  <2>1. HighElsewhere(t, c, NoGap, parent, Sibling)
    <3>. SUFFICES ASSUME NEW k \in Key \ {parent, Sibling}, NEW s \in Sides
                  PROVE  c[k] = c[tree.child[k][s]] + 0 + (IF k \in v THEN 0 ELSE 1)
      BY <2>0, <1>3 DEF HighElsewhere
    <3>1. tree.child[k][s] # far
      BY <1>4, <1>7, SideFacts
    <3>2. c[tree.child[k][s]] = b[tree.child[k][s]] /\ b[tree.child[k][s]] \in Nat
      BY <3>1, <1>7, <1>10
    <3>3. b[k] = b[tree.child[k][s]] + (IF k \in tree.red THEN 0 ELSE 1)
      BY <1>2
    <3>4. CASE k = far
      BY <3>2, <3>3, <3>4, <1>1, <1>4, <1>10 DEF v
    <3>5. CASE k # far
      <4>1. c[k] = b[k] /\ (k \in v <=> k \in tree.red)
        BY <3>5, <1>10 DEF Place
      <4>. QED
        BY <3>2, <3>3, <4>1
    <3>. QED
      BY <3>4, <3>5
  <2>2. HighThere(t, c, NoGap, parent, Here, Sibling)
    <3>1. parent \notin t.red /\ (Sibling \in t.red <=> parent \in tree.red)
      BY <1>1, <1>2, <1>3 DEF v
    <3>2. /\ b[Sibling] = b[inner] + 1 /\ b[Sibling] = b[far] + 1 /\ b[Sibling] = b[node] + 1
      BY <1>1, <1>2 DEF far
    <3>3. /\ c[Sibling] = b[Sibling] /\ c[parent] = b[parent] /\ c[inner] = b[inner]
          /\ c[node] = b[node]
      BY <1>2, <1>4, <1>7, <1>10 DEF Place
    <3>4. /\ c[Sibling] = c[tree.child[parent][Here]] + 0 + 1
          /\ c[Sibling] = c[tree.child[Sibling][Here]] + 1
          /\ c[parent] = c[Sibling] + (IF Sibling \in t.red THEN 0 ELSE 1)
          /\ c[parent] = c[tree.child[Sibling][Far]] + (IF Sibling \in t.red THEN 0 ELSE 1)
      <4>1. tree.child[parent][Here] = node /\ tree.child[Sibling][Far] = far
        BY <1>2 DEF far
      <4>2. c[far] = c[Sibling]
        BY <3>2, <3>3, <1>10
      <4>. QED
        BY <4>1, <4>2, <3>1, <3>2, <3>3, <1>2, <1>7
    <3>. QED
      BY <2>0, <3>1, <3>4, <1>2, <1>3 DEF HighThere
  <2>3. Sibling = t.child[parent][Opposite(Here)]
    BY <1>2, <1>3, <1>4
  <2>. QED
    BY <2>1, <2>2, <2>3, <1>2, <1>3, <1>5, <1>10, RotatedHeights
<1>12. Right(r, "erase", r.root, parent, e, Exchanged(c, parent, Sibling))
  <2>1. Gap(r, "erase", r.root, parent) = NoGap
    BY DEF Gap
  <2>. HIDE DEF NoGap
  <2>. QED
    BY <2>1, <1>6, <1>9, <1>11 DEF Right
<1>. QED
  BY <1>1, <1>12, <1>6 DEF TreeRight

-----------------------------------------------------------------------------
(***************************************************************************)
(* The ways down.  A subtree is smaller than the one it is part of, so     *)
(* that both loops end.                                                    *)
(***************************************************************************)
LEMMA Smaller ==
  ASSUME NEW t, NEW d, Shape(t, d)
  PROVE  /\ Cardinality(Key) \in Nat
         /\ \A k \in Place : Cardinality(d[k]) \in Nat /\ Cardinality(d[k]) <= Cardinality(Key)
         /\ \A k \in Key, s \in Sides : Cardinality(d[t.child[k][s]]) < Cardinality(d[k])
<1>1. IsFiniteSet(Key) /\ \A k \in Place : d[k] \subseteq Key
  BY TreeAssumption DEF Shape, Subtrees
<1>2. Cardinality(Key) \in Nat
  BY <1>1, FS_CardinalityType
<1>3. ASSUME NEW S \in SUBSET Key
      PROVE  IsFiniteSet(S) /\ Cardinality(S) \in Nat /\ Cardinality(S) <= Cardinality(Key)
  BY <1>1, FS_Subset, FS_CardinalityType
<1>4. ASSUME NEW k \in Key, NEW s \in Sides
      PROVE  Cardinality(d[t.child[k][s]]) < Cardinality(d[k])
  <2>. DEFINE below == d[t.child[k][s]]
  <2>1. below \subseteq d[k] \ {k} /\ k \in d[k] /\ d[k] \subseteq Key
    BY <1>1, ShapeFacts
  <2>. HIDE DEF below
  <2>2. Cardinality(d[k] \ {k}) = Cardinality(d[k]) - 1 /\ IsFiniteSet(d[k] \ {k})
    BY <1>3, <2>1, FS_RemoveElement
  <2>3. Cardinality(below) <= Cardinality(d[k] \ {k})
    BY <2>1, <2>2, FS_Subset
  <2>4. Cardinality(d[k]) \in Nat /\ Cardinality(below) \in Nat
    BY <1>3, <2>1
  <2>. QED
    BY <2>2, <2>3, <2>4 DEF below
<1>. QED
  BY <1>1, <1>2, <1>3, <1>4

Dir(m, key) == IF m > key THEN "left" ELSE "right"

(* Where a search for the key gets, at[1], and what it came from, at[2].   *)
Sought(t, d, key, at) ==
  /\ at[1] \in d[t.root] \cup {Nil} /\ at[2] \in d[t.root] \cup {Nil}
  /\ at[2] = Nil => at[1] = t.root
  /\ at[2] # Nil => at[2] # key /\ at[1] = t.child[at[2]][Dir(at[2], key)]
  /\ \A k \in Key, s \in Sides : at[2] \in d[t.child[k][s]] => Before(s, key, k)
  /\ key \in d[t.root] => key \in d[at[1]]

LEMMA DirFacts ==
  ASSUME NEW m \in Key, NEW key \in Key
  PROVE  Dir(m, key) \in Sides /\ (m # key => Before(Dir(m, key), key, m))
BY SideFacts DEF Dir, Sides, Before

LEMMA SoughtOn ==
  ASSUME NEW t, NEW d, Shape(t, d), NEW key \in Key, NEW at \in Place \X Place,
         Sought(t, d, key, at), at[1] \notin {Nil, key}
  PROVE  Sought(t, d, key, <<t.child[at[1]][Dir(at[1], key)], at[1]>>)
<1>. DEFINE a == at[1]
            s0 == at[2]
            dir == Dir(a, key)
            b == t.child[a][dir]
            on == <<b, a>>
<1>1. /\ a \in d[t.root] /\ a \in Key /\ a # key /\ s0 \in Place /\ Nil \notin Key
      /\ dir \in Sides /\ d[Nil] = {} /\ \A k \in Place : d[k] \subseteq Key
  <2>1. a \in d[t.root] /\ a # key /\ s0 \in Place /\ a \in Place
    BY DEF Sought
  <2>2. a \in Key /\ Nil \notin Key
    BY <2>1, SideFacts DEF Place
  <2>3. dir \in Sides
    BY <2>2, DirFacts
  <2>. QED
    BY <2>1, <2>2, <2>3 DEF Shape, Subtrees
<1>2. on[1] = b /\ on[2] = a
  OBVIOUS
<1>3. b \in d[t.root] \cup {Nil}
  <2>1. b # Nil => b \in d[a]
    BY <1>1, ShapeFacts
  <2>2. d[a] \subseteq d[t.root]
    BY <1>1 DEF Shape, Subtrees, Trees, Place
  <2>. QED
    BY <2>1, <2>2
<1>4. ASSUME NEW k \in Key, NEW s \in Sides, a \in d[t.child[k][s]] PROVE Before(s, key, k)
  <2>. DEFINE m == t.child[k][s]
  <2>1. m \in Key /\ m \in d[k] /\ t.parent[m] = k /\ k \in d[t.root]
    <3>1. m \in Key
      BY <1>1, <1>4, ShapeFacts DEF Place
    <3>2. m \in d[k] /\ t.parent[m] = k /\ t.child[k] # NoLinks
      BY <1>1, <3>1, ShapeFacts DEF NoLinks
    <3>. QED
      BY <3>1, <3>2 DEF Shape, Outside
  <2>2. CASE s0 = Nil
    <3>1. a = t.root
      BY <2>2 DEF Sought
    <3>2. d[t.root] \subseteq d[m]
      BY <3>1, <1>4, <2>1 DEF Shape, Subtrees
    <3>3. k \notin d[m]
      BY ShapeFacts
    <3>. QED
      BY <2>1, <3>2, <3>3
  <2>3. CASE s0 # Nil
    <3>1. s0 \in Key /\ s0 # key /\ a = t.child[s0][Dir(s0, key)] /\ Dir(s0, key) \in Sides
      <4>1. s0 \in Key
        BY <2>3, <1>1 DEF Place
      <4>. QED
        BY <2>3, <4>1, DirFacts DEF Sought
    <3>2. t.parent[a] = s0
      BY <3>1, <1>1, ShapeFacts
    <3>3. CASE a = m
      <4>1. s0 = k
        BY <3>2, <3>3, <2>1
      <4>2. s = Dir(s0, key)
        <5>1. s = Dir(s0, key) \/ s = Opposite(Dir(s0, key))
          BY <3>1, SideFacts
        <5>2. t.child[s0][Opposite(Dir(s0, key))] # a
          BY <3>1, <1>1, ShapeFacts
        <5>. QED
          BY <3>3, <4>1, <5>1, <5>2
      <4>. QED
        BY <3>1, <4>1, <4>2, DirFacts
    <3>4. CASE a # m
      <4>1. s0 \in d[m]
        BY <1>4, <2>1, <3>2, <3>4 DEF Shape, Hangs
      <4>. QED
        BY <4>1 DEF Sought
    <3>. QED
      BY <3>3, <3>4
  <2>. QED
    BY <2>2, <2>3
<1>5. ASSUME key \in d[t.root] PROVE key \in d[b]
  <2>1. key \in d[a]
    BY <1>5 DEF Sought
  <2>2. key \in d[b] \/ key \in d[t.child[a][Opposite(dir)]]
    BY <1>1, <2>1, ShapeFacts
  <2>3. Before(dir, key, a)
    BY <1>1, DirFacts
  <2>4. ~ Before(Opposite(dir), key, a)
    BY <1>1, <2>3, BeforeFacts
  <2>5. key \notin d[t.child[a][Opposite(dir)]]
    BY <1>1, <2>4, SideFacts DEF Shape, Sorted
  <2>. QED
    BY <2>2, <2>5
<1>. HIDE DEF on
<1>6. Sought(t, d, key, on)
  BY <1>1, <1>2, <1>3, <1>4, <1>5 DEF Sought
<1>. QED
  BY <1>6 DEF on

(* The place for a key that is not there.                                  *)
LeafFor(t, d, key, save) ==
  /\ key \notin d[t.root] /\ save \in d[t.root] \cup {Nil}
  /\ save = Nil => t.root = Nil
  /\ save # Nil => save # key /\ t.child[save][Dir(save, key)] = Nil
  /\ \A k \in Key, s \in Sides : save \in d[t.child[k][s]] => Before(s, key, k)

LEMMA SearchEnds ==
  ASSUME NEW t, NEW d, Shape(t, d), NEW key \in Key
  PROVE  LET s == SearchAuxiliary(t, key)
         IN  /\ s.found \in {Nil, key} /\ (s.found = key <=> key \in d[t.root])
             /\ s.found = Nil => LeafFor(t, d, key, s.save)
<1>. DEFINE D    == Place \X Place
            Stop == {at \in D : at[1] \in {Nil, key}}
            nxt  == [at \in D |-> IF at[1] \in {Nil, key} THEN at
                                  ELSE <<t.child[at[1]][Dir(at[1], key)], at[1]>>]
            m    == [at \in D |-> Cardinality(d[at[1]])]
            F    == Search(t, key)
            P    == {at \in D : Sought(t, d, key, at)}
<1>1. /\ Nil \notin Key /\ t.root \in Place /\ d[Nil] = {} /\ \A k \in Place : d[k] \subseteq Key
      /\ \A k \in Key : Dir(k, key) \in Sides
  BY SideFacts, DirFacts DEF Shape, Subtrees, Trees
<1>2. Descends(D, Stop, nxt, m, Cardinality(Key))
  <2>0. \A at \in D : at[1] \in Place /\ at[2] \in Place
    OBVIOUS
  <2>1. nxt \in [D -> D]
    <3>1. ASSUME NEW at \in D, at[1] \notin {Nil, key}
          PROVE  <<t.child[at[1]][Dir(at[1], key)], at[1]>> \in D
      <4>1. at[1] \in Key
        BY <2>0, <3>1 DEF Place
      <4>2. t.child[at[1]][Dir(at[1], key)] \in Place
        BY <4>1, <1>1, ShapeFacts
      <4>. QED
        BY <2>0, <4>2
    <3>. QED
      BY <3>1
  <2>2. m \in [D -> Nat] /\ \A at \in D : m[at] <= Cardinality(Key)
    BY <2>0, Smaller
  <2>3. ASSUME NEW at \in D \ Stop PROVE m[nxt[at]] < m[at]
    <3>1. at[1] \in Key /\ at[1] \notin {Nil, key}
      BY <2>0 DEF Place
    <3>2. nxt[at] = <<t.child[at[1]][Dir(at[1], key)], at[1]>> /\ nxt[at] \in D
      BY <2>1, <3>1
    <3>3. m[nxt[at]] = Cardinality(d[t.child[at[1]][Dir(at[1], key)]]) /\ m[at] = Cardinality(d[at[1]])
      BY <3>2
    <3>. QED
      BY <3>1, <3>3, <1>1, Smaller
  <2>4. Cardinality(Key) \in Nat
    BY Smaller
  <2>. QED
    BY <2>1, <2>2, <2>3, <2>4 DEF Descends
<1>3. F = SearchBody(F, t, key)
  <2>1. ASSUME NEW f \in [D -> D], Iterates(f, D, Stop, nxt)
        PROVE  f = SearchBody(f, t, key)
    <3>1. ASSUME NEW at \in D
          PROVE  f[at] = IF at[1] \in {Nil, key} THEN at
                         ELSE f[<<t.child[at[1]][IF at[1] > key THEN "left" ELSE "right"], at[1]>>]
      BY <2>1 DEF Iterates, Dir
    <3>. QED
      BY <3>1 DEF SearchBody
  <2>2. \E f \in [D -> D] : Iterates(f, D, Stop, nxt)
    <3>. HIDE DEF D, Stop, nxt, m
    <3>. QED
      BY <1>2, LoopExists
  <2>3. \E f : f = SearchBody(f, t, key)
    BY <2>1, <2>2
  <2>. QED
    BY <2>3, Zenon DEF Search
<1>4. Iterates(F, D, Stop, nxt)
  <2>. HIDE DEF F
  <2>1. ASSUME NEW at \in D
        PROVE  F[at] = IF at[1] \in {Nil, key} THEN at ELSE F[nxt[at]]
    BY <1>3, Zenon DEF SearchBody, Dir
  <2>. QED
    BY <2>1 DEF Iterates
<1>5. Closed(P, D, Stop, nxt)
  <2>1. ASSUME NEW at \in P \ Stop PROVE nxt[at] \in P
    <3>1. at \in D /\ at[1] \notin {Nil, key} /\ Sought(t, d, key, at)
      OBVIOUS
    <3>2. nxt[at] = <<t.child[at[1]][Dir(at[1], key)], at[1]>> /\ nxt[at] \in D
      BY <3>1, <1>2 DEF Descends
    <3>. QED
      BY <3>1, <3>2, SoughtOn
  <2>. QED
    BY <2>1 DEF Closed
<1>6. <<t.root, Nil>> \in P
  <2>. DEFINE at == <<t.root, Nil>>
  <2>1. at \in D /\ at[1] = t.root /\ at[2] = Nil
    BY <1>1 DEF Place
  <2>2. \A k \in Key, s \in Sides : Nil \notin d[t.child[k][s]]
    BY <1>1, ShapeFacts
  <2>3. t.root \in d[t.root] \cup {Nil}
    BY ShapeFacts
  <2>. HIDE DEF at
  <2>4. Sought(t, d, key, at)
    BY <2>1, <2>2, <2>3 DEF Sought
  <2>. QED
    BY <2>1, <2>4 DEF at
<1>. DEFINE end == F[<<t.root, Nil>>]
<1>7. end \in P /\ end \in Stop
  <2>. HIDE DEF F, P, D, Stop, nxt, m
  <2>. QED
    BY <1>2, <1>4, <1>5, <1>6, LoopKeeps
<1>8. SearchAuxiliary(t, key).found = end[1] /\ SearchAuxiliary(t, key).save = end[2]
  BY SearchIs
<1>9. /\ Sought(t, d, key, end) /\ end[1] \in {Nil, key}
  BY <1>7
<1>. HIDE DEF end, F
<1>10. end[1] = key <=> key \in d[t.root]
  BY <1>1, <1>9 DEF Sought
<1>11. end[1] = Nil => LeafFor(t, d, key, end[2])
  BY <1>1, <1>9, <1>10 DEF Sought, LeafFor
<1>. QED
  BY <1>8, <1>9, <1>10, <1>11

-----------------------------------------------------------------------------
(***************************************************************************)
(* An insert hangs a red leaf where the search has ended.                  *)
(***************************************************************************)
HungLeaf(r, t, key, save) ==
  /\ r \in Trees /\ r.red = t.red \cup {key}
  /\ r.root = IF save = Nil THEN key ELSE t.root
  /\ \A k \in Key, s \in Sides :
       r.child[k][s] = IF k = save /\ s = Dir(save, key) THEN key ELSE t.child[k][s]
  /\ \A k \in Key : r.parent[k] = IF k = key THEN save ELSE t.parent[k]

WithKey(d, key, save) ==
  [k \in Place |-> IF save # Nil /\ save \in d[k] THEN d[k] \cup {key} ELSE d[k]]

LEMMA InsertLinks ==
  ASSUME NEW d, Shape(tree, d), NEW key \in Key, Insert(key)
  PROVE  \E save : HungLeaf(tree', tree, key, save) /\ LeafFor(tree, d, key, save)
<1>. DEFINE save == SearchAuxiliary(tree, key).save
            new == [tree EXCEPT !.child[key] = NoLinks, !.parent[key] = save, !.red = @ \cup {key}]
            dir == Dir(save, key)
            r == IF save = Nil THEN [new EXCEPT !.root = key] ELSE SetChild(new, save, dir, key)
<1>1. SearchAuxiliary(tree, key).found = Nil
  BY DEF Insert
<1>2. LeafFor(tree, d, key, save)
  BY <1>1, SearchEnds
<1>3. tree' = r
  BY DEF Insert, SetChild, Dir
<1>. HIDE DEF save
<1>4. /\ tree \in Trees /\ Nil \notin Key /\ tree.child[key] = NoLinks
      /\ save \in Place /\ NoLinks \in [Sides -> Place] /\ key \in Place
  <2>1. tree \in Trees /\ Nil \notin Key /\ tree.child[key] = NoLinks
    BY <1>2, SideFacts DEF Shape, Outside, LeafFor
  <2>2. d[tree.root] \subseteq Key
    BY DEF Shape, Subtrees, Trees
  <2>. QED
    BY <2>1, <2>2, <1>2 DEF LeafFor, NoLinks, Place
<1>5. /\ new \in Trees /\ new.root = tree.root /\ new.red = tree.red \cup {key}
      /\ \A k \in Key, s \in Sides : new.child[k][s] = tree.child[k][s]
      /\ \A k \in Key : new.parent[k] = IF k = key THEN save ELSE tree.parent[k]
  <2>1. new \in Trees /\ new.root = tree.root /\ new.red = tree.red \cup {key}
    BY <1>4 DEF Trees
  <2>2. new.child = [tree.child EXCEPT ![key] = NoLinks] /\ new.parent = [tree.parent EXCEPT ![key] = save]
    BY <1>4 DEF Trees
  <2>3. \A k \in Key, s \in Sides : new.child[k][s] = tree.child[k][s]
    BY <2>2, <1>4 DEF Trees
  <2>4. \A k \in Key : new.parent[k] = IF k = key THEN save ELSE tree.parent[k]
    BY <2>2, <1>4 DEF Trees
  <2>. QED
    BY <2>1, <2>3, <2>4
<1>. HIDE DEF new
<1>6. HungLeaf(r, tree, key, save)
  <2>1. CASE save = Nil
    BY <2>1, <1>4, <1>5, RootSet DEF HungLeaf
  <2>2. CASE save # Nil
    <3>1. save \in Key /\ dir \in Sides /\ new \in Trees /\ key \in Place
      BY <2>2, <1>4, <1>5, DirFacts DEF Place
    <3>. DEFINE set == SetChild(new, save, dir, key)
    <3>. HIDE DEF dir
    <3>2. /\ set \in Trees /\ set.root = new.root /\ set.parent = new.parent /\ set.red = new.red
          /\ \A j \in Key, u \in Sides :
               set.child[j][u] = IF j = save /\ u = dir THEN key ELSE new.child[j][u]
      BY <3>1, ChildSet
    <3>. HIDE DEF set
    <3>3. HungLeaf(set, tree, key, save)
      BY <2>2, <3>2, <1>5 DEF HungLeaf, dir
    <3>. QED
      BY <2>2, <3>3 DEF set
  <2>. QED
    BY <2>1, <2>2
<1>. HIDE DEF r
<1>. QED
  BY <1>2, <1>3, <1>6

LEMMA InsertRight ==
  ASSUME NEW d, NEW b, TreeRight(d, b), NEW key \in Key, Insert(key)
  PROVE  \E e, c : TreeRight(e, c)' /\ e[tree'.root] = d[tree.root] \cup {key}
<1>1. /\ Shape(tree, d) /\ Reds(tree, d, "idle", node) /\ Heights(tree, b, NoGap)
      /\ pc' = "insert" /\ node' = key /\ parent' = parent /\ node = Nil
  BY RunningInsert DEF TreeRight, Right, Insert
<1>2. PICK save : HungLeaf(tree', tree, key, save) /\ LeafFor(tree, d, key, save)
  BY <1>1, InsertLinks
<1>. DEFINE r == tree'
            e == WithKey(d, key, save)
            c == [b EXCEPT ![key] = 0]
            dir == Dir(save, key)
<1>3. /\ r \in Trees /\ r.red = tree.red \cup {key} /\ r.root = IF save = Nil THEN key ELSE tree.root
      /\ \A k \in Key, s \in Sides :
           r.child[k][s] = IF k = save /\ s = dir THEN key ELSE tree.child[k][s]
      /\ \A k \in Key : r.parent[k] = IF k = key THEN save ELSE tree.parent[k]
  BY <1>2 DEF HungLeaf
<1>4. /\ tree.root \in Place /\ d[Nil] = {} /\ Nil \notin Key /\ d[tree.root] \subseteq Key
      /\ \A k \in Place : d[k] \subseteq Key
      /\ \A k \in Key, s \in Sides : tree.child[k][s] \in Place
  BY <1>1, SideFacts, ShapeFacts DEF Shape, Subtrees, Trees
<1>. HIDE DEF r, dir
<1>5. /\ tree.child[key] = NoLinks /\ tree.parent[key] = Nil /\ d[key] = {key}
      /\ \A s \in Sides : tree.child[key][s] = Nil
      /\ \A k \in Key, s \in Sides : tree.child[k][s] # key
      /\ \A k \in Key : key \in d[k] => k = key
  <2>1. tree.child[key] = NoLinks /\ tree.parent[key] = Nil
    BY <1>1, <1>2 DEF Shape, Outside, LeafFor
  <2>2. \A s \in Sides : tree.child[key][s] = Nil
    BY <2>1 DEF NoLinks
  <2>3. d[key] = {key}
    BY <2>2, <1>1, <1>4 DEF Shape, Subtrees, Sides
  <2>4. \A k \in Key, s \in Sides : tree.child[k][s] # key
    BY <2>1, <1>1, <1>4 DEF Shape, LinksUp
  <2>5. ASSUME NEW k \in Key, key \in d[k], k # key PROVE FALSE
    <3>1. tree.parent[key] \in d[k]
      BY <2>5, <1>1 DEF Shape, Hangs
    <3>. QED
      BY <2>1, <3>1, <1>4 DEF Place
  <2>. QED
    BY <2>1, <2>2, <2>3, <2>4, <2>5
<1>6. /\ save # Nil => save \in Key /\ save \in d[tree.root] /\ dir \in Sides /\ save # key
                       /\ tree.child[save][dir] = Nil /\ Before(dir, key, save)
      /\ save = Nil => tree.root = Nil
      /\ \A k \in Key, s \in Sides : save \in d[tree.child[k][s]] => Before(s, key, k)
      /\ key \notin d[tree.root] /\ save \in Place
  BY <1>2, <1>4, DirFacts DEF LeafFor, dir, Place
<1>7. /\ e \in [Place -> SUBSET Key]
      /\ \A k \in Place : e[k] = IF save # Nil /\ save \in d[k] THEN d[k] \cup {key} ELSE d[k]
  BY <1>4 DEF WithKey
<1>. HIDE DEF e
<1>8. e[Nil] = {} /\ e[key] = {key}
  <2>1. save \notin d[key]
    BY <1>5, <1>6
  <2>. QED
    BY <2>1, <1>4, <1>5, <1>7 DEF Place
<1>9. \A k \in Key, s \in Sides :
        e[r.child[k][s]] = IF k = save /\ s = dir THEN {key} ELSE e[tree.child[k][s]]
  BY <1>3, <1>8
<1>10. Subtrees(r, e)
  <2>1. ASSUME NEW k \in Key
        PROVE  e[k] = {k} \cup e[r.child[k]["left"]] \cup e[r.child[k]["right"]]
    <3>1. d[k] = {k} \cup d[tree.child[k]["left"]] \cup d[tree.child[k]["right"]]
      BY <1>1 DEF Shape, Subtrees
    <3>2. \A s \in Sides : e[tree.child[k][s]] =
             IF save # Nil /\ save \in d[tree.child[k][s]]
             THEN d[tree.child[k][s]] \cup {key} ELSE d[tree.child[k][s]]
      BY <1>4, <1>7
    <3>3. e[k] = IF save # Nil /\ save \in d[k] THEN d[k] \cup {key} ELSE d[k]
      BY <1>7 DEF Place
    <3>4. CASE k # save
      <4>1. \A s \in Sides : e[r.child[k][s]] = e[tree.child[k][s]]
        BY <3>4, <1>9
      <4>. QED
        BY <3>1, <3>2, <3>3, <3>4, <4>1 DEF Sides
    <3>5. CASE k = save
      <4>1. \A s \in Sides : save \notin d[tree.child[k][s]]
        BY <3>5, <1>1, ShapeFacts
      <4>2. save # Nil /\ save \in d[k]
        BY <3>5, <1>1, <1>4, ShapeFacts
      <4>3. \A s \in Sides : e[r.child[k][s]] = IF s = dir THEN {key} ELSE d[tree.child[k][s]]
        BY <3>2, <3>5, <4>1, <1>9
      <4>4. d[tree.child[k][dir]] = {} /\ dir \in Sides
        BY <3>5, <4>2, <1>4, <1>6
      <4>. QED
        BY <3>1, <3>3, <4>2, <4>3, <4>4 DEF Sides
    <3>. QED
      BY <3>4, <3>5
  <2>2. ASSUME NEW k \in Key, NEW j \in e[k] PROVE e[j] \subseteq e[k]
    <3>1. CASE j = key
      BY <2>2, <3>1, <1>8
    <3>2. CASE j # key
      <4>1. j \in d[k] /\ j \in Key
        BY <3>2, <1>4, <1>7 DEF Place
      <4>2. d[j] \subseteq d[k]
        BY <4>1, <1>1 DEF Shape, Subtrees
      <4>. QED
        BY <4>1, <4>2, <1>7 DEF Place
    <3>. QED
      BY <3>1, <3>2
  <2>. QED
    BY <2>1, <2>2, <1>7, <1>8 DEF Subtrees
<1>11. Sorted(r, e)
  <2>. SUFFICES ASSUME NEW k \in Key, NEW s \in Sides, NEW j \in e[r.child[k][s]]
                PROVE  Before(s, j, k)
    BY DEF Sorted
  <2>1. CASE k = save /\ s = dir
    BY <2>1, <1>4, <1>6, <1>9
  <2>2. CASE ~ (k = save /\ s = dir)
    <3>1. j \in e[tree.child[k][s]]
      BY <2>2, <1>9
    <3>2. j \in d[tree.child[k][s]] \/ (j = key /\ save \in d[tree.child[k][s]])
      BY <3>1, <1>4, <1>7
    <3>. QED
      BY <3>2, <1>1, <1>6 DEF Shape, Sorted
  <2>. QED
    BY <2>1, <2>2
<1>12. LinksUp(r)
  <2>1. r.root # Nil => r.parent[r.root] = Nil
    <3>1. CASE save = Nil
      BY <3>1, <1>3
    <3>2. CASE save # Nil
      <4>1. tree.root \in Key /\ tree.parent[tree.root] = Nil /\ tree.root # key
        BY <3>2, <1>1, <1>4, <1>6, ShapeFacts
      <4>. QED
        BY <3>2, <4>1, <1>3
    <3>. QED
      BY <3>1, <3>2
  <2>2. ASSUME NEW k \in Key, NEW s \in Sides, r.child[k][s] # Nil
        PROVE  r.parent[r.child[k][s]] = k
    <3>1. CASE k = save /\ s = dir
      BY <3>1, <1>3
    <3>2. CASE ~ (k = save /\ s = dir)
      <4>1. r.child[k][s] = tree.child[k][s] /\ tree.child[k][s] \in Key /\ tree.child[k][s] # key
        BY <2>2, <3>2, <1>3, <1>4, <1>5 DEF Place
      <4>. QED
        BY <2>2, <4>1, <1>1, <1>3 DEF Shape, LinksUp
    <3>. QED
      BY <3>1, <3>2
  <2>. QED
    BY <2>1, <2>2 DEF LinksUp
<1>13. Hangs(r, e)
  <2>. SUFFICES ASSUME NEW k \in Key, NEW j \in e[k], j # k
                PROVE  r.parent[j] \in e[k] /\ \E s \in Sides : r.child[r.parent[j]][s] = j
    BY DEF Hangs
  <2>0. d[k] \subseteq e[k] /\ j \in Key
    BY <1>7 DEF Place
  <2>1. CASE j = key
    <3>1. save # Nil /\ save \in d[k]
      BY <2>1, <1>5, <1>7 DEF Place
    <3>. QED
      BY <2>0, <2>1, <3>1, <1>3, <1>6
  <2>2. CASE j # key
    <3>1. j \in d[k]
      BY <2>2, <1>7 DEF Place
    <3>2. tree.parent[j] \in d[k] /\ \E s \in Sides : tree.child[tree.parent[j]][s] = j
      BY <3>1, <1>1 DEF Shape, Hangs
    <3>3. PICK s \in Sides : tree.child[tree.parent[j]][s] = j
      BY <3>2
    <3>4. tree.parent[j] \in Key /\ r.parent[j] = tree.parent[j]
      BY <2>0, <2>2, <3>2, <1>3, <1>4 DEF Place
    <3>5. r.child[tree.parent[j]][s] = j
      BY <2>0, <3>3, <3>4, <1>3, <1>4, <1>6
    <3>. QED
      BY <2>0, <3>2, <3>4, <3>5
  <2>. QED
    BY <2>1, <2>2
<1>14. e[r.root] = d[tree.root] \cup {key}
  <2>1. CASE save = Nil
    BY <2>1, <1>3, <1>4, <1>6, <1>8
  <2>2. CASE save # Nil
    BY <2>2, <1>3, <1>4, <1>6, <1>7
  <2>. QED
    BY <2>1, <2>2
<1>15. Outside(r, e)
  <2>. SUFFICES ASSUME NEW k \in Key \ (d[tree.root] \cup {key})
                PROVE  r.child[k] = NoLinks /\ r.parent[k] = Nil
    BY <1>14 DEF Outside
  <2>1. tree.child[k] = NoLinks /\ tree.parent[k] = Nil /\ k # save
    BY <1>1, <1>4, <1>6 DEF Shape, Outside
  <2>2. r.parent[k] = Nil /\ \A s \in Sides : r.child[k][s] = Nil
    BY <2>1, <1>3 DEF NoLinks
  <2>3. r.child[k] \in [Sides -> Place]
    BY <1>3 DEF Trees
  <2>. QED
    BY <2>2, <2>3 DEF NoLinks
<1>16. Shape(r, e)
  BY <1>3, <1>10, <1>11, <1>12, <1>13, <1>15 DEF Shape
<1>17. Reds(r, e, "insert", key)
  <2>1. ASSUME NEW k \in r.red, k # key PROVE r.parent[k] # Nil /\ r.parent[k] \notin r.red
    <3>1. k \in tree.red /\ k \in Key
      BY <2>1, <1>1, <1>3, <1>4 DEF Reds
    <3>2. tree.parent[k] # Nil /\ tree.parent[k] \notin tree.red
      BY <3>1, <1>1 DEF Reds
    <3>3. tree.parent[k] # key
      <4>1. "left" \in Sides
        BY DEF Sides
      <4>2. tree.parent[k] = key => k \in {tree.child[key]["left"], tree.child[key][Opposite("left")]}
        BY <3>1, <4>1, <1>1, Children
      <4>. QED
        BY <3>1, <4>1, <4>2, <1>4, <1>5, SideFacts
    <3>. QED
      BY <2>1, <3>1, <3>2, <3>3, <1>3
  <2>. QED
    BY <2>1, <1>1, <1>3, <1>14 DEF Reds
<1>18. Heights(r, c, NoGap)
  <2>0. \A k \in Key, s \in Sides : NoGap # <<k, s>>
    BY <1>4 DEF NoGap
  <2>. HIDE DEF NoGap
  <2>1. /\ c \in [Place -> Nat] /\ c[key] = 0 /\ c[Nil] = 0 /\ b[Nil] = 0
        /\ \A k \in Place \ {key} : c[k] = b[k]
    BY <1>1, <1>4 DEF Heights, Place
  <2>. HIDE DEF c
  <2>2. \A k \in Key, s \in Sides :
          /\ b[k] = b[tree.child[k][s]] + (IF k \in tree.red THEN 0 ELSE 1)
          /\ b[tree.child[k][s]] \in Nat
    BY <2>0, <1>1, <1>4 DEF Heights
  <2>3. ASSUME NEW k \in Key, NEW s \in Sides
        PROVE  c[k] = c[r.child[k][s]] + 0 + (IF k \in r.red THEN 0 ELSE 1)
    <3>1. CASE k = key
      <4>1. r.child[k][s] = Nil
        BY <3>1, <1>3, <1>5, <1>6
      <4>. QED
        BY <3>1, <4>1, <2>1, <1>3
    <3>2. CASE k # key
      <4>1. c[r.child[k][s]] = b[tree.child[k][s]]
        BY <2>1, <1>3, <1>4, <1>5, <1>6
      <4>2. c[k] = b[k] /\ (k \in r.red <=> k \in tree.red)
        BY <3>2, <2>1, <1>3 DEF Place
      <4>. QED
        BY <2>2, <4>1, <4>2
    <3>. QED
      BY <3>1, <3>2
  <2>. QED
    BY <2>0, <2>1, <2>3 DEF Heights
<1>19. Right(r, "insert", key, parent, e, c)
  <2>. HIDE DEF c
  <2>. QED
    BY <1>3, <1>16, <1>17, <1>18, RunningInsert DEF Right
<1>. QED
  BY <1>1, <1>19, <1>14 DEF TreeRight, r

-----------------------------------------------------------------------------
(***************************************************************************)
(* The next larger key, of a node with two children.                       *)
(***************************************************************************)
(* No key of the rest of the tree is between two of a subtree.             *)
LEMMA Apart ==
  ASSUME NEW t, NEW d, Shape(t, d), NEW x \in d[t.root], NEW y \in d[x],
         NEW j \in d[t.root], j \notin d[x]
  PROVE  \A s \in Sides : Before(s, j, x) <=> Before(s, j, y)
<1>. DEFINE Common(k) == k \in Key /\ x \in d[k] /\ j \in d[k]
            size(k) == Cardinality(d[k])
            Good(n) == \E k \in Key : Common(k) /\ size(k) = n
<1>1. /\ t.root \in Key /\ x \in Key /\ j \in Key /\ y \in Key /\ d[x] \subseteq Key /\ x \in d[x]
      /\ \A k \in Key : size(k) \in Nat /\ d[k] \subseteq Key /\ \A i \in d[k] : d[i] \subseteq d[k]
  <2>1. t.root \in Key
    BY ShapeFacts, SideFacts DEF Shape, Subtrees
  <2>2. \A k \in Key : size(k) \in Nat
    BY Smaller DEF Place
  <2>. QED
    BY <2>1, <2>2, ShapeFacts DEF Shape, Subtrees
<1>0. d[Nil] = {} /\ \A k \in Key, s \in Sides : t.child[k][s] \in Place
  BY ShapeFacts DEF Shape, Subtrees
<1>2. PICK k \in Key : Common(k) /\ \A i \in Key : Common(i) => size(k) <= size(i)
  <2>. DEFINE S == {n \in Nat : Good(n)}
  <2>1. size(t.root) \in S
    BY <1>1
  <2>2. S \subseteq Nat /\ S # {}
    BY <2>1
  <2>. HIDE DEF S
  <2>3. PICK n \in S : \A m \in S : n <= m
    BY <2>2, LeastNat
  <2>4. PICK k \in Key : Common(k) /\ size(k) = n
    BY <2>3 DEF S
  <2>5. ASSUME NEW i \in Key, Common(i) PROVE size(k) <= size(i)
    <3>1. size(i) \in S
      BY <2>5, <1>1 DEF S
    <3>. QED
      BY <2>3, <2>4, <3>1
  <2>. QED
    BY <2>4, <2>5
<1>3. ASSUME NEW s \in Sides, x \in d[t.child[k][s]] PROVE j \notin d[t.child[k][s]]
  <2>1. size(t.child[k][s]) < size(k)
    BY Smaller
  <2>2. t.child[k][s] \in Key
    BY <1>0, <1>3 DEF Place
  <2>3. size(t.child[k][s]) \in Nat /\ size(k) \in Nat
    BY <2>2, <1>1
  <2>4. ~ (size(k) <= size(t.child[k][s]))
    <3>. HIDE DEF size
    <3>. QED
      BY <2>1, <2>3
  <2>. HIDE DEF size
  <2>. QED
    BY <2>2, <2>4, <1>2, <1>3
<1>4. k # x
  BY <1>2
<1>5. PICK s \in Sides : x \in d[t.child[k][s]]
  <2>1. d[k] = {k} \cup d[t.child[k]["left"]] \cup d[t.child[k]["right"]]
    BY DEF Shape, Subtrees
  <2>. QED
    BY <2>1, <1>2, <1>4 DEF Sides
<1>6. Before(s, x, k) /\ Before(s, y, k)
  <2>1. t.child[k][s] \in Key
    BY <1>0, <1>5 DEF Place
  <2>2. y \in d[t.child[k][s]]
    BY <2>1, <1>1, <1>5
  <2>. QED
    BY <2>2, <1>5 DEF Shape, Sorted
<1>7. j = k \/ Before(Opposite(s), j, k)
  <2>1. j \notin d[t.child[k][s]] /\ j \in d[k]
    BY <1>2, <1>3, <1>5
  <2>2. j = k \/ j \in d[t.child[k][Opposite(s)]]
    BY <2>1, ShapeFacts
  <2>. QED
    BY <2>2, SideFacts DEF Shape, Sorted
<1>8. Before(s, x, j) /\ Before(s, y, j)
  BY <1>1, <1>6, <1>7, BeforeFacts
<1>9. ASSUME NEW u \in Sides PROVE Before(u, j, x) <=> Before(u, j, y)
  <2>1. u = s \/ u = Opposite(s)
    BY SideFacts
  <2>. QED
    BY <2>1, <1>1, <1>8, SideFacts, BeforeFacts
<1>. QED
  BY <1>9

(* The leftmost node is the least of its subtree.                          *)
LEMMA LeftmostFacts ==
  ASSUME NEW t, NEW d, Shape(t, d), NEW top \in Key
  PROVE  LET out == Leftmost(t, top)
         IN  /\ out \in d[top] /\ out \in Key /\ t.child[out]["left"] = Nil
             /\ \A j \in d[top] : j = out \/ j > out
<1>. DEFINE D    == Key
            Stop == {k \in D : t.child[k]["left"] = Nil}
            nxt  == [k \in D |-> IF t.child[k]["left"] = Nil THEN k ELSE t.child[k]["left"]]
            m    == [k \in D |-> Cardinality(d[k])]
            F    == Down(t)
            Least(k) == k \in d[top] /\ \A j \in d[top] : j \in d[k] \/ \A i \in d[k] : j > i
            P    == {k \in D : Least(k)}
<1>1. /\ "left" \in Sides /\ Opposite("left") = "right" /\ Nil \notin Key /\ Key \subseteq Int
      /\ \A k \in Key : t.child[k]["left"] \in Place /\ d[k] \subseteq Key /\ k \in d[k]
  BY SideFacts, ShapeFacts DEF Sides
<1>2. Descends(D, Stop, nxt, m, Cardinality(Key))
  <2>1. nxt \in [D -> D]
    BY <1>1 DEF Place
  <2>2. m \in [D -> Nat] /\ \A k \in D : m[k] <= Cardinality(Key)
    BY Smaller DEF Place
  <2>3. ASSUME NEW k \in D \ Stop PROVE m[nxt[k]] < m[k]
    <3>1. nxt[k] = t.child[k]["left"] /\ nxt[k] \in D
      BY <2>1
    <3>2. m[nxt[k]] = Cardinality(d[t.child[k]["left"]]) /\ m[k] = Cardinality(d[k])
      BY <3>1
    <3>. QED
      BY <3>2, <1>1, Smaller
  <2>4. Cardinality(Key) \in Nat
    BY Smaller
  <2>. QED
    BY <2>1, <2>2, <2>3, <2>4 DEF Descends
<1>3. F = DownBody(F, t)
  <2>1. ASSUME NEW f \in [D -> D], Iterates(f, D, Stop, nxt)
        PROVE  f = DownBody(f, t)
    <3>1. ASSUME NEW k \in D
          PROVE  f[k] = IF t.child[k]["left"] = Nil THEN k ELSE f[t.child[k]["left"]]
      BY <2>1 DEF Iterates
    <3>. QED
      BY <3>1 DEF DownBody
  <2>2. \E f \in [D -> D] : Iterates(f, D, Stop, nxt)
    <3>. HIDE DEF D, Stop, nxt, m
    <3>. QED
      BY <1>2, LoopExists
  <2>3. \E f : f = DownBody(f, t)
    BY <2>1, <2>2
  <2>. QED
    BY <2>3, Zenon DEF Down
<1>4. Iterates(F, D, Stop, nxt)
  <2>. HIDE DEF F
  <2>1. ASSUME NEW k \in D
        PROVE  F[k] = IF t.child[k]["left"] = Nil THEN k ELSE F[t.child[k]["left"]]
    BY <1>3, Zenon DEF DownBody
  <2>. QED
    BY <2>1 DEF Iterates
<1>5. Closed(P, D, Stop, nxt)
  <2>1. ASSUME NEW k \in P \ Stop PROVE nxt[k] \in P
    <3>. DEFINE l == t.child[k]["left"]
                r == t.child[k]["right"]
    <3>1. k \in Key /\ Least(k) /\ l # Nil /\ nxt[k] = l /\ l \in Key
      BY <1>1 DEF Place
    <3>2. l \in d[k] /\ d[l] \subseteq d[k] /\ d[k] \subseteq d[top] /\ d[k] = {k} \cup d[l] \cup d[r]
      <4>1. d[k] = {k} \cup d[l] \cup d[r] /\ d[k] \subseteq d[top]
        BY <3>1 DEF Shape, Subtrees
      <4>2. l \in d[l]
        BY <3>1, <1>1
      <4>. QED
        BY <4>1, <4>2
    <3>3. \A i \in d[l] : i \in Key /\ i < k
      BY <3>1, <1>1 DEF Shape, Sorted, Before
    <3>4. \A j \in d[r] : j \in Key /\ j > k
      <4>1. "right" \in Sides
        BY DEF Sides
      <4>. QED
        BY <3>1, <3>2, <4>1, <1>1 DEF Shape, Sorted, Before
    <3>. HIDE DEF l, r
    <3>5. ASSUME NEW j \in d[top], j \notin d[l], NEW i \in d[l] PROVE j > i
      <4>1. CASE j \in d[k]
        <5>1. j = k \/ j \in d[r]
          BY <4>1, <3>2, <3>5
        <5>2. i \in Int /\ j \in Int /\ k \in Int /\ i < k /\ (j = k \/ j > k)
          BY <5>1, <3>1, <3>3, <3>4, <1>1
        <5>. QED
          BY <5>2
      <4>2. CASE j \notin d[k]
        BY <4>2, <3>1, <3>2, <3>5
      <4>. QED
        BY <4>1, <4>2
    <3>6. Least(l)
      BY <3>1, <3>2, <3>5
    <3>. QED
      BY <3>1, <3>6
  <2>. QED
    BY <2>1 DEF Closed
<1>6. top \in P
  BY <1>1
<1>. DEFINE end == F[top]
<1>7. end \in P /\ end \in Stop
  <2>. HIDE DEF F, P, D, Stop, nxt, m
  <2>. QED
    BY <1>2, <1>4, <1>5, <1>6, LoopKeeps
<1>8. Leftmost(t, top) = end
  BY DownIs
<1>9. end \in Key /\ Least(end) /\ t.child[end]["left"] = Nil
  BY <1>7
<1>. HIDE DEF end, F
<1>10. ASSUME NEW j \in d[top], j # end PROVE j > end
  <2>1. CASE j \in d[end]
    <3>1. d[end] = {end} \cup d[t.child[end]["right"]] \cup d[t.child[end]["left"]] /\ d[Nil] = {}
      BY <1>9 DEF Shape, Subtrees
    <3>2. j \in d[t.child[end]["right"]] /\ "right" \in Sides
      BY <2>1, <3>1, <1>9, <1>10 DEF Sides
    <3>. QED
      BY <3>2, <1>9 DEF Shape, Sorted, Before
  <2>2. CASE j \notin d[end]
    BY <2>2, <1>1, <1>9
  <2>. QED
    BY <2>1, <2>2
<1>. QED
  BY <1>8, <1>9, <1>10

-----------------------------------------------------------------------------
(***************************************************************************)
(* A node with at most one child is taken out: what is below it comes up.  *)
(***************************************************************************)
TakenOut(r, t, out, below, above) ==
  /\ r \in Trees /\ r.red = t.red \ {out} /\ r.root = IF above = Nil THEN below ELSE t.root
  /\ \A k \in Key, s \in Sides :
       r.child[k][s] = IF k = out THEN Nil
                       ELSE IF t.child[k][s] = out THEN below ELSE t.child[k][s]
  /\ \A k \in Key :
       r.parent[k] = IF k = out THEN Nil ELSE IF k = below THEN above ELSE t.parent[k]

Without(d, out) == [k \in Place |-> IF k = out THEN {out} ELSE d[k] \ {out}]

LEMMA InTree ==
  ASSUME NEW t, NEW d, Shape(t, d), NEW out \in d[t.root]
  PROVE  /\ t \in Trees /\ Nil \notin Key /\ d[Nil] = {} /\ out \in Key /\ t.root \in Key
         /\ \A k \in Place : d[k] \subseteq Key /\ (k \in Key => k \in d[k])
         /\ \A k \in Key, s \in Sides : t.child[k][s] \in Place
         /\ \A k \in Key : t.parent[k] \in Place
         /\ t.parent[t.root] = Nil
<1>1. /\ t \in Trees /\ Nil \notin Key /\ d[Nil] = {} /\ t.root \in Place
      /\ \A k \in Place : d[k] \subseteq Key
  BY SideFacts DEF Shape, Subtrees, Trees
<1>2. out \in Key /\ t.root \in Key
  BY <1>1 DEF Place
<1>3. /\ \A k \in Key : k \in d[k]
      /\ \A k \in Key, s \in Sides : t.child[k][s] \in Place
      /\ t.parent[t.root] = Nil
  BY <1>1, <1>2, ShapeFacts
<1>4. \A k \in Key : t.parent[k] \in Place
  BY <1>1 DEF Trees
<1>. QED
  BY <1>1, <1>2, <1>3, <1>4

LEMMA TakenOutShape ==
  ASSUME NEW t, NEW d, Shape(t, d), NEW out \in d[t.root], NEW side \in Sides,
         t.child[out][Opposite(side)] = Nil, NEW below, below = t.child[out][side],
         NEW above, above = t.parent[out], NEW r, TakenOut(r, t, out, below, above)
  PROVE  Shape(r, Without(d, out)) /\ Without(d, out)[r.root] = d[t.root] \ {out}
<1>. DEFINE e == Without(d, out)
<1>1. /\ t \in Trees /\ Nil \notin Key /\ d[Nil] = {} /\ out \in Key /\ t.root \in Key
      /\ \A k \in Place : d[k] \subseteq Key /\ (k \in Key => k \in d[k])
      /\ \A k \in Key, s \in Sides : t.child[k][s] \in Place
      /\ \A k \in Key : t.parent[k] \in Place
      /\ t.parent[t.root] = Nil /\ above \in Place /\ below \in Place
  BY InTree
<1>2. /\ d[out] = {out} \cup d[below] /\ out \notin d[below] /\ below # out /\ above # out
      /\ below # Nil => t.parent[below] = out /\ below \in d[out]
      /\ \A s \in Sides : t.child[out][s] \in {Nil, below}
  <2>1. d[out] = {out} \cup d[below] /\ out \notin d[below]
    BY <1>1, ShapeFacts
  <2>2. below # Nil => t.parent[below] = out /\ below \in d[out] /\ below # out
    BY <1>1, ShapeFacts
  <2>3. \A s \in Sides : t.child[out][s] \in {Nil, below}
    <3>1. \A s \in Sides : s = side \/ s = Opposite(side)
      BY SideFacts
    <3>. QED
      BY <3>1
  <2>. QED
    BY <2>1, <2>2, <2>3, <1>1, NotOwnParent
<1>3. \A k \in Key : t.parent[k] = out => k = below
  <2>1. \A k \in Key : t.parent[k] = out => k \in {t.child[out][side], t.child[out][Opposite(side)]}
    BY <1>1, Children
  <2>. QED
    BY <2>1, <1>1
<1>4. above = Nil <=> out = t.root
  <2>1. out # t.root => t.parent[out] \in Key
    BY ShapeFacts
  <2>. QED
    BY <2>1, <1>1
<1>5. /\ r \in Trees /\ r.root = IF above = Nil THEN below ELSE t.root
      /\ \A s \in Sides : r.child[out][s] = Nil
      /\ \A k \in Key \ {out}, s \in Sides :
           r.child[k][s] = IF t.child[k][s] = out THEN below ELSE t.child[k][s]
      /\ r.parent[out] = Nil
      /\ \A k \in Key \ {out} : r.parent[k] = IF k = below THEN above ELSE t.parent[k]
  BY <1>1 DEF TakenOut
<1>6. /\ e \in [Place -> SUBSET Key] /\ e[out] = {out} /\ e[Nil] = {}
      /\ \A k \in Place \ {out} : e[k] = d[k] \ {out}
  BY <1>1 DEF Without, Place
<1>. HIDE DEF e
<1>7. \A k \in Key \ {out}, s \in Sides : e[r.child[k][s]] = d[t.child[k][s]] \ {out}
  <2>1. e[below] = d[out] \ {out}
    BY <1>1, <1>2, <1>6
  <2>. QED
    BY <2>1, <1>1, <1>5, <1>6
<1>8. Subtrees(r, e)
  <2>1. ASSUME NEW k \in Key PROVE e[k] = {k} \cup e[r.child[k]["left"]] \cup e[r.child[k]["right"]]
    <3>1. CASE k = out
      BY <3>1, <1>5, <1>6 DEF Sides
    <3>2. CASE k # out
      <4>1. d[k] = {k} \cup d[t.child[k]["left"]] \cup d[t.child[k]["right"]]
        BY DEF Shape, Subtrees
      <4>2. e[k] = d[k] \ {out}
        BY <3>2, <1>6 DEF Place
      <4>. QED
        BY <3>2, <4>1, <4>2, <1>7 DEF Sides
    <3>. QED
      BY <3>1, <3>2
  <2>2. ASSUME NEW k \in Key, NEW j \in e[k] PROVE e[j] \subseteq e[k]
    <3>1. CASE k = out
      BY <2>2, <3>1, <1>6
    <3>2. CASE k # out
      <4>1. j \in d[k] /\ j # out /\ j \in Key /\ e[k] = d[k] \ {out}
        BY <2>2, <3>2, <1>1, <1>6 DEF Place
      <4>2. d[j] \subseteq d[k]
        BY <4>1 DEF Shape, Subtrees
      <4>3. e[j] = d[j] \ {out}
        BY <4>1, <1>6 DEF Place
      <4>. QED
        BY <4>1, <4>2, <4>3
    <3>. QED
      BY <3>1, <3>2
  <2>. QED
    BY <2>1, <2>2, <1>6 DEF Subtrees
<1>9. Sorted(r, e)
  <2>. SUFFICES ASSUME NEW k \in Key, NEW s \in Sides, NEW j \in e[r.child[k][s]]
                PROVE  Before(s, j, k)
    BY DEF Sorted
  <2>1. k # out
    BY <1>5, <1>6
  <2>. QED
    BY <2>1, <1>7 DEF Shape, Sorted
<1>10. LinksUp(r)
  <2>1. r.root # Nil => r.parent[r.root] = Nil
    <3>1. CASE above = Nil
      BY <3>1, <1>1, <1>2, <1>5 DEF Place
    <3>2. CASE above # Nil
      BY <3>2, <1>1, <1>2, <1>4, <1>5
    <3>. QED
      BY <3>1, <3>2
  <2>2. ASSUME NEW k \in Key, NEW s \in Sides, r.child[k][s] # Nil
        PROVE  r.parent[r.child[k][s]] = k
    <3>1. k # out
      BY <2>2, <1>5
    <3>2. CASE t.child[k][s] = out
      <4>1. above = k
        BY <3>2, <1>1 DEF Shape, LinksUp
      <4>. QED
        BY <3>1, <3>2, <4>1, <2>2, <1>1, <1>2, <1>5 DEF Place
    <3>3. CASE t.child[k][s] # out
      <4>1. r.child[k][s] = t.child[k][s] /\ t.child[k][s] \in Key /\ t.parent[t.child[k][s]] = k
        BY <3>1, <3>3, <2>2, <1>1, <1>5 DEF Shape, LinksUp, Place
      <4>2. t.child[k][s] # below
        BY <3>1, <4>1, <1>1, <1>2
      <4>. QED
        BY <3>3, <4>1, <4>2, <1>5
    <3>. QED
      BY <3>2, <3>3
  <2>. QED
    BY <2>1, <2>2 DEF LinksUp
<1>11. Hangs(r, e)
  <2>. SUFFICES ASSUME NEW k \in Key, NEW j \in e[k], j # k
                PROVE  r.parent[j] \in e[k] /\ \E s \in Sides : r.child[r.parent[j]][s] = j
    BY DEF Hangs
  <2>1. k # out
    BY <1>6
  <2>2. /\ e[k] = d[k] \ {out} /\ j \in d[k] /\ j # out /\ j \in Key
        /\ \A i \in d[k] : i = k \/ (t.parent[i] \in d[k] /\ \E s \in Sides : t.child[t.parent[i]][s] = i)
    BY <2>1, <1>1, <1>6 DEF Shape, Hangs, Place
  <2>3. CASE j = below
    <3>1. out \in d[k]
      BY <2>2, <2>3, <1>1, <1>2
    <3>2. above \in d[k] /\ \E s \in Sides : t.child[above][s] = out
      BY <2>1, <2>2, <3>1
    <3>3. above \in Key
      BY <3>2, <1>1 DEF Place
    <3>. QED
      BY <2>2, <2>3, <3>2, <3>3, <1>2, <1>5
  <2>4. CASE j # below
    <3>1. PICK s \in Sides : t.child[t.parent[j]][s] = j
      BY <2>2
    <3>2. t.parent[j] # out /\ t.parent[j] \in d[k] /\ t.parent[j] \in Key
      BY <2>2, <2>4, <1>1, <1>3 DEF Place
    <3>. QED
      BY <2>2, <2>4, <3>1, <3>2, <1>5
  <2>. QED
    BY <2>3, <2>4
<1>12. e[r.root] = d[t.root] \ {out}
  <2>1. CASE above = Nil
    BY <2>1, <1>1, <1>2, <1>4, <1>5, <1>6
  <2>2. CASE above # Nil
    BY <2>2, <1>1, <1>4, <1>5, <1>6 DEF Place
  <2>. QED
    BY <2>1, <2>2
<1>13. Outside(r, e)
  <2>. SUFFICES ASSUME NEW k \in Key \ (d[t.root] \ {out})
                PROVE  r.child[k] = NoLinks /\ r.parent[k] = Nil
    BY <1>12 DEF Outside
  <2>1. r.child[k] \in [Sides -> Place]
    BY <1>5 DEF Trees
  <2>2. r.parent[k] = Nil /\ \A s \in Sides : r.child[k][s] = Nil
    <3>1. CASE k = out
      BY <3>1, <1>5
    <3>2. CASE k # out
      <4>1. t.child[k] = NoLinks /\ t.parent[k] = Nil /\ k \notin d[t.root]
        BY <3>2 DEF Shape, Outside
      <4>2. d[out] \subseteq d[t.root]
        BY <1>1 DEF Shape, Subtrees
      <4>3. k # below
        BY <4>1, <4>2, <1>1, <1>2
      <4>. QED
        BY <3>2, <4>1, <4>3, <1>1, <1>5 DEF NoLinks
    <3>. QED
      BY <3>1, <3>2
  <2>. QED
    BY <2>1, <2>2 DEF NoLinks
<1>14. Shape(r, e)
  BY <1>5, <1>8, <1>9, <1>10, <1>11, <1>13 DEF Shape
<1>. QED
  BY <1>12, <1>14 DEF e

(* A red node leaves no gap, a black one leaves one where it was.          *)
LEMMA TakenOutRight ==
  ASSUME NEW t, NEW d, NEW b, NEW q, Right(t, "idle", Nil, q, d, b),
         NEW out \in d[t.root], NEW side \in Sides,
         t.child[out][Opposite(side)] = Nil, NEW below, below = t.child[out][side],
         NEW above, above = t.parent[out], NEW r, TakenOut(r, t, out, below, above)
  PROVE  \E c : IF out \in t.red THEN Right(r, "idle", Nil, q, Without(d, out), c)
                                 ELSE Right(r, "erase", below, above, Without(d, out), c)
<1>. DEFINE e == Without(d, out)
            c == [b EXCEPT ![out] = 1]
            gap == IF out \in t.red THEN NoGap ELSE Gap(r, "erase", below, above)
<1>1. Shape(t, d) /\ Reds(t, d, "idle", Nil) /\ Heights(t, b, NoGap)
  BY RunningInsert DEF Right
<1>2. Shape(r, e) /\ e[r.root] = d[t.root] \ {out}
  BY <1>1, TakenOutShape
<1>. HIDE DEF e
<1>3. /\ t \in Trees /\ Nil \notin Key /\ d[Nil] = {} /\ out \in Key /\ t.root \in Key
      /\ \A k \in Place : d[k] \subseteq Key /\ (k \in Key => k \in d[k])
      /\ \A k \in Key, s \in Sides : t.child[k][s] \in Place
      /\ t.parent[t.root] = Nil /\ above \in Place /\ below \in Place
      /\ Opposite(side) \in Sides /\ \A s \in Sides : s = side \/ s = Opposite(side)
  BY <1>1, InTree, SideFacts
<1>4. /\ above # out /\ below # out /\ (below # Nil => t.parent[below] = out)
      /\ \A k \in Key : t.parent[k] = out => k = below
      /\ above = Nil <=> out = t.root
  <2>1. \A k \in Key : t.parent[k] = out => k \in {t.child[out][side], t.child[out][Opposite(side)]}
    BY <1>1, <1>3, Children
  <2>2. out # t.root => t.parent[out] \in Key
    BY <1>1, ShapeFacts
  <2>3. below # Nil => t.parent[below] = out /\ below # out
    BY <1>1, <1>3, ShapeFacts
  <2>. QED
    BY <2>1, <2>2, <2>3, <1>1, <1>3, NotOwnParent
<1>5. /\ r.red = t.red \ {out} /\ r.root = IF above = Nil THEN below ELSE t.root
      /\ \A k \in Key, s \in Sides :
           r.child[k][s] = IF k = out THEN Nil
                           ELSE IF t.child[k][s] = out THEN below ELSE t.child[k][s]
      /\ \A k \in Key :
           r.parent[k] = IF k = out THEN Nil ELSE IF k = below THEN above ELSE t.parent[k]
  BY DEF TakenOut
<1>6. /\ b \in [Place -> Nat] /\ b[Nil] = 0
      /\ \A k \in Key, s \in Sides :
           b[k] = b[t.child[k][s]] + (IF k \in t.red THEN 0 ELSE 1) /\ b[t.child[k][s]] \in Nat
  <2>1. \A k \in Key, s \in Sides : (IF NoGap = <<k, s>> THEN 1 ELSE 0) = 0
    BY <1>3 DEF NoGap
  <2>. HIDE DEF NoGap
  <2>. QED
    BY <2>1, <1>1, <1>3 DEF Heights
<1>7. /\ b[out] = b[below] + (IF out \in t.red THEN 0 ELSE 1)
      /\ b[below] \in Nat
  BY <1>3, <1>6
<1>8. /\ c \in [Place -> Nat] /\ c[out] = 1 /\ \A k \in Place \ {out} : c[k] = b[k]
      /\ c[Nil] = 0 /\ out # Nil
  BY <1>3, <1>6 DEF Place
<1>. HIDE DEF c
(* Where out hung. *)
<1>9. PICK here \in Sides : above # Nil => above \in Key /\ t.child[above][here] = out
                                          /\ above \in d[t.root]
  <2>1. Side(t, above, out) \in Sides
    BY DEF Side, Sides
  <2>2. above # Nil => above \in Key /\ t.child[above][Side(t, above, out)] = out
    BY <1>1, <1>4, ShapeFacts
  <2>3. above # Nil => above \in d[t.root]
    BY <1>1, <1>3, <1>4 DEF Shape, Hangs
  <2>. QED
    BY <2>1, <2>2, <2>3
<1>10. \A k \in Key, s \in Sides : t.child[k][s] = out <=> above # Nil /\ k = above /\ s = here
  <2>1. ASSUME NEW k \in Key, NEW s \in Sides, t.child[k][s] = out
        PROVE  above # Nil /\ k = above /\ s = here
    <3>1. t.parent[out] = k /\ t.child[k][Opposite(s)] # out
      BY <2>1, <1>1, <1>3, ShapeFacts
    <3>2. s = here \/ here = Opposite(s)
      BY SideFacts
    <3>. QED
      BY <3>1, <3>2, <1>3, <1>9
  <2>. QED
    BY <2>1, <1>9
<1>11. ASSUME out \notin t.red, above # Nil
       PROVE  below # r.root /\ Gap(r, "erase", below, above) = <<above, here>>
              /\ r.child[above][Side(r, above, below)] = below
  <2>1. below # t.root
    BY <1>3, <1>4, <1>11
  <2>2. r.child[above][here] = below
    BY <1>4, <1>5, <1>9, <1>11
  <2>3. r.child[above][Opposite(here)] # below
    <3>1. Opposite(here) \in Sides /\ Opposite(here) # here
      BY SideFacts
    <3>2. r.child[above][Opposite(here)] = t.child[above][Opposite(here)]
      BY <3>1, <1>4, <1>5, <1>9, <1>10, <1>11
    <3>3. b[t.child[above][Opposite(here)]] = b[out]
      BY <3>1, <1>6, <1>9, <1>11
    <3>. QED
      BY <3>2, <3>3, <1>7, <1>11
  <2>4. Side(r, above, below) = here
    BY <2>2, <2>3, SideIs
  <2>. QED
    BY <2>1, <2>2, <2>4, <1>5, <1>11 DEF Gap
<1>12. ASSUME above = Nil PROVE below = r.root /\ Gap(r, "erase", below, above) = NoGap
  BY <1>5, <1>12 DEF Gap
<1>. DEFINE lack(k, s) == IF gap = <<k, s>> THEN 1 ELSE 0
<1>13. \A k \in Key, s \in Sides :
         lack(k, s) = IF out \notin t.red /\ t.child[k][s] = out THEN 1 ELSE 0
  <2>1. \A k \in Key, s \in Sides : NoGap # <<k, s>>
    BY <1>3 DEF NoGap
  <2>2. CASE out \in t.red \/ above = Nil
    BY <2>1, <2>2, <1>10, <1>12
  <2>3. CASE out \notin t.red /\ above # Nil
    BY <2>3, <1>10, <1>11
  <2>. QED
    BY <2>2, <2>3
<1>14. ASSUME NEW k \in Key, NEW s \in Sides
       PROVE  c[k] = c[r.child[k][s]] + lack(k, s) + (IF k \in r.red THEN 0 ELSE 1)
  <2>0. lack(k, s) = IF out \notin t.red /\ t.child[k][s] = out THEN 1 ELSE 0
    BY <1>13
  <2>. HIDE DEF lack
  <2>1. CASE k = out
    <3>1. t.child[k][s] # out
      BY <2>1, <1>10, <1>4
    <3>. QED
      BY <2>0, <2>1, <3>1, <1>5, <1>8
  <2>2. CASE k # out /\ t.child[k][s] = out
    <3>1. c[r.child[k][s]] = b[below] /\ c[k] = b[k] /\ (k \in r.red <=> k \in t.red)
      BY <2>2, <1>3, <1>4, <1>5, <1>8 DEF Place
    <3>2. b[k] = b[out] + (IF k \in t.red THEN 0 ELSE 1)
      BY <2>2, <1>6
    <3>. QED
      BY <2>0, <2>2, <3>1, <3>2, <1>7
  <2>3. CASE k # out /\ t.child[k][s] # out
    <3>1. c[r.child[k][s]] = b[t.child[k][s]] /\ c[k] = b[k] /\ (k \in r.red <=> k \in t.red)
      BY <2>3, <1>3, <1>5, <1>8 DEF Place
    <3>2. b[k] = b[t.child[k][s]] + (IF k \in t.red THEN 0 ELSE 1) /\ b[t.child[k][s]] \in Nat
      BY <1>6
    <3>. QED
      BY <2>0, <2>3, <3>1, <3>2
  <2>. QED
    BY <2>1, <2>2, <2>3
<1>15. Heights(r, c, gap)
  <2>. HIDE DEF gap
  <2>. QED
    BY <1>8, <1>14 DEF Heights
<1>. HIDE DEF gap
<1>16. ASSUME NEW k \in r.red, k # below
       PROVE  r.parent[k] # Nil /\ r.parent[k] \notin r.red
  <2>1. k \in Key /\ k # out /\ k \in t.red
    BY <1>3, <1>5, <1>16 DEF Trees
  <2>. QED
    BY <2>1, <1>1, <1>5, <1>16 DEF Reds
<1>17. r.red \subseteq e[r.root]
  BY <1>1, <1>2, <1>5 DEF Reds
<1>18. CASE out \in t.red
  <2>1. below \notin t.red
    <3>1. below \in t.red => below # Nil
      BY <1>3 DEF Trees
    <3>. QED
      BY <3>1, <1>1, <1>4, <1>18 DEF Reds
  <2>2. Reds(r, e, "idle", Nil)
    BY <2>1, <1>5, <1>16, <1>17 DEF Reds
  <2>3. Heights(r, c, NoGap)
    BY <1>15, <1>18 DEF gap
  <2>4. Right(r, "idle", Nil, q, e, c)
    BY <2>2, <2>3, <1>2, RunningInsert DEF Right
  <2>. QED
    BY <2>4, <1>18 DEF e
<1>19. CASE out \notin t.red
  <2>1. Reds(r, e, "erase", below)
    BY <1>16, <1>17 DEF Reds
  <2>2. Heights(r, c, Gap(r, "erase", below, above))
    BY <1>15, <1>19 DEF gap
  <2>3. below # r.root => above \in e[r.root] /\ below = r.child[above][Side(r, above, below)]
    BY <1>2, <1>4, <1>9, <1>11, <1>12, <1>19
  <2>4. Right(r, "erase", below, above, e, c)
    BY <2>1, <2>2, <2>3, <1>2 DEF Right
  <2>. QED
    BY <2>4, <1>19 DEF e
<1>. QED
  BY <1>18, <1>19

-----------------------------------------------------------------------------
(***************************************************************************)
(* A node out of the tree takes the place of one in it.                    *)
(***************************************************************************)
As(k, old, out) == IF k = old THEN out ELSE k
AsIn(S, old, out) == IF old \in S THEN (S \ {old}) \cup {out} ELSE S

Renamed(e, r, old, out) ==
  /\ e \in Trees /\ e.red = AsIn(r.red, old, out) /\ e.root = As(r.root, old, out)
  /\ \A k \in Key, s \in Sides :
       e.child[k][s] = IF k = old THEN Nil
                       ELSE As(r.child[IF k = out THEN old ELSE k][s], old, out)
  /\ \A k \in Key :
       e.parent[k] = IF k = old THEN Nil
                     ELSE As(r.parent[IF k = out THEN old ELSE k], old, out)

Named(d, old, out) ==
  [k \in Place |-> IF k = old THEN {old} ELSE AsIn(d[IF k = out THEN old ELSE k], old, out)]

Replaces(r, d, old, out) ==
  /\ old \in d[r.root] /\ out \in Key /\ out \notin d[r.root]
  /\ \A j \in d[r.root] \ {old}, s \in Sides : Before(s, j, old) <=> Before(s, j, out)

LEMMA AsFacts ==
  ASSUME NEW old, NEW out, old # out
  PROVE  /\ \A i, k : i # out /\ k # out /\ As(i, old, out) = As(k, old, out) => i = k
         /\ \A i : i # old => As(i, old, out) = i
         /\ As(old, old, out) = out
         /\ \A i : As(i, old, out) # old
         /\ \A S : out \notin S => \A j : j \in AsIn(S, old, out) <=> \E i \in S : j = As(i, old, out)
BY DEF As, AsIn

LEMMA RenamedFacts ==
  ASSUME NEW r, NEW d, Shape(r, d), NEW old, NEW out, Replaces(r, d, old, out),
         NEW e, Renamed(e, r, old, out)
  PROVE  /\ old \in Key /\ out \in Key /\ old # out /\ Nil \notin Key
         /\ r.root \in Key /\ r.root # out /\ e.root = As(r.root, old, out)
         /\ d[Nil] = {} /\ \A k \in Place : d[k] \subseteq Key /\ (k # out => out \notin d[k])
         /\ \A k \in Key : r.parent[k] \in Place /\ r.parent[k] # out
         /\ \A k \in Key, s \in Sides : r.child[k][s] \in Place /\ r.child[k][s] # out
         /\ \A k \in Key \ {out} :
              /\ As(k, old, out) \in Key \ {old}
              /\ e.parent[As(k, old, out)] = As(r.parent[k], old, out)
              /\ \A s \in Sides : e.child[As(k, old, out)][s] = As(r.child[k][s], old, out)
         /\ \A j \in Key \ {old} : \E k \in Key \ {out} : j = As(k, old, out)
         /\ e.parent[old] = Nil /\ \A s \in Sides : e.child[old][s] = Nil
         /\ Named(d, old, out) \in [Place -> SUBSET Key] /\ Named(d, old, out)[old] = {old}
         /\ \A k \in Place \ {out} :
              Named(d, old, out)[As(k, old, out)] = AsIn(d[k], old, out)
<1>. DEFINE f == Named(d, old, out)
<1>1. /\ r \in Trees /\ Nil \notin Key /\ d[Nil] = {} /\ old \in Key /\ r.root \in Key
      /\ \A k \in Place : d[k] \subseteq Key /\ (k \in Key => k \in d[k])
      /\ \A k \in Key, s \in Sides : r.child[k][s] \in Place
      /\ \A k \in Key : r.parent[k] \in Place
      /\ r.parent[r.root] = Nil
  BY InTree DEF Replaces
<1>2. old # out /\ out \in Key /\ r.root # out /\ old \in Place /\ out \in Place
  BY <1>1 DEF Replaces, Place
<1>3. r.child[out] = NoLinks /\ r.parent[out] = Nil
  BY <1>2 DEF Replaces, Shape, Outside
<1>4. \A s \in Sides : r.child[out][s] = Nil
  BY <1>3 DEF NoLinks
<1>5. ASSUME NEW k \in Key, NEW s \in Sides PROVE r.child[k][s] # out
  BY <1>1, <1>2, <1>3 DEF Shape, LinksUp
<1>6. ASSUME NEW k \in Key PROVE r.parent[k] # out
  <2>1. "left" \in Sides
    BY DEF Sides
  <2>2. r.parent[k] = out => k \in {r.child[out]["left"], r.child[out][Opposite("left")]}
    BY <2>1, <1>2, Children
  <2>. QED
    BY <2>1, <2>2, <1>1, <1>4, SideFacts
<1>7. ASSUME NEW k \in Place, k # out PROVE out \notin d[k]
  <2>1. out \in d[k] => k \in Key
    BY <1>1 DEF Place
  <2>2. k \in Key /\ out \in d[k] => r.parent[out] \in d[k]
    BY <1>7 DEF Shape, Hangs
  <2>. QED
    BY <2>1, <2>2, <1>1, <1>3
<1>8. \A s \in Sides : r.child[old][s] # old
  BY <1>1, ShapeFacts
<1>9. /\ e.root = As(r.root, old, out)
      /\ \A k \in Key, s \in Sides :
           e.child[k][s] = IF k = old THEN Nil
                           ELSE As(r.child[IF k = out THEN old ELSE k][s], old, out)
      /\ \A k \in Key :
           e.parent[k] = IF k = old THEN Nil
                         ELSE As(r.parent[IF k = out THEN old ELSE k], old, out)
  BY DEF Renamed
<1>10. ASSUME NEW k \in Key \ {out}
       PROVE  /\ As(k, old, out) \in Key \ {old}
              /\ e.parent[As(k, old, out)] = As(r.parent[k], old, out)
              /\ \A s \in Sides : e.child[As(k, old, out)][s] = As(r.child[k][s], old, out)
  <2>1. CASE k = old
    <3>1. As(k, old, out) = out
      BY <2>1 DEF As
    <3>. QED
      BY <2>1, <3>1, <1>2, <1>9
  <2>2. CASE k # old
    <3>1. As(k, old, out) = k
      BY <2>2 DEF As
    <3>. QED
      BY <2>2, <3>1, <1>9
  <2>. QED
    BY <2>1, <2>2
<1>11. ASSUME NEW j \in Key \ {old} PROVE \E k \in Key \ {out} : j = As(k, old, out)
  <2>1. CASE j = out
    BY <2>1, <1>1, <1>2 DEF As
  <2>2. CASE j # out
    BY <2>2 DEF As
  <2>. QED
    BY <2>1, <2>2
<1>12. f \in [Place -> SUBSET Key] /\ f[old] = {old}
       /\ \A k \in Place \ {old} : f[k] = AsIn(d[IF k = out THEN old ELSE k], old, out)
  <2>1. \A S \in SUBSET Key : AsIn(S, old, out) \in SUBSET Key
    BY <1>2 DEF AsIn
  <2>2. \A k \in Place : (IF k = out THEN old ELSE k) \in Place
    BY <1>2
  <2>. HIDE DEF AsIn
  <2>. QED
    BY <2>1, <2>2, <1>1, <1>2 DEF Named
<1>. HIDE DEF f
<1>13. ASSUME NEW k \in Place \ {out} PROVE f[As(k, old, out)] = AsIn(d[k], old, out)
  <2>1. CASE k = old
    <3>1. As(k, old, out) = out
      BY <2>1 DEF As
    <3>. QED
      BY <2>1, <3>1, <1>2, <1>12
  <2>2. CASE k # old
    <3>1. As(k, old, out) = k
      BY <2>2 DEF As
    <3>. QED
      BY <2>2, <3>1, <1>12
  <2>. QED
    BY <2>1, <2>2
<1>14. e.parent[old] = Nil /\ \A s \in Sides : e.child[old][s] = Nil
  BY <1>1, <1>9
<1>. QED
  BY <1>1, <1>2, <1>5, <1>6, <1>7, <1>9, <1>10, <1>11, <1>12, <1>13, <1>14 DEF f

LEMMA RenamedShape ==
  ASSUME NEW r, NEW d, Shape(r, d), NEW old, NEW out, Replaces(r, d, old, out),
         NEW e, Renamed(e, r, old, out)
  PROVE  /\ Shape(e, Named(d, old, out))
         /\ Named(d, old, out)[e.root] = AsIn(d[r.root], old, out)
<1>. DEFINE f == Named(d, old, out)
            A(k) == As(k, old, out)
            In(S) == AsIn(S, old, out)
<1>1. /\ old \in Key /\ out \in Key /\ old # out /\ Nil \notin Key
      /\ r.root \in Key /\ r.root # out /\ e.root = A(r.root)
      /\ d[Nil] = {} /\ \A k \in Place : d[k] \subseteq Key /\ (k # out => out \notin d[k])
      /\ \A k \in Key : r.parent[k] \in Place /\ r.parent[k] # out
      /\ \A k \in Key, s \in Sides : r.child[k][s] \in Place /\ r.child[k][s] # out
      /\ \A k \in Key \ {out} :
           /\ A(k) \in Key \ {old} /\ e.parent[A(k)] = A(r.parent[k])
           /\ \A s \in Sides : e.child[A(k)][s] = A(r.child[k][s])
      /\ \A j \in Key \ {old} : \E k \in Key \ {out} : j = A(k)
      /\ e.parent[old] = Nil /\ \A s \in Sides : e.child[old][s] = Nil
      /\ f \in [Place -> SUBSET Key] /\ f[old] = {old}
      /\ \A k \in Place \ {out} : f[A(k)] = In(d[k])
  BY RenamedFacts
<1>2. /\ \A i, k : i # out /\ k # out /\ A(i) = A(k) => i = k
      /\ A(Nil) = Nil /\ A(old) = out
      /\ \A S : out \notin S => \A j : j \in In(S) <=> \E i \in S : j = A(i)
  BY <1>1, AsFacts
<1>. HIDE DEF f, A, In
<1>3. Key \subseteq Place /\ Nil \in Place /\ \A k \in Key : k \in d[k]
  BY ShapeFacts DEF Place
<1>4. f[Nil] = {} /\ \A k \in Key \ {out}, s \in Sides : f[e.child[A(k)][s]] = In(d[r.child[k][s]])
  <2>1. In({}) = {}
    BY <1>2
  <2>2. f[A(Nil)] = In(d[Nil])
    BY <1>1, <1>3
  <2>. QED
    BY <2>1, <2>2, <1>1, <1>2
<1>5. ASSUME NEW k \in Key \ {out}, NEW j \in f[A(k)]
      PROVE  \E i \in d[k] : i \in Key \ {out} /\ j = A(i)
  <2>1. f[A(k)] = In(d[k]) /\ out \notin d[k] /\ d[k] \subseteq Key
    BY <1>1, <1>3
  <2>. QED
    BY <2>1, <1>2, <1>5
<1>6. Subtrees(e, f)
  <2>1. ASSUME NEW j \in Key PROVE f[j] = {j} \cup f[e.child[j]["left"]] \cup f[e.child[j]["right"]]
    <3>1. CASE j = old
      BY <3>1, <1>1, <1>4 DEF Sides
    <3>2. CASE j # old
      <4>1. PICK k \in Key \ {out} : j = A(k)
        BY <3>2, <1>1
      <4>. DEFINE l == d[r.child[k]["left"]]
                  h == d[r.child[k]["right"]]
      <4>2. d[k] = {k} \cup l \cup h
        BY DEF Shape, Subtrees
      <4>3. f[j] = In(d[k]) /\ f[e.child[j]["left"]] = In(l) /\ f[e.child[j]["right"]] = In(h)
        BY <4>1, <1>1, <1>3, <1>4 DEF Sides
      <4>4. out \notin d[k] /\ out \notin l /\ out \notin h
        BY <4>2, <1>1, <1>3
      <4>. HIDE DEF l, h
      <4>5. In(d[k]) = {A(k)} \cup In(l) \cup In(h)
        BY <4>2, <4>4, <1>2
      <4>. QED
        BY <4>1, <4>3, <4>5
    <3>. QED
      BY <3>1, <3>2
  <2>2. ASSUME NEW m \in Key, NEW j \in f[m] PROVE f[j] \subseteq f[m]
    <3>1. CASE m = old
      BY <2>2, <3>1, <1>1
    <3>2. CASE m # old
      <4>1. PICK k \in Key \ {out} : m = A(k)
        BY <3>2, <1>1
      <4>2. PICK i \in d[k] : i \in Key \ {out} /\ j = A(i)
        BY <2>2, <4>1, <1>5
      <4>3. d[i] \subseteq d[k]
        BY <4>2 DEF Shape, Subtrees
      <4>4. f[j] = In(d[i]) /\ f[m] = In(d[k]) /\ out \notin d[i] /\ out \notin d[k]
        BY <4>1, <4>2, <1>1, <1>3
      <4>. QED
        BY <4>3, <4>4, <1>2
    <3>. QED
      BY <3>1, <3>2
  <2>. QED
    BY <2>1, <2>2, <1>1, <1>4 DEF Subtrees
<1>7. ASSUME NEW i \in d[r.root], NEW k \in d[r.root], NEW s \in Sides, Before(s, i, k)
      PROVE  Before(s, A(i), A(k))
  <2>0. i \in Key /\ k \in Key /\ i # k
    BY <1>1, <1>3, <1>7, BeforeFacts
  <2>1. CASE i = old
    <3>1. Before(Opposite(s), k, old) /\ k # old
      BY <2>0, <2>1, <1>1, <1>7, BeforeFacts
    <3>2. Before(Opposite(s), k, out)
      BY <2>0, <3>1, SideFacts DEF Replaces
    <3>3. Before(s, out, k)
      BY <2>0, <3>2, <1>1, BeforeFacts
    <3>. QED
      BY <2>1, <3>1, <3>3, <1>2 DEF A, As
  <2>2. CASE k = old
    <3>1. Before(s, i, out) /\ i # old
      BY <2>0, <2>2, <1>7 DEF Replaces
    <3>. QED
      BY <2>2, <3>1 DEF A, As
  <2>3. CASE i # old /\ k # old
    BY <2>3, <1>7 DEF A, As
  <2>. QED
    BY <2>1, <2>2, <2>3
<1>8. Sorted(e, f)
  <2>. SUFFICES ASSUME NEW m \in Key, NEW s \in Sides, NEW j \in f[e.child[m][s]]
                PROVE  Before(s, j, m)
    BY DEF Sorted
  <2>1. m # old
    BY <1>1, <1>4
  <2>2. PICK k \in Key \ {out} : m = A(k)
    BY <2>1, <1>1
  <2>3. j \in In(d[r.child[k][s]]) /\ out \notin d[r.child[k][s]]
    BY <2>2, <1>1, <1>4
  <2>4. PICK i \in d[r.child[k][s]] : j = A(i)
    BY <2>3, <1>2
  <2>5. Before(s, i, k)
    BY <2>4 DEF Shape, Sorted
  <2>6. k \in d[r.root] /\ d[k] \subseteq d[r.root]
    <3>1. r.child[k][s] # Nil
      BY <2>4, <1>1
    <3>2. r.child[k] # NoLinks
      BY <3>1 DEF NoLinks
    <3>. QED
      BY <3>2, <1>1 DEF Shape, Outside, Subtrees
  <2>7. i \in d[k]
    BY <2>4, ShapeFacts
  <2>. QED
    BY <2>2, <2>4, <2>5, <2>6, <2>7, <1>7
<1>9. LinksUp(e)
  <2>1. e.parent[e.root] = Nil
    <3>1. r.parent[r.root] = Nil
      BY <1>1 DEF Shape, LinksUp
    <3>. QED
      BY <3>1, <1>1, <1>2
  <2>2. ASSUME NEW m \in Key, NEW s \in Sides, e.child[m][s] # Nil
        PROVE  e.parent[e.child[m][s]] = m
    <3>1. m # old
      BY <2>2, <1>1
    <3>2. PICK k \in Key \ {out} : m = A(k)
      BY <3>1, <1>1
    <3>3. e.child[m][s] = A(r.child[k][s]) /\ r.child[k][s] # Nil
      BY <3>2, <2>2, <1>1, <1>2
    <3>4. r.child[k][s] \in Key \ {out} /\ r.parent[r.child[k][s]] = k
      BY <3>3, <1>1 DEF Shape, LinksUp, Place
    <3>. QED
      BY <3>2, <3>3, <3>4, <1>1
  <2>. QED
    BY <2>1, <2>2 DEF LinksUp
<1>10. Hangs(e, f)
  <2>. SUFFICES ASSUME NEW m \in Key, NEW j \in f[m], j # m
                PROVE  e.parent[j] \in f[m] /\ \E s \in Sides : e.child[e.parent[j]][s] = j
    BY DEF Hangs
  <2>1. m # old
    BY <1>1
  <2>2. PICK k \in Key \ {out} : m = A(k)
    BY <2>1, <1>1
  <2>3. PICK i \in d[k] : i \in Key \ {out} /\ j = A(i)
    BY <2>2, <1>5
  <2>4. i # k
    BY <2>2, <2>3
  <2>5. r.parent[i] \in d[k] /\ \E s \in Sides : r.child[r.parent[i]][s] = i
    BY <2>3, <2>4 DEF Shape, Hangs
  <2>6. r.parent[i] \in Key \ {out}
    BY <2>2, <2>5, <1>1, <1>3
  <2>7. e.parent[j] = A(r.parent[i])
    BY <2>3, <1>1
  <2>8. e.parent[j] \in f[m]
    <3>1. f[m] = In(d[k]) /\ out \notin d[k]
      BY <2>2, <1>1, <1>3
    <3>. QED
      BY <2>5, <2>7, <3>1, <1>2
  <2>. QED
    BY <2>3, <2>5, <2>6, <2>7, <2>8, <1>1
<1>11. f[e.root] = In(d[r.root])
  BY <1>1, <1>3
<1>12. Outside(e, f)
  <2>. SUFFICES ASSUME NEW j \in Key, j \notin f[e.root]
                PROVE  e.child[j] = NoLinks /\ e.parent[j] = Nil
    BY DEF Outside
  <2>1. e.child[j] \in [Sides -> Place]
    BY DEF Renamed, Trees
  <2>2. e.parent[j] = Nil /\ \A s \in Sides : e.child[j][s] = Nil
    <3>1. CASE j = old
      BY <3>1, <1>1
    <3>2. CASE j # old
      <4>1. PICK k \in Key \ {out} : j = A(k)
        BY <3>2, <1>1
      <4>2. k \notin d[r.root]
        <5>1. out \notin d[r.root]
          BY <1>1, <1>3
        <5>. QED
          BY <4>1, <5>1, <1>2, <1>11
      <4>3. r.child[k] = NoLinks /\ r.parent[k] = Nil
        BY <4>2 DEF Shape, Outside
      <4>. QED
        BY <4>1, <4>3, <1>1, <1>2 DEF NoLinks
    <3>. QED
      BY <3>1, <3>2
  <2>. QED
    BY <2>1, <2>2 DEF NoLinks
<1>13. e \in Trees
  BY DEF Renamed
<1>14. Shape(e, f)
  BY <1>6, <1>8, <1>9, <1>10, <1>12, <1>13 DEF Shape
<1>. QED
  BY <1>11, <1>14 DEF f, In

LEMMA RenamedRight ==
  ASSUME NEW r, NEW running, running # "insert", NEW n \in Place, NEW q, NEW d, NEW b,
         Right(r, running, n, q, d, b), NEW old, NEW out, Replaces(r, d, old, out),
         n # old, n # out, NEW e, Renamed(e, r, old, out)
  PROVE  \E c : Right(e, running, n, As(q, old, out), Named(d, old, out), c)
<1>. DEFINE f == Named(d, old, out)
            A(k) == As(k, old, out)
            In(S) == AsIn(S, old, out)
            gap == Gap(r, running, n, q)
            new == Gap(e, running, n, A(q))
            c == [k \in Place |-> IF k = old THEN 1 ELSE b[IF k = out THEN old ELSE k]]
<1>1. Shape(r, d) /\ Reds(r, d, running, n) /\ Heights(r, b, gap)
  BY DEF Right
<1>2. Shape(e, f) /\ f[e.root] = In(d[r.root])
  BY <1>1, RenamedShape
<1>3. /\ old \in Key /\ out \in Key /\ old # out /\ Nil \notin Key
      /\ r.root \in Key /\ r.root # out /\ e.root = A(r.root)
      /\ d[Nil] = {} /\ \A k \in Place : d[k] \subseteq Key /\ (k # out => out \notin d[k])
      /\ \A k \in Key : r.parent[k] \in Place /\ r.parent[k] # out
      /\ \A k \in Key, s \in Sides : r.child[k][s] \in Place /\ r.child[k][s] # out
      /\ \A k \in Key \ {out} :
           /\ A(k) \in Key \ {old} /\ e.parent[A(k)] = A(r.parent[k])
           /\ \A s \in Sides : e.child[A(k)][s] = A(r.child[k][s])
      /\ \A j \in Key \ {old} : \E k \in Key \ {out} : j = A(k)
      /\ e.parent[old] = Nil /\ \A s \in Sides : e.child[old][s] = Nil
  BY <1>1, RenamedFacts
<1>4. /\ \A i, k : i # out /\ k # out /\ A(i) = A(k) => i = k
      /\ A(Nil) = Nil /\ A(old) = out /\ \A k : k # old => A(k) = k
      /\ \A S : out \notin S => \A j : j \in In(S) <=> \E i \in S : j = A(i)
  BY <1>3, AsFacts
<1>5. /\ r.red \subseteq Key /\ e.red = In(r.red) /\ out \notin r.red
      /\ r.red \subseteq d[r.root] /\ Key \subseteq Place /\ Nil \in Place /\ out \notin d[r.root]
  BY <1>1, <1>3 DEF Reds, Renamed, Place, Shape, Trees
<1>6. /\ \A k \in Place \ {out} : A(k) \in e.red <=> k \in r.red
      /\ old \notin e.red
  BY <1>3, <1>4, <1>5 DEF A, As
<1>7. /\ c \in [Place -> Nat] /\ c[old] = 1 /\ c[out] = b[old] /\ b[Nil] = 0
      /\ \A k \in Place \ {old, out} : c[k] = b[k]
  <2>1. b \in [Place -> Nat] /\ b[Nil] = 0
    BY <1>1 DEF Heights
  <2>. QED
    BY <2>1, <1>3, <1>5
<1>8. c[Nil] = 0 /\ \A k \in Place \ {out} : c[A(k)] = b[k]
  BY <1>3, <1>4, <1>5, <1>7
<1>9. n = r.root <=> n = e.root
  BY <1>3, <1>4
<1>10. ASSUME running = "erase", n # r.root
       PROVE  /\ q \in d[r.root] /\ q \in Key \ {out} /\ A(q) \in f[e.root]
              /\ Side(e, A(q), n) = Side(r, q, n) /\ n = e.child[A(q)][Side(e, A(q), n)]
  <2>1. q \in d[r.root] /\ n = r.child[q][Side(r, q, n)]
    BY <1>10 DEF Right
  <2>2. q \in Key \ {out}
    BY <2>1, <1>3, <1>5
  <2>3. A(q) \in f[e.root]
    BY <2>1, <1>2, <1>4, <1>5
  <2>4. "left" \in Sides /\ Side(r, q, n) \in Sides
    BY DEF Sides, Side
  <2>5. e.child[A(q)]["left"] = n <=> r.child[q]["left"] = n
    BY <2>2, <2>4, <1>3, <1>4
  <2>6. Side(e, A(q), n) = Side(r, q, n)
    BY <2>5 DEF Side
  <2>7. A(n) = n
    BY <1>4
  <2>. HIDE DEF A
  <2>. QED
    BY <2>1, <2>2, <2>3, <2>4, <2>6, <2>7, <1>3
<1>11. \A k \in Key \ {out}, s \in Sides : gap = <<k, s>> <=> new = <<A(k), s>>
  <2>1. CASE running = "erase" /\ n # r.root
    <3>. DEFINE here == Side(r, q, n)
    <3>1. gap = <<q, here>> /\ new = <<A(q), here>>
      BY <2>1, <1>9, <1>10 DEF Gap
    <3>2. q # out
      BY <2>1, <1>10
    <3>. HIDE DEF gap, new, here, A
    <3>. QED
      BY <3>1, <3>2, <1>4
  <2>2. CASE ~ (running = "erase" /\ n # r.root)
    <3>1. gap = NoGap /\ new = NoGap
      BY <2>2, <1>9 DEF Gap
    <3>2. \A k \in Key, s \in Sides : NoGap # <<k, s>>
      BY <1>3 DEF NoGap
    <3>. HIDE DEF gap, new
    <3>. QED
      BY <3>1, <3>2, <1>3
  <2>. QED
    BY <2>1, <2>2
<1>12. \A s \in Sides : new # <<old, s>>
  <2>1. CASE running = "erase" /\ n # r.root
    <3>. DEFINE here == Side(e, A(q), n)
    <3>1. new = <<A(q), here>> /\ q \in Key \ {out}
      BY <2>1, <1>9, <1>10 DEF Gap
    <3>2. A(q) # old
      BY <3>1, <1>3
    <3>. HIDE DEF new, here, A
    <3>. QED
      BY <3>1, <3>2
  <2>2. CASE ~ (running = "erase" /\ n # r.root)
    <3>1. new = NoGap
      BY <2>2, <1>9 DEF Gap
    <3>. QED
      BY <3>1, <1>3 DEF NoGap
  <2>. QED
    BY <2>1, <2>2
<1>. DEFINE lack(k, s) == IF gap = <<k, s>> THEN 1 ELSE 0
            lost(k, s) == IF new = <<k, s>> THEN 1 ELSE 0
<1>13. /\ \A k \in Key \ {out}, s \in Sides : lost(A(k), s) = lack(k, s)
       /\ \A s \in Sides : lost(old, s) = 0
       /\ \A k \in Key, s \in Sides :
            b[k] = b[r.child[k][s]] + lack(k, s) + (IF k \in r.red THEN 0 ELSE 1)
  BY <1>1, <1>11, <1>12 DEF Heights
<1>. HIDE DEF lack, c, A
<1>14. ASSUME NEW j \in Key, NEW s \in Sides
       PROVE  c[j] = c[e.child[j][s]] + lost(j, s) + (IF j \in e.red THEN 0 ELSE 1)
  <2>. HIDE DEF lost
  <2>1. CASE j = old
    BY <2>1, <1>3, <1>6, <1>7, <1>8, <1>13
  <2>2. CASE j # old
    <3>1. PICK k \in Key \ {out} : j = A(k)
      BY <2>2, <1>3
    <3>2. e.child[j][s] = A(r.child[k][s]) /\ r.child[k][s] \in Place \ {out}
      BY <3>1, <1>3
    <3>3. c[j] = b[k] /\ c[e.child[j][s]] = b[r.child[k][s]] /\ lost(j, s) = lack(k, s)
          /\ (j \in e.red <=> k \in r.red)
      BY <3>1, <3>2, <1>5, <1>6, <1>8, <1>13
    <3>4. b[k] = b[r.child[k][s]] + lack(k, s) + (IF k \in r.red THEN 0 ELSE 1)
      BY <1>13
    <3>. QED
      BY <3>3, <3>4
  <2>. QED
    BY <2>1, <2>2
<1>. HIDE DEF gap, new
<1>15. Heights(e, c, new)
  BY <1>7, <1>8, <1>14 DEF Heights
<1>16. Reds(e, f, running, n)
  <2>1. e.red \subseteq f[e.root]
    BY <1>2, <1>4, <1>5
  <2>2. ASSUME NEW j \in e.red
        PROVE  \/ running # "idle" /\ j = n
               \/ e.parent[j] # Nil /\ e.parent[j] \notin e.red
               \/ running = "erase" /\ e.parent[j] # Nil /\ e.parent[j] = n
    <3>1. PICK i \in r.red : j = A(i)
      BY <2>2, <1>4, <1>5
    <3>2. i \in Key \ {out} /\ r.parent[i] \in Place \ {out} /\ e.parent[j] = A(r.parent[i])
      BY <3>1, <1>3, <1>5
    <3>3. A(n) = n /\ (e.parent[j] # Nil <=> r.parent[i] # Nil)
          /\ (e.parent[j] \in e.red <=> r.parent[i] \in r.red)
      BY <3>2, <1>3, <1>4, <1>6
    <3>4. \/ running # "idle" /\ i = n
          \/ r.parent[i] # Nil /\ r.parent[i] \notin r.red
          \/ running = "erase" /\ r.parent[i] # Nil /\ r.parent[i] = n
      BY <1>1 DEF Reds
    <3>. QED
      BY <3>1, <3>2, <3>3, <3>4
  <2>. QED
    BY <2>1, <2>2 DEF Reds
<1>17. running = "idle" => n = Nil
  BY DEF Right
<1>18. Right(e, running, n, A(q), f, c)
  <2>. HIDE DEF f
  <2>. QED
    BY <1>2, <1>9, <1>10, <1>15, <1>16, <1>17 DEF Right, new
<1>. QED
  BY <1>18 DEF A

-----------------------------------------------------------------------------
(***************************************************************************)
(* An erase takes one node out, the node itself or the next larger one,    *)
(* which then takes its place.                                             *)
(***************************************************************************)
LEMMA HangsOnce ==
  ASSUME NEW t, NEW d, Shape(t, d), NEW n \in d[t.root]
  PROVE  /\ \A k \in Key, s \in Sides : t.child[k][s] = n <=> k = t.parent[n] /\ s = Side(t, k, n)
         /\ t.parent[n] = Nil <=> n = t.root
<1>1. n \in Key /\ n # Nil /\ Nil \notin Key /\ t.parent[t.root] = Nil
  BY InTree
<1>2. n # t.root => t.parent[n] \in Key /\ t.child[t.parent[n]][Side(t, t.parent[n], n)] = n
  BY ShapeFacts
<1>3. ASSUME NEW k \in Key, NEW s \in Sides, t.child[k][s] = n
      PROVE  k = t.parent[n] /\ s = Side(t, k, n)
  <2>1. t.parent[n] = k /\ t.child[k][Opposite(s)] # n
    BY <1>1, <1>3, ShapeFacts
  <2>. QED
    BY <2>1, <1>3, SideIs
<1>4. ASSUME NEW k \in Key, k = t.parent[n] PROVE t.child[k][Side(t, k, n)] = n
  BY <1>1, <1>2, <1>4
<1>. QED
  BY <1>1, <1>2, <1>3, <1>4

Cleared(t, n) == [t EXCEPT !.child[n] = NoLinks, !.parent[n] = Nil, !.red = @ \ {n}]

LEMMA ClearedIs ==
  ASSUME NEW t \in Trees, NEW n \in Key
  PROVE  LET c == Cleared(t, n)
         IN  /\ c \in Trees /\ c.root = t.root /\ c.red = t.red \ {n}
             /\ \A k \in Key, s \in Sides : c.child[k][s] = IF k = n THEN Nil ELSE t.child[k][s]
             /\ \A k \in Key : c.parent[k] = IF k = n THEN Nil ELSE t.parent[k]
<1>. DEFINE c == Cleared(t, n)
<1>1. Nil \in Place /\ NoLinks \in [Sides -> Place] /\ \A s \in Sides : NoLinks[s] = Nil
  BY DEF NoLinks, Place
<1>2. c \in Trees /\ c.root = t.root /\ c.red = t.red \ {n}
  BY <1>1 DEF Cleared, Trees
<1>3. c.child = [t.child EXCEPT ![n] = NoLinks] /\ c.parent = [t.parent EXCEPT ![n] = Nil]
  BY DEF Cleared, Trees
<1>. HIDE DEF c
<1>4. \A k \in Key, s \in Sides : c.child[k][s] = IF k = n THEN Nil ELSE t.child[k][s]
  BY <1>1, <1>3 DEF Trees
<1>5. \A k \in Key : c.parent[k] = IF k = n THEN Nil ELSE t.parent[k]
  BY <1>1, <1>3 DEF Trees
<1>. QED
  BY <1>2, <1>4, <1>5 DEF c

CutOut(t, out, below, above) == Hung(Adopted(t, below, above), above, out, below)

LEMMA CutOutIs ==
  ASSUME NEW t, NEW d, Shape(t, d), NEW out \in d[t.root], NEW side \in Sides,
         NEW below, below = t.child[out][side], NEW above, above = t.parent[out]
  PROVE  LET c == CutOut(t, out, below, above)
         IN  /\ c \in Trees /\ c.red = t.red /\ c.root = IF above = Nil THEN below ELSE t.root
             /\ \A k \in Key, s \in Sides :
                  c.child[k][s] = IF t.child[k][s] = out THEN below ELSE t.child[k][s]
             /\ \A k \in Key : c.parent[k] = IF k = below THEN above ELSE t.parent[k]
<1>. DEFINE a == Adopted(t, below, above)
            c == CutOut(t, out, below, above)
<1>1. t \in Trees /\ below \in Place /\ above \in Place /\ out \in Key
  BY InTree
<1>2. /\ a \in Trees /\ a.root = t.root /\ a.child = t.child /\ a.red = t.red
      /\ \A k \in Key : a.parent[k] = IF k = below THEN above ELSE t.parent[k]
  BY <1>1, AdoptedIs
<1>. HIDE DEF a
<1>3. /\ c \in Trees /\ c.parent = a.parent /\ c.red = a.red
      /\ c.root = IF above = Nil THEN below ELSE a.root
      /\ \A k \in Key, s \in Sides :
           c.child[k][s] = IF k = above /\ s = Side(a, k, out) THEN below ELSE a.child[k][s]
  <2>1. c = Hung(a, above, out, below)
    BY DEF CutOut, a
  <2>. QED
    BY <2>1, <1>1, <1>2, HungIs
<1>. HIDE DEF c
<1>4. \A k \in Key : Side(a, k, out) = Side(t, k, out)
  BY <1>2 DEF Side
<1>5. \A k \in Key, s \in Sides : t.child[k][s] = out <=> k = above /\ s = Side(t, k, out)
  BY HangsOnce
<1>6. /\ c \in Trees /\ c.red = t.red /\ c.root = IF above = Nil THEN below ELSE t.root
      /\ \A k \in Key, s \in Sides :
           c.child[k][s] = IF t.child[k][s] = out THEN below ELSE t.child[k][s]
      /\ \A k \in Key : c.parent[k] = IF k = below THEN above ELSE t.parent[k]
  BY <1>2, <1>3, <1>4, <1>5
<1>. QED
  BY <1>6 DEF c

LEMMA ClearedIsTakenOut ==
  ASSUME NEW t, NEW d, Shape(t, d), NEW out \in d[t.root], NEW side \in Sides,
         NEW below, below = t.child[out][side], NEW above, above = t.parent[out]
  PROVE  TakenOut(Cleared(CutOut(t, out, below, above), out), t, out, below, above)
<1>. DEFINE c == CutOut(t, out, below, above)
            r == Cleared(c, out)
<1>1. out \in Key
  BY InTree
<1>2. /\ c \in Trees /\ c.red = t.red /\ c.root = IF above = Nil THEN below ELSE t.root
      /\ \A k \in Key, s \in Sides :
           c.child[k][s] = IF t.child[k][s] = out THEN below ELSE t.child[k][s]
      /\ \A k \in Key : c.parent[k] = IF k = below THEN above ELSE t.parent[k]
  BY CutOutIs
<1>. HIDE DEF c
<1>3. /\ r \in Trees /\ r.root = c.root /\ r.red = c.red \ {out}
      /\ \A k \in Key, s \in Sides : r.child[k][s] = IF k = out THEN Nil ELSE c.child[k][s]
      /\ \A k \in Key : r.parent[k] = IF k = out THEN Nil ELSE c.parent[k]
  BY <1>1, <1>2, ClearedIs
<1>. HIDE DEF r
<1>4. TakenOut(r, t, out, below, above)
  BY <1>2, <1>3 DEF TakenOut
<1>. QED
  BY <1>4 DEF r, c

(* The links of `old` given to a node that has been cut out.               *)
GivenPlace(cut, old, out) ==
  [cut EXCEPT !.parent[out] = cut.parent[old], !.child[out] = cut.child[old],
              !.red = IF Red(cut, old) THEN @ \cup {out} ELSE @ \ {out}]

PutInPlace(cut, old, out) ==
  LET moved == Hung(GivenPlace(cut, old, out), cut.parent[old], old, out)
      left  == Adopted(moved, cut.child[old]["left"], out)
  IN  Cleared(Adopted(left, cut.child[old]["right"], out), old)

Given(g, cut, old, out) ==
  /\ g \in Trees /\ g.root = cut.root
  /\ g.red = IF old \in cut.red THEN cut.red \cup {out} ELSE cut.red \ {out}
  /\ \A k \in Key, s \in Sides : g.child[k][s] = cut.child[IF k = out THEN old ELSE k][s]
  /\ \A k \in Key : g.parent[k] = cut.parent[IF k = out THEN old ELSE k]

LEMMA GivenPlaceIs ==
  ASSUME NEW cut \in Trees, NEW old \in Key, NEW out \in Key
  PROVE  Given(GivenPlace(cut, old, out), cut, old, out)
<1>. DEFINE g == GivenPlace(cut, old, out)
<1>1. /\ g.child = [cut.child EXCEPT ![out] = cut.child[old]]
      /\ g.parent = [cut.parent EXCEPT ![out] = cut.parent[old]]
      /\ g.root = cut.root
      /\ g.red = IF old \in cut.red THEN cut.red \cup {out} ELSE cut.red \ {out}
  BY DEF GivenPlace, Trees, Red
<1>2. g \in Trees
  BY DEF GivenPlace, Trees, Red
<1>. HIDE DEF g
<1>3. /\ \A k \in Key, s \in Sides : g.child[k][s] = cut.child[IF k = out THEN old ELSE k][s]
      /\ \A k \in Key : g.parent[k] = cut.parent[IF k = out THEN old ELSE k]
  BY <1>1 DEF Trees
<1>. QED
  BY <1>1, <1>2, <1>3 DEF g, Given

LEMMA PutInPlaceRenames ==
  ASSUME NEW cut \in Trees, NEW d, NEW old, NEW out \in Key,
         Shape(Cleared(cut, out), d), Replaces(Cleared(cut, out), d, old, out)
  PROVE  Renamed(PutInPlace(cut, old, out), Cleared(cut, out), old, out)
<1>. DEFINE r == Cleared(cut, out)
            p == cut.parent[old]
            l == cut.child[old]["left"]
            h == cut.child[old]["right"]
            g == GivenPlace(cut, old, out)
            moved == Hung(g, p, old, out)
            left == Adopted(moved, l, out)
            both == Adopted(left, h, out)
            e == Cleared(both, old)
<1>1. /\ r \in Trees /\ r.root = cut.root /\ r.red = cut.red \ {out}
      /\ \A k \in Key, s \in Sides : r.child[k][s] = IF k = out THEN Nil ELSE cut.child[k][s]
      /\ \A k \in Key : r.parent[k] = IF k = out THEN Nil ELSE cut.parent[k]
  BY ClearedIs
<1>2. Shape(r, d) /\ Replaces(r, d, old, out)
  OBVIOUS
<1>. HIDE DEF r
<1>3. /\ old \in Key /\ old \in d[r.root] /\ out \notin d[r.root] /\ old # out
      /\ Nil \notin Key /\ \A k \in Key, s \in Sides : r.child[k][s] \in Place
  BY <1>2, InTree DEF Replaces
<1>4. r.child[out] = NoLinks /\ r.parent[out] = Nil
  BY <1>2, <1>3 DEF Shape, Outside
<1>5. /\ p = r.parent[old] /\ l = r.child[old]["left"] /\ h = r.child[old]["right"]
      /\ p \in Place /\ l \in Place /\ h \in Place /\ old \in Place /\ out \in Place
  BY <1>1, <1>3 DEF Trees, Place, Sides
<1>6. /\ \A k \in Key, s \in Sides : r.child[k][s] = old <=> k = p /\ s = Side(r, k, old)
      /\ p = Nil <=> old = r.root
  BY <1>2, <1>3, <1>5, HangsOnce
<1>7. \A k \in Key, s \in Sides : r.child[k][s] # out
  BY <1>2, <1>3, <1>4 DEF Shape, LinksUp
<1>8. p # out /\ p # old
  <2>1. \A s \in Sides : r.child[out][s] = Nil
    BY <1>4 DEF NoLinks
  <2>2. Side(r, out, old) \in Sides
    BY DEF Side, Sides
  <2>. QED
    BY <2>1, <2>2, <1>2, <1>3, <1>5, <1>6, NotOwnParent
<1>9. \A k \in Key : r.parent[k] = old <=> k \in {l, h}
  <2>1. "left" \in Sides /\ "right" \in Sides /\ Opposite("left") = "right"
    BY SideFacts DEF Sides
  <2>2. \A k \in Key : r.parent[k] = old => k \in {l, h}
    BY <2>1, <1>2, <1>3, <1>5, Children
  <2>3. \A k \in Key : k \in {l, h} => r.parent[k] = old
    BY <2>1, <1>2, <1>3, <1>5 DEF Shape, LinksUp
  <2>. QED
    BY <2>2, <2>3
<1>10. /\ g \in Trees /\ g.root = cut.root
       /\ g.red = IF old \in cut.red THEN cut.red \cup {out} ELSE cut.red \ {out}
       /\ \A k \in Key, s \in Sides : g.child[k][s] = cut.child[IF k = out THEN old ELSE k][s]
       /\ \A k \in Key : g.parent[k] = cut.parent[IF k = out THEN old ELSE k]
  <2>1. cut \in Trees /\ old \in Key /\ out \in Key
    BY <1>3
  <2>2. Given(g, cut, old, out)
    BY <2>1, GivenPlaceIs
  <2>. HIDE DEF g
  <2>. QED
    BY <2>2 DEF Given
<1>. HIDE DEF g, p, l, h
<1>11. /\ moved \in Trees /\ moved.parent = g.parent /\ moved.red = g.red
       /\ moved.root = IF p = Nil THEN out ELSE g.root
       /\ \A k \in Key, s \in Sides :
            moved.child[k][s] = IF k = p /\ s = Side(g, k, old) THEN out ELSE g.child[k][s]
  BY <1>5, <1>10, HungIs
<1>. HIDE DEF moved
<1>12. /\ left \in Trees /\ left.root = moved.root /\ left.child = moved.child /\ left.red = moved.red
       /\ \A k \in Key : left.parent[k] = IF k = l THEN out ELSE moved.parent[k]
  <2>1. moved \in Trees /\ l \in Place /\ out \in Place
    BY <1>5, <1>11
  <2>. QED
    BY <2>1, AdoptedIs
<1>. HIDE DEF left
<1>13. /\ both \in Trees /\ both.root = left.root /\ both.child = left.child /\ both.red = left.red
       /\ \A k \in Key : both.parent[k] = IF k = h THEN out ELSE left.parent[k]
  <2>1. left \in Trees /\ h \in Place /\ out \in Place
    BY <1>5, <1>12
  <2>. QED
    BY <2>1, AdoptedIs
<1>. HIDE DEF both
<1>14. /\ e \in Trees /\ e.root = both.root /\ e.red = both.red \ {old}
       /\ \A k \in Key, s \in Sides : e.child[k][s] = IF k = old THEN Nil ELSE both.child[k][s]
       /\ \A k \in Key : e.parent[k] = IF k = old THEN Nil ELSE both.parent[k]
  BY <1>3, <1>13, ClearedIs
<1>. HIDE DEF e
<1>15. e.red = AsIn(r.red, old, out)
  <2>1. e.red = (IF old \in cut.red THEN cut.red \cup {out} ELSE cut.red \ {out}) \ {old}
    BY <1>10, <1>11, <1>12, <1>13, <1>14
  <2>. QED
    BY <2>1, <1>1, <1>3 DEF AsIn
<1>16. e.root = As(r.root, old, out)
  BY <1>1, <1>6, <1>10, <1>11, <1>12, <1>13, <1>14 DEF As
<1>17. ASSUME NEW k \in Key, NEW s \in Sides
       PROVE  e.child[k][s] = IF k = old THEN Nil
                              ELSE As(r.child[IF k = out THEN old ELSE k][s], old, out)
  <2>1. CASE k = old
    BY <2>1, <1>14
  <2>2. CASE k = out
    <3>1. e.child[k][s] = r.child[old][s]
      BY <2>2, <1>1, <1>3, <1>8, <1>10, <1>11, <1>12, <1>13, <1>14
    <3>2. r.child[old][s] # old
      BY <1>3, <1>6, <1>8
    <3>. QED
      BY <2>2, <3>1, <3>2, <1>3 DEF As
  <2>3. CASE k # old /\ k # out
    <3>1. g.child[k] = g.child[k] /\ \A u \in Sides : g.child[k][u] = r.child[k][u]
      BY <2>3, <1>1, <1>10
    <3>2. Side(g, k, old) = Side(r, k, old)
      BY <3>1 DEF Side, Sides
    <3>3. e.child[k][s] = IF k = p /\ s = Side(r, k, old) THEN out ELSE r.child[k][s]
      BY <2>3, <3>1, <3>2, <1>11, <1>12, <1>13, <1>14
    <3>. QED
      BY <2>3, <3>3, <1>6 DEF As
  <2>. QED
    BY <2>1, <2>2, <2>3
<1>18. ASSUME NEW k \in Key
       PROVE  e.parent[k] = IF k = old THEN Nil
                            ELSE As(r.parent[IF k = out THEN old ELSE k], old, out)
  <2>1. CASE k = old
    BY <2>1, <1>14
  <2>2. CASE k = out
    <3>1. k \notin {l, h}
      BY <2>2, <1>5, <1>7, <1>3 DEF Sides
    <3>2. e.parent[k] = cut.parent[old]
      BY <2>2, <3>1, <1>3, <1>10, <1>11, <1>12, <1>13, <1>14
    <3>. QED
      BY <2>2, <3>2, <1>3, <1>5, <1>8 DEF As, p
  <2>3. CASE k # old /\ k # out
    <3>1. e.parent[k] = IF k \in {l, h} THEN out ELSE r.parent[k]
      BY <2>3, <1>1, <1>10, <1>11, <1>12, <1>13, <1>14
    <3>. QED
      BY <2>3, <3>1, <1>9 DEF As
  <2>. QED
    BY <2>1, <2>2, <2>3
<1>19. Renamed(e, r, old, out)
  BY <1>14, <1>15, <1>16, <1>17, <1>18 DEF Renamed
<1>20. e = PutInPlace(cut, old, out)
  BY DEF e, both, left, moved, g, p, l, h, PutInPlace
<1>. QED
  BY <1>19, <1>20 DEF r

(* What an erase does, with r for the tree without the node taken out.     *)
ErasedAs(old, d, out, side, below, above, r) ==
  /\ out \in d[tree.root] /\ side \in Sides /\ tree.child[out][Opposite(side)] = Nil
  /\ below = tree.child[out][side] /\ above = tree.parent[out]
  /\ TakenOut(r, tree, out, below, above)
  /\ Erased(old).node = below /\ (Erased(old).black <=> out \notin tree.red)
  /\ \/ out = old /\ Erased(old).tree = r /\ Erased(old).parent = above
     \/ /\ Replaces(r, Without(d, out), old, out) /\ Renamed(Erased(old).tree, r, old, out)
        /\ Erased(old).parent = As(above, old, out) /\ below \notin {old, out}

LEMMA OneChild ==
  ASSUME NEW d, Shape(tree, d), NEW old \in d[tree.root], NEW s \in Sides, tree.child[old][s] = Nil
  PROVE  \E out, side, below, above, r : ErasedAs(old, d, out, side, below, above, r)
<1>. DEFINE side == IF tree.child[old]["left"] = Nil THEN "right" ELSE "left"
            below == tree.child[old][side]
            above == tree.parent[old]
            r == Cleared(CutOut(tree, old, below, above), old)
<1>1. side \in Sides /\ tree.child[old][Opposite(side)] = Nil
  <2>1. Opposite("left") = "right" /\ Opposite("right") = "left"
    BY SideFacts DEF Sides
  <2>. QED
    BY <2>1 DEF Sides
<1>2. ~ \A u \in Sides : tree.child[old][u] # Nil
  OBVIOUS
<1>3. /\ Erased(old).tree = r /\ Erased(old).node = below /\ Erased(old).parent = above
      /\ Erased(old).black <=> old \notin tree.red
  BY <1>2 DEF Erased, Cleared, CutOut, Red
<1>. HIDE DEF side
<1>4. TakenOut(r, tree, old, below, above)
  BY <1>1, ClearedIsTakenOut
<1>. HIDE DEF r
<1>5. ErasedAs(old, d, old, side, below, above, r)
  BY <1>1, <1>3, <1>4 DEF ErasedAs
<1>. QED
  BY <1>5

LEMMA TwoChildren ==
  ASSUME NEW d, Shape(tree, d), NEW old \in d[tree.root], \A s \in Sides : tree.child[old][s] # Nil
  PROVE  \E out, side, below, above, r : ErasedAs(old, d, out, side, below, above, r)
<1>. DEFINE top == tree.child[old]["right"]
            out == Leftmost(tree, top)
            below == tree.child[out]["right"]
            above == tree.parent[out]
            cut == CutOut(tree, out, below, above)
            r == Cleared(cut, out)
            e == PutInPlace(cut, old, out)
<1>1. /\ "left" \in Sides /\ "right" \in Sides /\ Opposite("right") = "left" /\ Opposite("left") = "right"
  BY SideFacts DEF Sides
<1>2. /\ old \in Key /\ Nil \notin Key /\ d[Nil] = {} /\ tree \in Trees /\ tree.root \in Key
      /\ \A k \in Key, s \in Sides : tree.child[k][s] \in Place
      /\ \A k \in Place : d[k] \subseteq Key /\ (k \in Key => k \in d[k])
  BY InTree
<1>3. top \in Key /\ top # Nil
  BY <1>1, <1>2 DEF Place
<1>. HIDE DEF top
<1>4. /\ out \in d[top] /\ out \in Key /\ tree.child[out]["left"] = Nil
      /\ \A j \in d[top] : j = out \/ j > out
  BY <1>3, LeftmostFacts
<1>5. /\ Erased(old).tree = e /\ Erased(old).node = below
      /\ Erased(old).parent = IF above = old THEN out ELSE above
      /\ Erased(old).black <=> out \notin tree.red
  BY <1>4 DEF Erased, PutInPlace, GivenPlace, Cleared, CutOut, Red, top
<1>. HIDE DEF out
<1>6. /\ d[old] = {old} \cup d[tree.child[old]["left"]] \cup d[top] /\ old \notin d[top]
      /\ d[old] \subseteq d[tree.root] /\ d[out] \subseteq d[top]
  <2>1. d[old] = {old} \cup d[tree.child[old]["left"]] \cup d[top] /\ old \notin d[top]
    BY <1>1, <1>2, ShapeFacts DEF top
  <2>. QED
    BY <2>1, <1>2, <1>3, <1>4 DEF Shape, Subtrees
<1>7. out \in d[tree.root] /\ out \in d[old] /\ out # old
  BY <1>4, <1>6
<1>8. below \notin {old, out}
  <2>1. below # Nil => below \in d[below] /\ below \in d[out]
    BY <1>1, <1>2, <1>4, ShapeFacts DEF Place
  <2>2. out \notin d[below]
    BY <1>1, <1>4, ShapeFacts
  <2>. QED
    BY <2>1, <2>2, <1>2, <1>4, <1>6
<1>. DEFINE f == Without(d, out)
<1>9. TakenOut(r, tree, out, below, above)
  BY <1>1, <1>7, ClearedIsTakenOut
<1>10. Shape(r, f) /\ f[r.root] = d[tree.root] \ {out}
  <2>. HIDE DEF r
  <2>. QED
    BY <1>1, <1>4, <1>7, <1>9, TakenOutShape
<1>11. cut \in Trees
  BY <1>1, <1>7, CutOutIs
<1>12. ASSUME NEW j \in d[tree.root], j \notin {old, out}, NEW s \in Sides
       PROVE  Before(s, j, old) <=> Before(s, j, out)
  <2>1. Before("left", old, out) /\ Before("right", out, old)
    <3>1. Before("right", out, old)
      BY <1>1, <1>2, <1>4 DEF Shape, Sorted, top
    <3>. QED
      BY <3>1, <1>1, <1>2, <1>4, BeforeFacts
  <2>2. j \in Key
    BY <1>2 DEF Place
  <2>3. CASE j \notin d[old]
    BY <2>3, <1>7, Apart
  <2>4. CASE j \in d[tree.child[old]["left"]]
    <3>1. Before("left", j, old)
      BY <2>4, <1>1, <1>2 DEF Shape, Sorted
    <3>2. Before("left", j, out)
      BY <2>1, <2>2, <3>1, <1>1, <1>2, <1>4, BeforeFacts
    <3>. QED
      BY <2>2, <3>1, <3>2, <1>2, <1>4, SideFacts DEF Before, Sides
  <2>5. CASE j \in d[top]
    <3>1. Before("right", j, out)
      BY <2>5, <1>4, <1>12 DEF Before
    <3>2. Before("right", j, old)
      BY <2>1, <2>2, <3>1, <1>1, <1>2, <1>4, BeforeFacts
    <3>. QED
      BY <2>2, <3>1, <3>2, <1>2, <1>4, SideFacts DEF Before, Sides
  <2>. QED
    BY <2>3, <2>4, <2>5, <1>6, <1>12
<1>13. Replaces(r, f, old, out)
  <2>. HIDE DEF r, f
  <2>. QED
    BY <1>4, <1>7, <1>10, <1>12 DEF Replaces
<1>14. Renamed(e, r, old, out)
  <2>. HIDE DEF cut, f
  <2>. QED
    BY <1>4, <1>10, <1>11, <1>13, PutInPlaceRenames
<1>. HIDE DEF cut, r, e, below, above, f
<1>15. tree.child[out][Opposite("right")] = Nil /\ below = tree.child[out]["right"]
       /\ above = tree.parent[out]
  BY <1>1, <1>4 DEF below, above
<1>16. Erased(old).parent = As(above, old, out)
  BY <1>5 DEF As
<1>17. ErasedAs(old, d, out, "right", below, above, r)
  BY <1>1, <1>5, <1>7, <1>8, <1>9, <1>13, <1>14, <1>15, <1>16 DEF ErasedAs, f
<1>. QED
  BY <1>17

LEMMA IdleAnywhere ==
  ASSUME NEW t, NEW n, NEW q, NEW p, NEW d, NEW b, Right(t, "idle", n, q, d, b)
  PROVE  Right(t, "idle", n, p, d, b)
BY RunningInsert DEF Right

LEMMA EraseRight ==
  ASSUME NEW d, NEW b, TreeRight(d, b), NEW key \in Key, Erase(key)
  PROVE  \E e, c : TreeRight(e, c)' /\ e[tree'.root] = d[tree.root] \ {key}
<1>1. Right(tree, "idle", Nil, parent, d, b) /\ pc = "idle" /\ node = Nil
  BY DEF TreeRight, Right, Erase
<1>2. Shape(tree, d)
  BY <1>1 DEF Right
<1>3. key \in d[tree.root]
  BY <1>2, SearchEnds DEF Erase
<1>4. PICK out, side, below, above, r : ErasedAs(key, d, out, side, below, above, r)
  <2>1. CASE \A s \in Sides : tree.child[key][s] # Nil
    BY <2>1, <1>2, <1>3, TwoChildren
  <2>2. CASE \E s \in Sides : tree.child[key][s] = Nil
    BY <2>2, <1>2, <1>3, OneChild
  <2>. QED
    BY <2>1, <2>2
<1>. DEFINE black == out \notin tree.red
            run   == IF black THEN "erase" ELSE "idle"
            n     == IF black THEN below ELSE Nil
            q     == IF black THEN above ELSE parent
            f     == Without(d, out)
<1>5. /\ out \in d[tree.root] /\ side \in Sides /\ tree.child[out][Opposite(side)] = Nil
      /\ below = tree.child[out][side] /\ above = tree.parent[out]
      /\ TakenOut(r, tree, out, below, above)
      /\ tree' = Erased(key).tree
      /\ pc' = run /\ node' = n /\ parent' = IF black THEN Erased(key).parent ELSE parent
  BY <1>1, <1>4 DEF ErasedAs, Erase
<1>6. PICK c : IF out \in tree.red THEN Right(r, "idle", Nil, parent, f, c)
                                   ELSE Right(r, "erase", below, above, f, c)
  BY <1>1, <1>5, TakenOutRight
<1>7. Right(r, run, n, q, f, c) /\ f[r.root] = d[tree.root] \ {out}
  BY <1>2, <1>5, <1>6, TakenOutShape
<1>8. CASE out = key /\ Erased(key).tree = r /\ Erased(key).parent = above
  <2>. HIDE DEF f
  <2>. QED
    BY <1>5, <1>7, <1>8 DEF TreeRight
<1>9. CASE /\ Replaces(r, f, key, out) /\ Renamed(Erased(key).tree, r, key, out)
           /\ Erased(key).parent = As(above, key, out) /\ below \notin {key, out}
  <2>1. run # "insert" /\ n \in Place /\ n # key /\ n # out
    <3>1. out \in Key /\ below \in Place /\ Nil \notin Key
      BY <1>2, <1>5, InTree
    <3>. QED
      BY <3>1, <1>9 DEF Place
  <2>. DEFINE next == Erased(key).tree
  <2>2. Renamed(next, r, key, out) /\ Replaces(r, f, key, out)
    BY <1>9
  <2>. HIDE DEF run, n, q, f, next
  <2>3. PICK g : Right(next, run, n, As(q, key, out), Named(f, key, out), g)
    BY <2>1, <2>2, <1>7, RenamedRight
  <2>4. tree' = next
    BY <1>5 DEF next
  <2>7. Named(f, key, out)[next.root] = d[tree.root] \ {key}
    <3>1. Named(f, key, out)[next.root] = AsIn(f[r.root], key, out)
      BY <2>2, <1>7, RenamedShape DEF Right
    <3>. QED
      BY <3>1, <2>2, <1>5, <1>7 DEF Replaces, AsIn
  <2>5. CASE black
    <3>1. parent' = As(q, key, out)
      BY <2>5, <1>5, <1>9 DEF q
    <3>. QED
      BY <2>3, <2>4, <2>7, <3>1, <1>5 DEF TreeRight
  <2>6. CASE ~ black
    <3>1. Right(next, run, n, parent, Named(f, key, out), g)
      BY <2>3, <2>6, IdleAnywhere DEF run
    <3>2. parent' = parent
      BY <2>6, <1>5
    <3>. QED
      BY <2>4, <2>7, <3>1, <3>2, <1>5 DEF TreeRight
  <2>. QED
    BY <2>5, <2>6
<1>. QED
  BY <1>4, <1>8, <1>9 DEF ErasedAs

LEMMA ErasedParent ==
  ASSUME NEW d, Shape(tree, d), NEW key \in d[tree.root]
  PROVE  Erased(key).parent \in Place
<1>1. PICK out, side, below, above, r : ErasedAs(key, d, out, side, below, above, r)
  BY OneChild, TwoChildren
<1>2. out \in Key /\ above \in Place
  BY <1>1, InTree DEF ErasedAs
<1>. QED
  BY <1>1, <1>2 DEF ErasedAs, As, Place

-----------------------------------------------------------------------------
(***************************************************************************)
(* The invariant.                                                          *)
(***************************************************************************)
LEMMA InitRight ==
  ASSUME Init
  PROVE  TreeInv
<1>. DEFINE d == [k \in Place |-> {k} \ {Nil}]
            b == [k \in Place |-> IF k = Nil THEN 0 ELSE 1]
<1>1. /\ Nil \notin Key /\ Nil \in Place /\ Key \subseteq Place
      /\ tree \in Trees /\ tree.root = Nil /\ tree.red = {}
      /\ \A k \in Key : tree.child[k] = NoLinks /\ tree.parent[k] = Nil
      /\ \A k \in Key, s \in Sides : tree.child[k][s] = Nil
      /\ pc = "idle" /\ node = Nil /\ parent = Nil
  BY SideFacts DEF Init, Trees, NoLinks, Place
<1>2. /\ d \in [Place -> SUBSET Key] /\ d[Nil] = {} /\ \A k \in Key : d[k] = {k}
      /\ b \in [Place -> Nat] /\ b[Nil] = 0 /\ \A k \in Key : b[k] = 1
  BY <1>1 DEF Place
<1>. HIDE DEF d, b
<1>3. Subtrees(tree, d) /\ Sorted(tree, d)
  BY <1>1, <1>2 DEF Subtrees, Sorted, Sides
<1>4. LinksUp(tree) /\ Hangs(tree, d) /\ Outside(tree, d)
  BY <1>1, <1>2 DEF LinksUp, Hangs, Outside
<1>5. Reds(tree, d, pc, node)
  BY <1>1 DEF Reds
<1>6. Heights(tree, b, NoGap)
  <2>1. \A k \in Key, s \in Sides : NoGap # <<k, s>>
    BY <1>1 DEF NoGap
  <2>. HIDE DEF NoGap
  <2>. QED
    BY <2>1, <1>1, <1>2 DEF Heights
<1>7. TreeRight(d, b)
  BY <1>1, <1>3, <1>4, <1>5, <1>6, RunningInsert DEF TreeRight, Right, Shape
<1>. QED
  BY <1>1, <1>2, <1>7 DEF TreeInv

(* The loops keep the keys of the tree.                                    *)
LEMMA RebalanceRight ==
  ASSUME NEW d, NEW b, TreeRight(d, b), parent \in Place, Rebalance
  PROVE  /\ \E e, c : TreeRight(e, c)' /\ e[tree'.root] = d[tree.root]
         /\ pc # "idle" /\ pc' \in {pc, "idle"} /\ parent' \in Place
<1>0. Shape(tree, d) /\ tree \in Trees /\ Nil \in Place
  BY DEF TreeRight, Right, Shape, Place
<1>1. CASE InsertRecolour
  BY <1>1, InsertRecolourRight DEF InsertRecolour, RedParent
<1>2. CASE InsertStraighten
  BY <1>2, InsertStraightenRight DEF InsertStraighten, RedParent
<1>3. CASE InsertRotate
  BY <1>3, InsertRotateRight DEF InsertRotate, RedParent
<1>4. CASE InsertDone
  BY <1>4, <1>0, InsertDoneRight DEF InsertDone, Return
<1>5. CASE EraseTurn
  BY <1>5, EraseTurnRight DEF EraseTurn, Lacking
<1>6. CASE EraseRecolour
  <2>1. parent \in Key
    BY <1>6, LackingFacts DEF EraseRecolour, BlackSibling
  <2>2. tree.parent[parent] \in Place
    BY <2>1, <1>0 DEF Trees
  <2>. QED
    BY <1>6, <2>2, EraseRecolourRight DEF EraseRecolour, BlackSibling, Lacking
<1>7. CASE EraseStraighten
  BY <1>7, EraseStraightenRight DEF EraseStraighten, BlackSibling, Lacking
<1>8. CASE EraseRotate
  BY <1>8, EraseRotateRight DEF EraseRotate, BlackSibling, Lacking
<1>9. CASE EraseDone
  BY <1>9, <1>0, EraseDoneRight DEF EraseDone, Return
<1>. QED
  BY <1>1, <1>2, <1>3, <1>4, <1>5, <1>6, <1>7, <1>8, <1>9 DEF Rebalance

(* Every step keeps the tree right.                                        *)
LEMMA StepRight ==
  ASSUME NEW d, NEW b, TreeRight(d, b), parent \in Place, [Next]_vars
  PROVE  /\ \E e, c : TreeRight(e, c)'
         /\ pc' \in {pc, "idle", "insert", "erase"} /\ parent' \in Place
<1>1. Shape(tree, d) /\ tree \in Trees /\ Nil \in Place
  BY DEF TreeRight, Right, Shape, Place
<1>2. ASSUME NEW key \in Key, Insert(key)
      PROVE  /\ \E e, c : TreeRight(e, c)'
             /\ pc' = "insert" /\ parent' \in Place
  BY <1>2, InsertRight DEF Insert
<1>3. ASSUME NEW key \in Key, Erase(key)
      PROVE  /\ \E e, c : TreeRight(e, c)'
             /\ pc' \in {pc, "erase"} /\ parent' \in Place
  <2>1. key \in d[tree.root]
    BY <1>1, <1>3, SearchEnds DEF Erase
  <2>2. Erased(key).parent \in Place
    BY <1>1, <2>1, ErasedParent
  <2>. QED
    BY <2>2, <1>3, EraseRight DEF Erase
<1>4. CASE Rebalance
  BY <1>4, RebalanceRight
<1>5. CASE UNCHANGED vars
  <2>1. TreeRight(d, b)' /\ pc' = pc /\ parent' = parent
    BY <1>5 DEF vars, TreeRight
  <2>. QED
    BY <2>1, <1>5
<1>6. CASE Next
  BY <1>6, <1>2, <1>3, <1>4 DEF Next
<1>. QED
  BY <1>5, <1>6

LEMMA Places ==
  ASSUME NEW t, NEW running \in {"idle", "insert", "erase"}, NEW n, NEW q, NEW d, NEW b,
         Right(t, running, n, q, d, b)
  PROVE  /\ t \in Trees /\ d \in [Place -> SUBSET Key] /\ b \in [Place -> Nat]
         /\ n \in Place /\ (running = "insert" => n \in Key)
<1>1. t \in Trees /\ d \in [Place -> SUBSET Key] /\ b \in [Place -> Nat]
  BY DEF Right, Shape, Subtrees, Heights
<1>2. running = "insert" => n \in Key
  BY <1>1 DEF Right, Trees
<1>3. running # "insert" => n \in Place
  <2>1. CASE running = "erase" /\ n # t.root
    <3>1. q \in Key /\ n = t.child[q][Side(t, q, n)]
      <4>1. Shape(t, d) /\ q \in d[t.root] /\ n = t.child[q][Side(t, q, n)]
        BY <2>1 DEF Right
      <4>. QED
        BY <4>1, InTree
    <3>2. Side(t, q, n) \in Sides
      BY DEF Side, Sides
    <3>. QED
      BY <3>1, <3>2, <1>1 DEF Trees
  <2>2. CASE running = "erase" /\ n = t.root
    BY <2>2, <1>1 DEF Trees
  <2>3. CASE running = "idle"
    BY <2>3 DEF Right, Place
  <2>. QED
    BY <2>1, <2>2, <2>3
<1>. QED
  BY <1>1, <1>2, <1>3 DEF Place

LEMMA TreeStep == TreeInv /\ [Next]_vars => TreeInv'
<1>. SUFFICES ASSUME TreeInv, [Next]_vars PROVE TreeInv'
  OBVIOUS
<1>1. PICK d, b : TreeRight(d, b)
  BY DEF TreeInv
<1>2. PICK e, c : TreeRight(e, c)'
  BY <1>1, StepRight DEF TreeInv
<1>3. pc' \in {"idle", "insert", "erase"} /\ parent' \in Place
  BY <1>1, StepRight DEF TreeInv
<1>4. tree' \in Trees /\ e \in [Place -> SUBSET Key] /\ c \in [Place -> Nat] /\ node' \in Place
  <2>1. Right(tree', pc', node', parent', e, c)
    BY <1>2 DEF TreeRight
  <2>. QED
    BY <2>1, <1>3, Places
<1>. QED
  BY <1>2, <1>3, <1>4 DEF TreeInv

(* The inductive invariant of the tree.                                    *)
THEOREM TreeInvariant == Spec => []TreeInv
  BY InitRight, TreeStep, PTL DEF Spec

(* The variables keep their types.                                         *)
THEOREM TreeTypeCorrect == Spec => []TypeOK
<1>1. TreeInv => TypeOK
  <2>. SUFFICES ASSUME TreeInv PROVE TypeOK
    OBVIOUS
  <2>1. tree \in Trees /\ node \in Place /\ (pc = "insert" => node \in Key)
    BY Places DEF TreeInv, TreeRight
  <2>. QED
    BY <2>1 DEF TreeInv, TypeOK, Trees
<1>. QED
  BY <1>1, TreeInvariant, PTL

(* The links down and the links up agree after every step of every loop.   *)
THEOREM TreeLinksAgree == Spec => []LinksAgree
<1>1. TreeInv => LinksAgree
  BY DEF TreeInv, TreeRight, Right, Shape, LinksUp, LinksAgree
<1>. QED
  BY <1>1, TreeInvariant, PTL

(* Two red nodes in a row are only where the running loop is at work.      *)
THEOREM TreeRedRule == Spec => []RedRule
<1>1. TreeInv => RedRule
  BY DEF TreeInv, TreeRight, Right, Reds, Red, RedRule
<1>. QED
  BY <1>1, TreeInvariant, PTL

(* The loops of rb_insert and rb_erase follow no null pointer.             *)
THEOREM TreeFollowsNoNull == Spec => []NoNullFollowed
<1>1. TreeInv => NoNullFollowed
  <2>. SUFFICES ASSUME TreeInv PROVE NoNullFollowed
    OBVIOUS
  <2>1. PICK d, b : TreeRight(d, b)
    BY DEF TreeInv
  <2>2. RedParent => Gparent(node) # Nil
    BY <2>1, RedParentFacts, SideFacts DEF Gparent
  <2>3. Lacking => parent # Nil /\ Sibling # Nil
    BY <2>1, LackingFacts, SideFacts
  <2>. QED
    BY <2>2, <2>3 DEF NoNullFollowed
<1>. QED
  BY <1>1, TreeInvariant, PTL

-----------------------------------------------------------------------------
(* A search from the root finds the keys of the tree and no other.         *)
LEMMA FoundIs ==
  ASSUME NEW d, Shape(tree, d)
  PROVE  Found = d[tree.root]
<1>1. d[tree.root] \subseteq Key
  BY DEF Shape, Subtrees, Trees
<1>2. \A k \in Key : SearchAuxiliary(tree, k).found = k <=> k \in d[tree.root]
  BY SearchEnds
<1>. QED
  BY <1>1, <1>2 DEF Found

LEMMA FoundNext ==
  ASSUME NEW d, Shape(tree, d)'
  PROVE  Found' = d[tree'.root]
<1>1. d[tree'.root] \subseteq Key
  BY DEF Shape, Subtrees, Trees
<1>2. \A k \in Key : SearchAuxiliary(tree', k).found = k <=> k \in d[tree'.root]
  BY SearchEnds
<1>. QED
  BY <1>1, <1>2 DEF Found

(* What a search finds before and after a step.                            *)
LEMMA FoundAcross ==
  ASSUME NEW d, NEW b, NEW e, NEW c, TreeRight(d, b), TreeRight(e, c)'
  PROVE  Found = d[tree.root] /\ Found' = e[tree'.root]
<1>1. Shape(tree, d) /\ Shape(tree, e)'
  BY DEF TreeRight, Right
<1>. QED
  BY <1>1, FoundIs, FoundNext DEF Found

LEMMA InsertAddsItsKey ==
  ASSUME TreeInv, NEW key \in Key, Insert(key)
  PROVE  Index!Insert(key)
<1>1. PICK d, b : TreeRight(d, b)
  BY DEF TreeInv
<1>2. PICK e, c : TreeRight(e, c)' /\ e[tree'.root] = d[tree.root] \cup {key}
  BY <1>1, InsertRight
<1>3. Found = d[tree.root] /\ Found' = e[tree'.root]
  BY <1>1, <1>2, FoundAcross
<1>4. key \notin d[tree.root]
  <2>1. Shape(tree, d)
    BY <1>1 DEF TreeRight, Right
  <2>2. SearchAuxiliary(tree, key).found = Nil
    BY DEF Insert
  <2>3. SearchAuxiliary(tree, key).found # key
    BY <2>2, TreeAssumption
  <2>. QED
    BY <2>1, <2>3, SearchEnds
<1>5. key \notin Found /\ Found' = Found \cup {key}
  BY <1>2, <1>3, <1>4
<1>. QED
  BY <1>5 DEF Insert, Index!Insert

LEMMA EraseTakesItsKey ==
  ASSUME TreeInv, NEW key \in Key, Erase(key)
  PROVE  Index!Erase(key)
<1>1. PICK d, b : TreeRight(d, b)
  BY DEF TreeInv
<1>2. PICK e, c : TreeRight(e, c)' /\ e[tree'.root] = d[tree.root] \ {key}
  BY <1>1, EraseRight
<1>3. Found = d[tree.root] /\ Found' = e[tree'.root]
  BY <1>1, <1>2, FoundAcross
<1>4. key \in d[tree.root]
  <2>1. Shape(tree, d)
    BY <1>1 DEF TreeRight, Right
  <2>. QED
    BY <2>1, SearchEnds DEF Erase
<1>5. key \in Found /\ Found' = Found \ {key}
  BY <1>2, <1>3, <1>4
<1>6. pc = "idle"
  BY DEF Erase
<1>. QED
  BY <1>5, <1>6 DEF Index!Erase

LEMMA IndexStep == TreeInv /\ [Next]_vars => [Index!Next]_(Index!vars)
<1>. SUFFICES ASSUME TreeInv, [Next]_vars PROVE [Index!Next]_(Index!vars)
  OBVIOUS
<1>1. ASSUME NEW key \in Key, Insert(key) PROVE Index!Next
  BY <1>1, InsertAddsItsKey DEF Index!Next
<1>2. ASSUME NEW key \in Key, Erase(key) PROVE Index!Next
  BY <1>2, EraseTakesItsKey DEF Index!Next
<1>3. CASE Rebalance
  <2>1. PICK d, b : TreeRight(d, b)
    BY DEF TreeInv
  <2>2. /\ \E e, c : TreeRight(e, c)' /\ e[tree'.root] = d[tree.root]
        /\ pc # "idle"
    BY <1>3, <2>1, RebalanceRight DEF TreeInv
  <2>3. PICK e, c : TreeRight(e, c)' /\ e[tree'.root] = d[tree.root]
    BY <2>2
  <2>4. Found' = Found
    BY <2>1, <2>3, FoundAcross
  <2>. QED
    BY <2>2, <2>4 DEF Index!Next, Index!Finish
<1>4. CASE UNCHANGED vars
  <2>1. UNCHANGED <<tree, pc>>
    BY <1>4 DEF vars
  <2>2. Found' = Found
    BY <2>1 DEF Found
  <2>. QED
    BY <2>1, <2>2 DEF Index!vars
<1>. QED
  BY <1>1, <1>2, <1>3, <1>4 DEF Next

(* Whatever a loop has still to put right, a search finds every key that   *)
(* was inserted and not erased: rb_insert adds the key it is called with,  *)
(* rb_erase takes its key away, and the loops change nothing.  The tree    *)
(* implements the index, but for the promise that calls return.            *)
THEOREM TreeIsIndex == Spec => Index!Init /\ [][Index!Next]_(Index!vars) /\ CallsAgree
<1>1. Init => Index!Init
  <2>. SUFFICES ASSUME Init PROVE Index!Init
    OBVIOUS
  <2>1. PICK d, b : TreeRight(d, b)
    BY InitRight DEF TreeInv
  <2>2. Found = d[tree.root] /\ d[Nil] = {}
    BY <2>1, FoundIs DEF TreeRight, Right, Shape, Subtrees
  <2>3. tree.root = Nil /\ pc = "idle"
    BY DEF Init
  <2>. QED
    BY <2>2, <2>3 DEF Index!Init
<1>2. TreeInv /\ [Next]_vars =>
        [\A key \in Key : /\ Insert(key) => Index!Insert(key)
                          /\ Erase(key) => Index!Erase(key)]_vars
  BY InsertAddsItsKey, EraseTakesItsKey
<1>. QED
  BY <1>1, <1>2, IndexStep, TreeInvariant, PTL DEF Spec, CallsAgree

-----------------------------------------------------------------------------
(***************************************************************************)
(* The ways up.                                                            *)
(***************************************************************************)
PathBody(f) == [n \in Place |-> IF n = Nil THEN {} ELSE {n} \cup f[tree.parent[n]]]
Paths == CHOOSE f : f = PathBody(f)

LEMMA PathIs ==
  ASSUME NEW k
  PROVE  Path(k) = Paths[k]
BY Zenon DEF Path, Paths, PathBody

(* Above a node of the tree is a larger subtree.                           *)
LEMMA AboveFacts ==
  ASSUME NEW t, NEW d, Shape(t, d), NEW k \in d[t.root], k # t.root
  PROVE  /\ k \in Key /\ t.parent[k] \in d[t.root] /\ t.parent[k] \in Key
         /\ Cardinality(d[k]) < Cardinality(d[t.parent[k]])
         /\ t.parent[k] \notin d[k] /\ d[k] \subseteq d[t.parent[k]]
<1>. DEFINE p == t.parent[k]
            s == Side(t, p, k)
<1>1. k \in Key /\ t.root \in Key
  BY InTree
<1>2. p \in d[t.root] /\ p \in Key /\ t.child[p][s] = k
  <2>1. p \in d[t.root]
    BY <1>1 DEF Shape, Hangs
  <2>. QED
    BY <2>1, ShapeFacts
<1>3. s \in Sides
  BY DEF Side, Sides
<1>. HIDE DEF p, s
<1>4. Cardinality(d[t.child[p][s]]) < Cardinality(d[p])
  BY <1>2, <1>3, Smaller
<1>5. p \notin d[t.child[p][s]] /\ d[t.child[p][s]] \subseteq d[p]
  BY <1>2, <1>3, ShapeFacts
<1>. QED
  BY <1>1, <1>2, <1>4, <1>5 DEF p

(* What holds at the root, and goes down each link, holds in the tree.     *)
GoesDown(P, t, d) ==
  t.root \in P /\ \A k \in d[t.root] \ {t.root} : t.parent[k] \in P => k \in P

LEMMA DownTheTree ==
  ASSUME NEW t, NEW d, Shape(t, d), NEW P, GoesDown(P, t, d)
  PROVE  d[t.root] \subseteq P
<1>. DEFINE size(k) == Cardinality(d[k])
            rank(k) == Cardinality(Key) - size(k)
            S == {n \in Nat : \E k \in d[t.root] \ P : n = rank(k)}
<1>1. \A k \in d[t.root] : k \in Key /\ rank(k) \in Nat /\ size(k) \in Nat
  <2>1. d[t.root] \subseteq Key
    BY DEF Shape, Subtrees, Trees
  <2>2. \A k \in Key : size(k) \in Nat /\ size(k) <= Cardinality(Key) /\ Cardinality(Key) \in Nat
    BY Smaller DEF Place
  <2>. HIDE DEF size
  <2>. QED
    BY <2>1, <2>2
<1>. SUFFICES ASSUME NEW j \in d[t.root] \ P PROVE FALSE
  OBVIOUS
<1>2. S \subseteq Nat /\ S # {}
  <2>1. rank(j) \in S
    BY <1>1
  <2>. QED
    BY <2>1
<1>. HIDE DEF S
<1>3. PICK n \in S : \A i \in S : n <= i
  BY <1>2, LeastNat
<1>4. PICK k \in d[t.root] \ P : n = rank(k)
  BY <1>3 DEF S
<1>5. k # t.root /\ t.parent[k] \notin P
  BY <1>4 DEF GoesDown
<1>6. t.parent[k] \in d[t.root] \ P /\ size(k) < size(t.parent[k])
  BY <1>5, AboveFacts
<1>7. rank(t.parent[k]) \in S
  BY <1>1, <1>6 DEF S
<1>8. rank(t.parent[k]) < rank(k)
  <2>1. size(k) \in Nat /\ size(t.parent[k]) \in Nat /\ Cardinality(Key) \in Nat
    BY <1>1, <1>6, Smaller
  <2>. HIDE DEF size
  <2>. QED
    BY <2>1, <1>6
<1>9. rank(k) <= rank(t.parent[k])
  BY <1>3, <1>4, <1>7
<1>10. rank(k) \in Nat /\ rank(t.parent[k]) \in Nat
  BY <1>1, <1>4, <1>6
<1>. HIDE DEF rank
<1>. QED
  BY <1>8, <1>9, <1>10

LEMMA PathFacts ==
  ASSUME NEW d, Shape(tree, d)
  PROVE  /\ Path(Nil) = {} /\ \A k \in Key : Path(k) = {k} \cup Path(tree.parent[k])
         /\ \A k \in Place : Path(k) \subseteq Key
<1>. DEFINE D    == Place
            Stop == {Nil}
            R    == SUBSET Key
            nxt  == [n \in D |-> IF n = Nil THEN Nil ELSE tree.parent[n]]
            m    == [n \in D |-> IF n = Nil THEN 0 ELSE Cardinality(Key) - Cardinality(d[n]) + 1]
            base == [n \in D |-> {}]
            g    == [p \in D \X R |-> ({p[1]} \cap Key) \cup p[2]]
<1>1. tree \in Trees /\ Nil \notin Key /\ Nil \in Place
  BY SideFacts DEF Shape, Place
<1>2. \A k \in Key : tree.parent[k] \in Place
  BY <1>1 DEF Trees
<1>3. /\ Cardinality(Key) \in Nat
      /\ \A k \in Place : Cardinality(d[k]) \in Nat /\ Cardinality(d[k]) <= Cardinality(Key)
  BY Smaller
<1>4. Descends(D, Stop, nxt, m, Cardinality(Key) + 1)
  <2>1. nxt \in [D -> D]
    BY <1>1, <1>2 DEF Place
  <2>2. m \in [D -> Nat] /\ \A k \in D : m[k] <= Cardinality(Key) + 1
    BY <1>3
  <2>3. ASSUME NEW k \in D \ Stop PROVE m[nxt[k]] < m[k]
    <3>1. k \in Key /\ k # Nil /\ nxt[k] = tree.parent[k] /\ nxt[k] \in D
      BY <2>1 DEF Place
    <3>2. m[k] = Cardinality(Key) - Cardinality(d[k]) + 1
      BY <3>1
    <3>3. CASE tree.parent[k] = Nil
      <4>1. m[nxt[k]] = 0
        BY <3>1, <3>3
      <4>2. Cardinality(d[k]) \in Nat /\ Cardinality(d[k]) <= Cardinality(Key) /\ Cardinality(Key) \in Nat
        BY <3>1, <1>3
      <4>. HIDE DEF m
      <4>. QED
        BY <3>2, <4>1, <4>2
    <3>4. CASE tree.parent[k] # Nil
      <4>1. k \in d[tree.root] /\ k # tree.root
        BY <3>1, <3>4, <1>1 DEF Shape, Outside, LinksUp
      <4>2. Cardinality(d[k]) < Cardinality(d[tree.parent[k]])
        BY <4>1, AboveFacts
      <4>3. m[nxt[k]] = Cardinality(Key) - Cardinality(d[tree.parent[k]]) + 1
        BY <3>1, <3>4
      <4>4. /\ Cardinality(d[k]) \in Nat /\ Cardinality(d[tree.parent[k]]) \in Nat
            /\ Cardinality(Key) \in Nat
        BY <3>1, <1>2, <1>3
      <4>. HIDE DEF m
      <4>. QED
        BY <3>2, <4>2, <4>3, <4>4
    <3>. QED
      BY <3>3, <3>4
  <2>4. Cardinality(Key) + 1 \in Nat
    BY <1>3
  <2>. QED
    BY <2>1, <2>2, <2>3, <2>4, <1>1 DEF Descends
<1>5. base \in [D -> R] /\ g \in [D \X R -> R]
  OBVIOUS
<1>6. \A x \in D, y \in R : base[x] = {} /\ g[<<x, y>>] = ({x} \cap Key) \cup y
  OBVIOUS
<1>7. \A x \in D \ Stop : nxt[x] = tree.parent[x] /\ nxt[x] \in D /\ x \in Key
  BY <1>2 DEF Place
<1>. HIDE DEF D, R, Stop, nxt, m, base, g
<1>8. PICK f \in [D -> R] : Recurses(f, D, Stop, nxt, base, g)
  BY <1>4, <1>5, RecursionExists
<1>9. f = PathBody(f)
  <2>1. ASSUME NEW x \in D PROVE f[x] = IF x = Nil THEN {} ELSE {x} \cup f[tree.parent[x]]
    <3>1. f[x] = IF x \in Stop THEN base[x] ELSE g[<<x, f[nxt[x]]>>]
      BY <1>8 DEF Recurses
    <3>2. CASE x = Nil
      BY <3>1, <3>2, <1>6 DEF Stop
    <3>3. CASE x # Nil
      <4>1. x \in D \ Stop
        BY <3>3 DEF Stop
      <4>2. f[nxt[x]] \in R
        BY <4>1, <1>7
      <4>. QED
        BY <3>1, <3>3, <4>1, <4>2, <1>6, <1>7
    <3>. QED
      BY <3>2, <3>3
  <2>. QED
    BY <2>1 DEF PathBody, D
<1>10. Paths = PathBody(Paths)
  BY <1>9, Zenon DEF Paths
<1>11. \A x \in Place : Paths[x] = IF x = Nil THEN {} ELSE {x} \cup Paths[tree.parent[x]]
  BY <1>10, Zenon DEF PathBody
<1>12. ASSUME NEW k \in Place PROVE Paths[k] \subseteq Key
  <2>. DEFINE Bad == {x \in Place : ~ (Paths[x] \subseteq Key)}
              T == {n \in Nat : \E x \in Bad : n = m[x]}
  <2>. SUFFICES ASSUME k \in Bad PROVE FALSE
    OBVIOUS
  <2>1. \A x \in Place : m[x] \in Nat
    BY <1>4 DEF Descends, D
  <2>2. T \subseteq Nat /\ T # {}
    <3>1. m[k] \in T
      BY <2>1
    <3>. QED
      BY <3>1
  <2>. HIDE DEF T
  <2>3. PICK n \in T : \A i \in T : n <= i
    BY <2>2, LeastNat
  <2>4. PICK x \in Bad : n = m[x]
    BY <2>3 DEF T
  <2>5. x # Nil /\ x \in Key
    BY <2>4, <1>11 DEF Place
  <2>6. tree.parent[x] \in Bad
    <3>1. Paths[x] = {x} \cup Paths[tree.parent[x]] /\ tree.parent[x] \in Place
      BY <2>4, <2>5, <1>2, <1>11
    <3>2. ~ (Paths[x] \subseteq Key)
      BY <2>4
    <3>. QED
      BY <3>1, <3>2, <2>5
  <2>7. m[tree.parent[x]] < m[x]
    BY <2>5, <1>4, <1>7 DEF Descends, D, Stop, Place
  <2>8. m[tree.parent[x]] \in T
    BY <2>1, <2>6 DEF T
  <2>. QED
    BY <2>1, <2>3, <2>4, <2>6, <2>7, <2>8
<1>13. \A k \in Place : Path(k) = Paths[k]
  BY PathIs
<1>14. ASSUME NEW k \in Key PROVE Path(k) = {k} \cup Path(tree.parent[k])
  BY <1>1, <1>2, <1>11, <1>13 DEF Place
<1>. QED
  BY <1>1, <1>11, <1>12, <1>13, <1>14

(* A node is below each node of its path, and not on its parent's.         *)
LEMMA PathAbove ==
  ASSUME NEW d, Shape(tree, d)
  PROVE  \A k \in d[tree.root] : /\ \A x \in Path(k) : k \in d[x]
                                 /\ k # tree.root => k \notin Path(tree.parent[k])
<1>. DEFINE P == {k \in Key : \A x \in Path(k) : k \in d[x]}
<1>1. CASE d[tree.root] = {}
  BY <1>1
<1>2. CASE d[tree.root] # {}
  <2>1. /\ tree.root \in Key /\ d[tree.root] \subseteq Key /\ Nil \notin Key
        /\ \A k \in Key : k \in d[k] /\ \A j \in d[k] : d[j] \subseteq d[k]
        /\ tree.parent[tree.root] = Nil
    <3>1. PICK x : x \in d[tree.root]
      BY <1>2
    <3>. QED
      BY <3>1, InTree DEF Place, Shape, Subtrees
  <2>2. GoesDown(P, tree, d)
    <3>1. tree.root \in P
      <4>1. Path(tree.root) = {tree.root} \cup Path(Nil)
        BY <2>1, PathFacts
      <4>2. Path(Nil) = {}
        BY PathFacts
      <4>. QED
        BY <4>1, <4>2, <2>1
    <3>2. ASSUME NEW k \in d[tree.root] \ {tree.root}, tree.parent[k] \in P PROVE k \in P
      <4>1. k \in Key /\ k \in d[tree.parent[k]]
        BY <2>1, AboveFacts
      <4>2. Path(k) = {k} \cup Path(tree.parent[k])
        BY <4>1, PathFacts
      <4>3. \A x \in Path(tree.parent[k]) : x \in Key /\ tree.parent[k] \in d[x]
        BY <3>2, <4>1, PathFacts DEF Place
      <4>. QED
        BY <4>1, <4>2, <4>3, <2>1
    <3>. HIDE DEF P
    <3>. QED
      BY <3>1, <3>2 DEF GoesDown
  <2>3. d[tree.root] \subseteq P
    <3>. HIDE DEF P
    <3>. QED
      BY <2>2, DownTheTree
  <2>4. ASSUME NEW k \in d[tree.root], k # tree.root PROVE k \notin Path(tree.parent[k])
    <3>1. tree.parent[k] \in P /\ tree.parent[k] \notin d[k]
      BY <2>3, <2>4, AboveFacts
    <3>. QED
      BY <3>1
  <2>. QED
    BY <2>3, <2>4
<1>. QED
  BY <1>1, <1>2

(* On the way to a node the black nodes passed, with one more if the loop  *)
(* of an erase is at work there, and those still below are always as many. *)
Passed(k) == IF pc = "erase" /\ node \in Path(k) THEN 1 ELSE 0
AllBlacks(b) == b[tree.root] + (IF pc = "erase" /\ node = tree.root THEN 1 ELSE 0)

LEMMA GapAbove ==
  ASSUME NEW t, NEW d, Shape(t, d), NEW running, NEW n, NEW q,
         running = "erase" /\ n # t.root => q \in d[t.root] /\ n = t.child[q][Side(t, q, n)],
         NEW k \in Key, NEW s \in Sides
  PROVE  Gap(t, running, n, q) = <<k, s>> <=>
           /\ running = "erase" /\ n # t.root /\ n = t.child[k][s]
           /\ n = Nil => k = q /\ s = Side(t, q, n)
<1>1. CASE running = "erase" /\ n # t.root
  <2>. DEFINE here == Side(t, q, n)
  <2>1. q \in d[t.root] /\ n = t.child[q][here] /\ here \in Sides /\ q \in Key
    <3>1. q \in d[t.root] /\ n = t.child[q][here]
      BY <1>1
    <3>2. here \in Sides
      BY DEF Side, Sides
    <3>. QED
      BY <3>1, <3>2, InTree
  <2>2. Gap(t, running, n, q) = <<q, here>>
    BY <1>1 DEF Gap
  <2>. HIDE DEF here
  <2>3. <<q, here>> = <<k, s>> <=> k = q /\ s = here
    OBVIOUS
  <2>4. ASSUME n # Nil, n = t.child[k][s] PROVE k = q /\ s = here
    <3>1. t.parent[n] = k /\ t.child[k][Opposite(s)] # n /\ t.parent[n] = q
      <4>1. \A x \in Key, i \in Sides : t.child[x][i] # Nil =>
              t.parent[t.child[x][i]] = x /\ t.child[x][Opposite(i)] # t.child[x][i]
        BY ShapeFacts
      <4>. HIDE DEF here
      <4>2. t.child[k][s] # Nil => t.parent[t.child[k][s]] = k
                                   /\ t.child[k][Opposite(s)] # t.child[k][s]
        BY <4>1
      <4>3. t.child[q][here] # Nil => t.parent[t.child[q][here]] = q
        BY <2>1, <4>1
      <4>. QED
        BY <2>1, <2>4, <4>2, <4>3
    <3>2. s = here \/ here = Opposite(s)
      BY <2>1, SideFacts
    <3>. QED
      BY <2>1, <3>1, <3>2
  <2>. QED
    BY <1>1, <2>1, <2>2, <2>3, <2>4 DEF here
<1>2. CASE ~ (running = "erase" /\ n # t.root)
  <2>1. Gap(t, running, n, q) = NoGap /\ NoGap # <<k, s>>
    BY <1>2, SideFacts DEF Gap, NoGap
  <2>. QED
    BY <1>2, <2>1
<1>. QED
  BY <1>1, <1>2

LEMMA BlacksOnPath ==
  ASSUME NEW d, NEW b, TreeRight(d, b)
  PROVE  \A k \in d[tree.root] :
           Cardinality(Path(k) \ tree.red) + Passed(k) + b[k]
             = AllBlacks(b) + (IF k \in tree.red THEN 0 ELSE 1)
<1>. DEFINE high(k) == Cardinality(Path(k) \ tree.red) + Passed(k) + b[k]
            black(k) == IF k \in tree.red THEN 0 ELSE 1
            P == {k \in Key : high(k) = AllBlacks(b) + black(k)}
            gap == Gap(tree, pc, node, parent)
            lack(k, s) == IF gap = <<k, s>> THEN 1 ELSE 0
<1>1. /\ Shape(tree, d) /\ Heights(tree, b, gap)
      /\ pc = "erase" /\ node # tree.root =>
           parent \in d[tree.root] /\ node = tree.child[parent][Side(tree, parent, node)]
  BY DEF TreeRight, Right
<1>2. SUFFICES ASSUME d[tree.root] # {} PROVE d[tree.root] \subseteq P
  BY DEF P
<1>3. /\ tree.root \in Key /\ d[tree.root] \subseteq Key /\ Nil \notin Key
      /\ tree.parent[tree.root] = Nil /\ \A k \in Key, s \in Sides : tree.child[k][s] \in Place
  <2>1. PICK x : x \in d[tree.root]
    BY <1>2
  <2>. QED
    BY <2>1, <1>1, InTree DEF Place
<1>4. \A k \in Place : b[k] \in Nat
  BY <1>1 DEF Heights
<1>5. /\ Path(Nil) = {} /\ \A k \in Key : Path(k) = {k} \cup Path(tree.parent[k])
      /\ \A k \in Place : Path(k) \subseteq Key
  BY <1>1, PathFacts
<1>6. ASSUME NEW k \in Place
      PROVE  IsFiniteSet(Path(k) \ tree.red) /\ Cardinality(Path(k) \ tree.red) \in Nat
  <2>1. Path(k) \ tree.red \subseteq Key
    <3>1. Path(k) \subseteq Key
      BY <1>5
    <3>. QED
      BY <3>1
  <2>2. IsFiniteSet(Path(k) \ tree.red)
    BY <2>1, TreeAssumption, FS_Subset
  <2>. QED
    BY <2>2, FS_CardinalityType
<1>7. ASSUME NEW k \in Key, k \notin Path(tree.parent[k]), tree.parent[k] \in Place
      PROVE  Cardinality(Path(k) \ tree.red) = Cardinality(Path(tree.parent[k]) \ tree.red) + black(k)
  <2>. DEFINE S == Path(tree.parent[k]) \ tree.red
  <2>1. Path(k) \ tree.red = IF k \in tree.red THEN S ELSE S \cup {k}
    BY <1>5
  <2>2. IsFiniteSet(S) /\ Cardinality(S) \in Nat /\ k \notin S
    BY <1>6, <1>7
  <2>. HIDE DEF S
  <2>3. Cardinality(S \cup {k}) = Cardinality(S) + 1
    BY <2>2, FS_AddElement
  <2>. QED
    BY <2>1, <2>2, <2>3 DEF S
<1>8. GoesDown(P, tree, d)
  <2>1. tree.root \in P
    <3>. DEFINE r == tree.root
    <3>1. Path(r) = {r} /\ Path(tree.parent[r]) = {}
      BY <1>3, <1>5
    <3>2. Cardinality(Path(tree.parent[r]) \ tree.red) = 0
      <4>1. Path(tree.parent[r]) \ tree.red = {}
        BY <3>1
      <4>. QED
        BY <4>1, FS_EmptySet
    <3>3. Cardinality(Path(r) \ tree.red) = 0 + black(r)
      <4>1. r \in Key /\ r \notin Path(tree.parent[r]) /\ tree.parent[r] \in Place
        BY <3>1, <1>3 DEF Place
      <4>2. Cardinality(Path(r) \ tree.red) = Cardinality(Path(tree.parent[r]) \ tree.red) + black(r)
        BY <4>1, <1>7
      <4>. QED
        BY <3>2, <4>2
    <3>4. Passed(r) = IF pc = "erase" /\ node = tree.root THEN 1 ELSE 0
      BY <3>1 DEF Passed
    <3>5. b[r] \in Nat
      BY <1>3, <1>4 DEF Place
    <3>6. high(r) = AllBlacks(b) + black(r)
      BY <3>3, <3>4, <3>5 DEF AllBlacks
    <3>. QED
      BY <3>6, <1>3
  <2>2. ASSUME NEW k \in d[tree.root] \ {tree.root}, tree.parent[k] \in P PROVE k \in P
    <3>. DEFINE p == tree.parent[k]
                s == Side(tree, p, k)
    <3>1. k \in Key /\ p \in Key /\ k \notin Path(p) /\ p \in Place /\ k \in Place
      BY <1>1, AboveFacts, PathAbove DEF Place
    <3>2. tree.child[p][s] = k /\ s \in Sides
      <4>1. tree.child[p][s] = k
        BY <2>2, <1>1, ShapeFacts
      <4>. QED
        BY <4>1 DEF Side, Sides
    <3>3. Cardinality(Path(k) \ tree.red) = Cardinality(Path(p) \ tree.red) + black(k)
      BY <3>1, <1>7
    <3>4. high(p) = AllBlacks(b) + black(p)
      BY <2>2
    <3>. HIDE DEF s
    <3>5. b[p] = b[k] + lack(p, s) + black(p)
      BY <3>1, <3>2, <1>1 DEF Heights
    <3>6. gap = <<p, s>> <=> pc = "erase" /\ node = k
      <4>1. gap = <<p, s>> <=>
              /\ pc = "erase" /\ node # tree.root /\ node = tree.child[p][s]
              /\ node = Nil => p = parent /\ s = Side(tree, parent, node)
        <5>. HIDE DEF p
        <5>. QED
          BY <3>1, <3>2, <1>1, GapAbove
      <4>2. k # Nil /\ k # tree.root
        BY <3>1, <2>2, <1>3
      <4>. QED
        BY <4>1, <4>2, <3>2
    <3>7. Passed(k) = Passed(p) + lack(p, s)
      <4>1. node \in Path(k) <=> node = k \/ node \in Path(p)
        BY <3>1, <1>5
      <4>2. lack(p, s) = IF pc = "erase" /\ node = k THEN 1 ELSE 0
        BY <3>6
      <4>. HIDE DEF lack, p
      <4>. QED
        BY <3>1, <4>1, <4>2 DEF Passed
    <3>8. /\ Cardinality(Path(p) \ tree.red) \in Nat /\ b[p] \in Nat /\ b[k] \in Nat
          /\ Passed(p) \in Nat /\ lack(p, s) \in Nat
      BY <3>1, <1>4, <1>6 DEF Passed
    <3>9. AllBlacks(b) \in Nat
      BY <1>3, <1>4 DEF AllBlacks, Place
    <3>. HIDE DEF p, lack
    <3>10. high(k) = AllBlacks(b) + black(k)
      BY <3>3, <3>4, <3>5, <3>7, <3>8, <3>9
    <3>. QED
      BY <3>1, <3>10
  <2>. HIDE DEF P
  <2>. QED
    BY <2>1, <2>2 DEF GoesDown
<1>. HIDE DEF P
<1>. QED
  BY <1>1, <1>8, DownTheTree

LEMMA AtMostOne ==
  ASSUME NEW S, NEW x, S \subseteq {x}
  PROVE  Cardinality(S) <= 1
<1>1. S = {} \/ S = {x}
  OBVIOUS
<1>2. Cardinality({}) = 0 /\ Cardinality({x}) = 1
  BY FS_EmptySet, FS_Singleton
<1>. QED
  BY <1>1, <1>2

(* Every way down from the root to a place with no node counts the same    *)
(* number of black nodes, if the place where an erase took one counts it.  *)
THEOREM TreeBlackHeights == Spec => []BlackHeights
<1>1. TreeInv => BlackHeights
  <2>. SUFFICES ASSUME TreeInv PROVE BlackHeights
    OBVIOUS
  <2>1. PICK d, b : TreeRight(d, b)
    BY DEF TreeInv
  <2>. DEFINE gaps == {g \in Found \X Sides : tree.child[g[1]][g[2]] = Nil}
              lacks(g) == pc = "erase" /\ \/ node \in Path(g[1])
                                          \/ node = Nil /\ g = <<parent, Side(tree, parent, Nil)>>
              blacks(g) == Cardinality(Path(g[1]) \ tree.red) + (IF lacks(g) THEN 1 ELSE 0)
  <2>2. /\ Shape(tree, d) /\ Heights(tree, b, Gap(tree, pc, node, parent))
        /\ pc = "erase" /\ node # tree.root =>
             parent \in d[tree.root] /\ node = tree.child[parent][Side(tree, parent, node)]
    BY <2>1 DEF TreeRight, Right
  <2>3. ASSUME NEW g \in gaps PROVE blacks(g) = AllBlacks(b)
    <3>. DEFINE k == g[1]
                s == g[2]
                passed == Cardinality(Path(k) \ tree.red)
                lack == IF Gap(tree, pc, node, parent) = <<k, s>> THEN 1 ELSE 0
                black == IF k \in tree.red THEN 0 ELSE 1
    <3>1. k \in d[tree.root] /\ s \in Sides /\ tree.child[k][s] = Nil /\ g = <<k, s>>
      BY <2>2, FoundIs
    <3>2. k \in Key /\ Nil \notin Key /\ tree.root \in Key
      BY <2>2, <3>1, InTree
    <3>3. passed + Passed(k) + b[k] = AllBlacks(b) + black
      BY <2>1, <3>1, BlacksOnPath
    <3>4. b[k] = b[Nil] + lack + black /\ b[Nil] = 0 /\ b \in [Place -> Nat]
      BY <2>2, <3>1, <3>2 DEF Heights
    <3>5. lack = IF pc = "erase" /\ node = Nil /\ g = <<parent, Side(tree, parent, Nil)>>
                 THEN 1 ELSE 0
      <4>. HIDE DEF k, s
      <4>1. Gap(tree, pc, node, parent) = <<k, s>> <=>
              /\ pc = "erase" /\ node # tree.root /\ node = tree.child[k][s]
              /\ node = Nil => k = parent /\ s = Side(tree, parent, node)
        BY <2>2, <3>1, <3>2, GapAbove
      <4>2. g = <<parent, Side(tree, parent, Nil)>> <=> k = parent /\ s = Side(tree, parent, Nil)
        BY <3>1
      <4>. QED
        BY <3>1, <3>2, <4>1, <4>2
    <3>6. Path(k) \subseteq Key /\ Cardinality(Path(k) \ tree.red) \in Nat
      <4>1. Path(k) \subseteq Key
        BY <2>2, <3>2, PathFacts DEF Place
      <4>2. IsFiniteSet(Path(k) \ tree.red)
        BY <4>1, TreeAssumption, FS_Subset
      <4>. QED
        BY <4>1, <4>2, FS_CardinalityType
    <3>7. Passed(k) + lack = IF lacks(g) THEN 1 ELSE 0
      BY <3>2, <3>5, <3>6 DEF Passed
    <3>8. AllBlacks(b) \in Int
      BY <3>2, <3>4 DEF AllBlacks, Place
    <3>9. Passed(k) \in Int
      BY DEF Passed
    <3>. HIDE DEF lack, lacks, black, k
    <3>10. black \in Int /\ lack \in Int
      BY DEF black, lack
    <3>11. passed + (Passed(k) + lack) = AllBlacks(b)
      BY <3>3, <3>4, <3>6, <3>8, <3>9, <3>10
    <3>. QED
      BY <3>7, <3>11 DEF k
  <2>4. {blacks(g) : g \in gaps} \subseteq {AllBlacks(b)}
    <3>. HIDE DEF gaps, blacks
    <3>. QED
      BY <2>3
  <2>5. Cardinality({blacks(g) : g \in gaps}) <= 1
    <3>. HIDE DEF gaps, blacks
    <3>. QED
      BY <2>4, AtMostOne
  <2>. QED
    BY <2>5 DEF BlackHeights
<1>. QED
  BY <1>1, TreeInvariant, PTL
=============================================================================
