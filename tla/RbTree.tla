------------------------------- MODULE RbTree -------------------------------
(***************************************************************************)
(* The red-black tree of src/rbtree.c, link by link.  A node is named by   *)
(* its key: no code moves a key from one node to another.  The mirrored    *)
(* halves of the code are one action with a direction; an iteration of a   *)
(* rebalancing loop is a step for each rotation.  Between these steps the  *)
(* code does not test the loop's condition again, and need not: in a tree  *)
(* with RedRule the test would come out as before.                         *)
(***************************************************************************)
EXTENDS Integers, FiniteSets

CONSTANTS Key, Nil

ASSUME TreeAssumption == Key \subseteq Int /\ IsFiniteSet(Key) /\ Nil \notin Key

VARIABLES
  tree,         \* [root, child, parent, red]
  pc,           \* the loop that is running: "insert", "erase" or none: "idle"
  node, parent  \* the loop's variables of these names

vars == <<tree, pc, node, parent>>

Place == Key \cup {Nil}
Sides == {"left", "right"}
Opposite(side) == CHOOSE s \in Sides : s # side
Side(t, p, n)  == IF t.child[p]["left"] = n THEN "left" ELSE "right"
Red(t, n)      == n \in t.red

NoLinks == [s \in Sides |-> Nil]

(* `old` of the parent p, or of nobody, is replaced by `new`.              *)
Hung(t, p, old, new) ==
  IF p = Nil THEN [t EXCEPT !.root = new]
             ELSE [t EXCEPT !.child[p][Side(t, p, old)] = new]

Adopted(t, n, p) == IF n = Nil THEN t ELSE [t EXCEPT !.parent[n] = p]

\* A rotation that forgets the parent of the subtree that changes sides.
RotatedLoosely(t, n, side) ==
  LET up    == t.child[n][Opposite(side)]
      inner == t.child[up][side]
      hung  == Hung([t EXCEPT !.parent[up] = t.parent[n]], t.parent[n], n, up)
  IN  [hung EXCEPT !.child[n][Opposite(side)] = inner,
                   !.child[up][side] = n, !.parent[n] = up]

(* n goes down to the given side, its child of the other side comes up.    *)
Rotated(t, n, side) ==
  LET up    == t.child[n][Opposite(side)]
      inner == t.child[up][side]
      hung  == Hung([Adopted(t, inner, n) EXCEPT !.parent[up] = t.parent[n]],
                    t.parent[n], n, up)
  IN  [hung EXCEPT !.child[n][Opposite(side)] = inner,
                   !.child[up][side] = n, !.parent[n] = up]

(* The descent, at a node with the one it came from behind it: the node    *)
(* with the key, or Nil, and the last node passed.                         *)
SearchAuxiliary(t, key) ==
  LET search[at \in Place \X Place] ==
        IF at[1] \in {Nil, key} THEN at
        ELSE search[<<t.child[at[1]][IF at[1] > key THEN "left" ELSE "right"], at[1]>>]
      end == search[<<t.root, Nil>>]
  IN  [found |-> end[1], save |-> end[2]]

Found == {k \in Key : SearchAuxiliary(tree, k).found = k}

\* A successor that is not looked for.
FirstRight(t, n) == n

Leftmost(t, n) ==
  LET down[m \in Key] == IF t.child[m]["left"] = Nil THEN m ELSE down[t.child[m]["left"]]
  IN  down[n]

Init ==
  /\ tree = [root |-> Nil, child |-> [k \in Key |-> NoLinks],
             parent |-> [k \in Key |-> Nil], red |-> {}]
  /\ pc = "idle" /\ node = Nil /\ parent = Nil

-----------------------------------------------------------------------------
(* rb_insert of a key that is not there; for one that is, nothing changes. *)
Insert(key) ==
  /\ pc = "idle"
  /\ LET s == SearchAuxiliary(tree, key) IN
     /\ s.found = Nil
     /\ LET new == [tree EXCEPT !.child[key] = NoLinks, !.parent[key] = s.save,
                                !.red = @ \cup {key}]
        IN  tree' = IF s.save = Nil THEN [new EXCEPT !.root = key]
                    ELSE [new EXCEPT !.child[s.save][IF s.save > key THEN "left" ELSE "right"] = key]
  /\ pc' = "insert" /\ node' = key
  /\ UNCHANGED parent

Gparent(n) == tree.parent[tree.parent[n]]
Uncle(n) ==
  tree.child[Gparent(n)][Opposite(Side(tree, Gparent(n), tree.parent[n]))]

Bent == Side(tree, tree.parent[node], node) # Side(tree, Gparent(node), tree.parent[node])

RedParent ==
  /\ pc = "insert"
  /\ tree.parent[node] # Nil /\ Red(tree, tree.parent[node])

\* A loop that goes on from one node too far up.
InsertRecolourTooHigh ==
  /\ RedParent /\ Gparent(node) # Nil /\ Red(tree, Uncle(node))
  /\ tree' = [tree EXCEPT !.red = (@ \ {Uncle(node), tree.parent[node]}) \cup {Gparent(node)}]
  /\ node' = tree.parent[Gparent(node)]
  /\ UNCHANGED <<pc, parent>>

InsertRecolour ==
  /\ RedParent /\ Gparent(node) # Nil /\ Red(tree, Uncle(node))
  /\ tree' = [tree EXCEPT !.red = (@ \ {Uncle(node), tree.parent[node]}) \cup {Gparent(node)}]
  /\ node' = Gparent(node)
  /\ UNCHANGED <<pc, parent>>

\* A straightening that goes on from the wrong one of the two.
InsertStraightenSame ==
  /\ RedParent /\ Gparent(node) # Nil /\ ~Red(tree, Uncle(node)) /\ Bent
  /\ tree' = Rotated(tree, tree.parent[node], Side(tree, Gparent(node), tree.parent[node]))
  /\ UNCHANGED <<pc, node, parent>>

(* A path that bends is straightened first ...                             *)
InsertStraighten ==
  /\ RedParent /\ Gparent(node) # Nil /\ ~Red(tree, Uncle(node)) /\ Bent
  /\ tree' = Rotated(tree, tree.parent[node], Side(tree, Gparent(node), tree.parent[node]))
  /\ node' = tree.parent[node]
  /\ UNCHANGED <<pc, parent>>

(* ... then the grandparent goes down.                                     *)
InsertRotate ==
  /\ RedParent /\ Gparent(node) # Nil /\ ~Red(tree, Uncle(node)) /\ ~Bent
  /\ tree' = Rotated([tree EXCEPT !.red = (@ \ {tree.parent[node]}) \cup {Gparent(node)}],
                     Gparent(node), Opposite(Side(tree, tree.parent[node], node)))
  /\ UNCHANGED <<pc, node, parent>>

Return == pc' = "idle" /\ node' = Nil /\ parent' = Nil

InsertDone ==
  /\ pc = "insert" /\ ~RedParent
  /\ tree' = [tree EXCEPT !.red = @ \ {tree.root}]
  /\ Return

-----------------------------------------------------------------------------
(***************************************************************************)
(* rb_erase takes a node with a gap below it out of its place: the node    *)
(* itself, or the next larger one, which then replaces it.  What is below  *)
(* moves up.                                                               *)
(***************************************************************************)
Erased(old) ==
  LET two   == \A s \in Sides : tree.child[old][s] # Nil
      out   == IF two THEN Leftmost(tree, tree.child[old]["right"]) ELSE old
      below == tree.child[out][IF tree.child[out]["left"] = Nil THEN "right" ELSE "left"]
      above == tree.parent[out]
      cut   == Hung(Adopted(tree, below, above), above, out, below)
      moved == Hung([cut EXCEPT !.parent[out] = cut.parent[old], !.child[out] = cut.child[old],
                                !.red = IF Red(cut, old) THEN @ \cup {out} ELSE @ \ {out}],
                    cut.parent[old], old, out)
      done  == IF two THEN Adopted(Adopted(moved, cut.child[old]["left"], out),
                                   cut.child[old]["right"], out)
                      ELSE cut
  IN  [tree   |-> [done EXCEPT !.child[old] = NoLinks, !.parent[old] = Nil, !.red = @ \ {old}],
       node   |-> below,
       parent |-> IF two /\ above = old THEN out ELSE above,
       black  |-> ~Red(tree, out)]

Erase(key) ==
  /\ pc = "idle" /\ SearchAuxiliary(tree, key).found = key
  /\ tree' = Erased(key).tree
  /\ IF Erased(key).black
       THEN pc' = "erase" /\ node' = Erased(key).node /\ parent' = Erased(key).parent
       ELSE UNCHANGED <<pc, node, parent>>

Lacking == pc = "erase" /\ ~Red(tree, node) /\ node # tree.root

Here    == Side(tree, parent, node)
Far     == Opposite(Here)
Sibling == tree.child[parent][Far]
Nephew(side) == tree.child[Sibling][side]

(* A red sibling is exchanged for a black one.                             *)
EraseTurn ==
  /\ Lacking /\ Red(tree, Sibling)
  /\ tree' = Rotated([tree EXCEPT !.red = (@ \ {Sibling}) \cup {parent}], parent, Here)
  /\ UNCHANGED <<pc, node, parent>>

BlackSibling == Lacking /\ Sibling # Nil /\ ~Red(tree, Sibling)

\* A sibling that stays black.
EraseRecolourNothing ==
  /\ BlackSibling /\ ~Red(tree, Nephew(Here)) /\ ~Red(tree, Nephew(Far))
  /\ node' = parent /\ parent' = tree.parent[parent]
  /\ UNCHANGED <<tree, pc>>

EraseRecolour ==
  /\ BlackSibling /\ ~Red(tree, Nephew(Here)) /\ ~Red(tree, Nephew(Far))
  /\ tree' = [tree EXCEPT !.red = @ \cup {Sibling}]
  /\ node' = parent /\ parent' = tree.parent[parent]
  /\ UNCHANGED pc

(* A sibling whose far child is black is exchanged for its near child.     *)
EraseStraighten ==
  /\ BlackSibling /\ Red(tree, Nephew(Here)) /\ ~Red(tree, Nephew(Far))
  /\ tree' = Rotated([tree EXCEPT !.red = (@ \ {Nephew(Here)}) \cup {Sibling}], Sibling, Far)
  /\ UNCHANGED <<pc, node, parent>>

EraseRotate ==
  /\ BlackSibling /\ Red(tree, Nephew(Far))
  /\ tree' = Rotated([tree EXCEPT !.red = (@ \ {parent, Nephew(Far)})
                                            \cup (IF Red(tree, parent) THEN {Sibling} ELSE {})],
                     parent, Here)
  /\ node' = tree'.root
  /\ UNCHANGED <<pc, parent>>

\* The last node is left as it is.
EraseDoneUncoloured == pc = "erase" /\ ~Lacking /\ Return /\ UNCHANGED tree

EraseDone ==
  /\ pc = "erase" /\ ~Lacking
  /\ tree' = [tree EXCEPT !.red = @ \ {node}]
  /\ Return

-----------------------------------------------------------------------------
Rebalance ==
  \/ InsertRecolour \/ InsertStraighten \/ InsertRotate \/ InsertDone
  \/ EraseTurn \/ EraseRecolour \/ EraseStraighten \/ EraseRotate \/ EraseDone

Next == (\E k \in Key : Insert(k) \/ Erase(k)) \/ Rebalance

(* A call, once made, goes on.                                             *)
Spec == Init /\ [][Next]_vars /\ WF_vars(Rebalance)

-----------------------------------------------------------------------------
TypeOK ==
  /\ tree \in [root : Place, child : [Key -> [Sides -> Place]],
               parent : [Key -> Place], red : SUBSET Key]
  /\ pc \in {"idle", "insert", "erase"}
  /\ node \in (IF pc = "insert" THEN Key ELSE Place) /\ parent \in Place

(* The links down and the links up agree, so no node hangs in two places   *)
(* and the worker's rb_erase finds the way back up.                        *)
LinksAgree ==
  /\ tree.root # Nil => tree.parent[tree.root] = Nil
  /\ \A k \in Key, s \in Sides :
       tree.child[k][s] # Nil => tree.parent[tree.child[k][s]] = k

(* k and the nodes above it. *)
Path(k) ==
  LET path[n \in Place] == IF n = Nil THEN {} ELSE {n} \cup path[tree.parent[n]]
  IN  path[k]

(* No red node has a red parent and the root is black, but for the node    *)
(* that the running loop is about to put right.                            *)
RedRule ==
  \A k \in tree.red :
    \/ k = node
    \/ tree.parent[k] # Nil /\ ~Red(tree, tree.parent[k])
    \/ pc = "erase" /\ tree.parent[k] # Nil /\ tree.parent[k] = node

(* Every way down from the root meets the same number of black nodes, if a *)
(* way through the place where an erase took one counts it.                *)
BlackHeights ==
  LET gaps == {g \in Found \X Sides : tree.child[g[1]][g[2]] = Nil}
      lacks(g) == pc = "erase" /\ \/ node \in Path(g[1])
                                  \/ node = Nil /\ g = <<parent, Side(tree, parent, Nil)>>
      blacks(g) == Cardinality(Path(g[1]) \ tree.red) + (IF lacks(g) THEN 1 ELSE 0)
  IN  Cardinality({blacks(g) : g \in gaps}) <= 1

(* The loops follow no null pointer: a red parent has a parent, and where  *)
(* a black node was taken there is a sibling, red or black.                *)
NoNullFollowed ==
  /\ RedParent => Gparent(node) # Nil
  /\ Lacking => parent # Nil /\ Sibling # Nil

(* For its callers the tree is an index of keys: what a search from the    *)
(* root finds gains the key of an insert and loses the key of an erase, no *)
(* rebalancing step changes it, and the loops end.                         *)
Index == INSTANCE IdIndex WITH keys <- Found, busy <- (pc # "idle")
CallsAgree ==
  [][\A key \in Key : /\ Insert(key) => Index!Insert(key)
                      /\ Erase(key) => Index!Erase(key)]_vars
IsIndex == Index!Spec /\ CallsAgree
=============================================================================
