------------------------------ MODULE IdIndex ------------------------------
(***************************************************************************)
(* What the callers of rbtree.c rely on: an index of keys in which an      *)
(* insert adds its key, an erase takes its key away, whatever has to be    *)
(* put right before the call returns, and every call returns.              *)
(***************************************************************************)
CONSTANT Key

VARIABLES keys, busy

vars == <<keys, busy>>

Init == keys = {} /\ busy = FALSE

Insert(key) == ~busy /\ key \notin keys /\ keys' = keys \cup {key} /\ busy' \in BOOLEAN
Erase(key)  == ~busy /\ key \in keys /\ keys' = keys \ {key} /\ busy' \in BOOLEAN

(* The rest of a call. *)
Finish == busy /\ UNCHANGED keys /\ busy' \in BOOLEAN

Next == (\E key \in Key : Insert(key) \/ Erase(key)) \/ Finish

Spec == Init /\ [][Next]_vars /\ (busy ~> ~busy)
=============================================================================
