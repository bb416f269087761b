------------------------------ MODULE MinHeap ------------------------------
(***************************************************************************)
(* The array heap of src/minheap_timer.c: how ti_push and repush put a     *)
(* timer in, and what ti_pop does to take the first one out.  A queue maps *)
(* 0 .. MaxTimers - 1 to a timer or Null, `time` gives the timers' expiry. *)
(***************************************************************************)
EXTENDS Integers

CONSTANTS
  MaxTimers,    \* max_timer_num
  Cell,         \* heap cells that hold timers
  Null

ASSUME HeapAssumption == MaxTimers \in Nat \ {0} /\ Null \notin Cell

Slot   == 0 .. MaxTimers - 1
Queues == [Slot -> Cell \cup {Null}]
Parent(s) == (s - 1) \div 2

(* The slots from s up to the root. *)
Above(s) ==
  LET up[i \in 0 .. s] == IF i = 0 THEN {0} ELSE {i} \cup up[Parent(i)]
  IN  up[s]

\* A climb that stops at once.
PlaceAtEnd(q, time, s, t) == s

(* The slot at which a timer that climbs from s comes to rest: a parent    *)
(* that expires at the same time is passed.                                *)
Place(q, time, s, t) ==
  LET rest[i \in 0 .. s] ==
        IF i = 0 \/ time[q[Parent(i)]] < time[t] THEN i ELSE rest[Parent(i)]
  IN  rest[s]

(* Put t in as number n + 1: the parents on its way come down.             *)
PutIn(q, time, n, t) ==
  LET place == Place(q, time, n, t)
  IN  [s \in Slot |-> CASE s = place -> t
                        [] s # place /\ s \in Above(n) /\ s > place -> q[Parent(s)]
                        [] OTHER -> q[s]]

(***************************************************************************)
(* ti_pop of the first of n timers.  The hole sinks from slot 0 while the  *)
(* last timer is not before the hole's LEFT child; on its way it is the    *)
(* expiry time of the lesser child that is copied up, into the timer that  *)
(* stays where it is.  The last timer then replaces the one at the hole.   *)
(***************************************************************************)
Sunk(q, time, n) ==
  LET last == n - 1
      sink[h \in [hole : Slot, time : [Cell -> Int]]] ==
        LET left   == 2 * h.hole + 1
            lesser == IF left + 1 < last /\ h.time[q[left]] > h.time[q[left + 1]]
                        THEN left + 1 ELSE left
        IN  IF h.hole >= last \div 2 \/ h.time[q[last]] < h.time[q[left]]
              THEN h
              ELSE sink[[hole |-> lesser,
                         time |-> [h.time EXCEPT ![q[h.hole]] = h.time[q[lesser]]]]]
  IN  sink[[hole |-> 0, time |-> time]]

\* A pop that leaves a copy of the last timer behind.
TakenOutTwice(q, time, n) == [q EXCEPT ![Sunk(q, time, n).hole] = q[n - 1]]

\* A pop that drops the last timer instead of moving it.
TakenOutLast(q, time, n) == [q EXCEPT ![n - 1] = Null]

TakenOut(q, time, n) == [q EXCEPT ![Sunk(q, time, n).hole] = q[n - 1], ![n - 1] = Null]

Held(q) == {q[s] : s \in Slot} \ {Null}
=============================================================================
