----------------------------- MODULE MCMhTimer -----------------------------
(* TLC instances of MhTimer. *)
EXTENDS MhTimer, TLC

Symmetry == Permutations(Cell) \cup Permutations(Caller) \cup Permutations(Worker)

(***************************************************************************)
(* Of timers that are overdue only the order counts: no step looks at how  *)
(* long ago one expired, and none expires again before it is pushed anew.  *)
(***************************************************************************)
Overdue == {l \in {tm[a].left : a \in Cell} : l < 0}
Ranked(l) == IF l >= 0 THEN l ELSE -Cardinality({o \in Overdue : o >= l})

View == <<confVars, start_flag, timerfd, queue, cur_timer_num, alive,
          [a \in Cell |-> [tm[a] EXCEPT !.left = Ranked(@)]], mh_lock, call, wk, fault>>
=============================================================================
