---------------------------- MODULE MCTimerWheel ----------------------------
(* TLC instances of TimerWheel and its properties. *)
EXTENDS WheelProperties, TLC

Symmetry == Permutations(Addr)

(* To keep the states few: ti_init makes its last store before anything    *)
(* else happens.  The other runs and the proofs do without.                *)
Prompt == opening => ~opening'
PromptQuietSpec == Init /\ [][QuietNext /\ Prompt]_vars
=============================================================================
