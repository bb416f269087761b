----------------------------- MODULE MCTimerIds -----------------------------
(* TLC instances of TimerIds; the constants are set in the cfg files. *)
EXTENDS TimerIds
=============================================================================
