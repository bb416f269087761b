-------------------------- MODULE MCWheelLifecycle --------------------------
(* TLC instances of WheelLifecycle. *)
EXTENDS WheelLifecycle
=============================================================================
