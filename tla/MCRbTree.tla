------------------------------ MODULE MCRbTree ------------------------------
(* TLC instances of RbTree; the keys are set in the cfg file. *)
EXTENDS RbTree
=============================================================================
