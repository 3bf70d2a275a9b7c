-------------------------- MODULE MCRecoveryScripts ---------------------------
(* The stuck deposit d1 of u1, and one more deposit to the same or another tag. *)
EXTENDS RecoveryScripts, TLC
==============================================================================
