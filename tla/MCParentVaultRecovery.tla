------------------------ MODULE MCParentVaultRecovery ------------------------
(* Symmetry and the requests for the run of ParentVaultRecovery. *)
EXTENDS ParentVaultRecovery, TLC

Symmetry == Permutations(Strategies)

\* What the vault would ask, and anybody else may: the run has no others.
MCStrangersRequests ==
  {[own |-> TRUE, idleAssets |-> 1, strategies |-> {s}, liquidityBufferBps |-> 0] :
     s \in Strategies}
==============================================================================
