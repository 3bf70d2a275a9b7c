---------------------------- MODULE MCParentVault ----------------------------
(* Symmetry and the strangers' requests for the run of ParentVault. *)
EXTENDS ParentVault, TLC

Symmetry == Permutations(Users) \cup Permutations(Strategies)

\* Whatever the vault may ask, and one request per strategy for an address that
\* answers what it likes.
MCStrangersRequests ==
  [own : {TRUE}, idleAssets : 1 .. Funds, strategies : SUBSET Strategies \ {{}},
   liquidityBufferBps : Buffers]
  \cup [own : {FALSE}, idleAssets : {1}, strategies : {{s} : s \in Strategies},
        liquidityBufferBps : Buffers]
==============================================================================
