--------------------------- MODULE MCRebalanceLoop ----------------------------
(* Two vaults: one with two strategies, one with a single one. *)
EXTENDS RebalanceLoop, TLC
CONSTANTS v1, v2, s1, s2, s3
MCVaultOf == s1 :> v1 @@ s2 :> v1 @@ s3 :> v2
MCScore == s1 :> 72 @@ s2 :> 56 @@ s3 :> 15
MCKinds ==
  {s1 :> "enosys" @@ s2 :> "sparkdex" @@ s3 :> "kinetic",
   s1 :> "kinetic" @@ s2 :> "ftso" @@ s3 :> "enosys"}
MCFunds == v1 :> 3 @@ v2 :> 1

\* For another address, with the strategies of both vaults: it answers every nonce
\* the vaults would.
MCStrangersRequests ==
  {[vault |-> Elsewhere, idleAssets |-> 1, strategies |-> Strategies,
    liquidityBufferBps |-> 0]}

MCSmallFunds == v1 :> 1 @@ v2 :> 0
==============================================================================
