------------------------- MODULE ParentVaultRecovery -------------------------
(***************************************************************************)
(* The vault while its proxy may be upgraded to ParentVaultRecovery and    *)
(* back (EmergencyRecovery.s.sol): the owner rewrites activeStrategy       *)
(* without any call to a strategy.  What the old strategy holds stays      *)
(* there, outside totalAssets().                                           *)
(***************************************************************************)
EXTENDS ParentVault

VARIABLES
  recovery,    \* the proxy runs the recovery implementation
  abandoned    \* history: strategies the owner rewrote away

recoveryVars == <<vars, recovery, abandoned>>

RecoveryInit == Init /\ recovery = FALSE /\ abandoned = {}

\* UUPS upgradeToAndCall, by the owner.
UpgradeTo(implementation) ==
  /\ recovery' = implementation
  /\ UNCHANGED <<vars, abandoned>>

Rewrite(s) ==
  /\ activeStrategy' = s
  /\ abandoned' = (abandoned \cup ({activeStrategy} \ {None})) \ {s}
  /\ UNCHANGED <<shareVars, idle, strategyVars, rebalanceNonce, teeLastActive,
                 configVars, now, teeVars, recovery>>

resetActiveStrategy == recovery /\ Rewrite(None)

setActiveStrategyDirect(s) ==
  /\ recovery
  /\ s \in approvedStrategies \cup {None}
  /\ Rewrite(s)

RecoveryNext ==
  \/ Next /\ abandoned' = abandoned \ {activeStrategy'} /\ UNCHANGED recovery
  \/ \E implementation \in BOOLEAN \ {recovery} : UpgradeTo(implementation)
  \/ resetActiveStrategy
  \/ \E s \in Strategies \cup {None} : setActiveStrategyDirect(s)

RecoverySpec == RecoveryInit /\ [][RecoveryNext]_recoveryVars

(***************************************************************************)
(* Properties.                                                             *)
(***************************************************************************)

\* Capital outside totalAssets() is only where the owner left it with the
\* recovery implementation: no rebalance, late payload, fallback or approval,
\* before, between or after such rewrites, strands anything else, and a
\* strategy made active again is counted again.
StrandedOnlyByOwner ==
  \A s \in Strategies \ abandoned : s # activeStrategy => value[s] = 0

\* forceWithdrawAll after TEE_TIMEOUT is refused only for an empty or a paused
\* position, or by a venue that fails: neither the pause of the vault nor a changed
\* signer, approval or implementation stands in the DAO's way.
FallbackOpen ==
  /\ now > teeLastActive + TeeTimeout
  /\ activeStrategy \notin pausedStrategies \cup failing \cup {None}
  /\ ValueOf(activeStrategy) # 0
  => ENABLED ForceWithdrawAll

\* A vault in a strategy without a position, entered with nothing to deploy or
\* emptied by redemptions, gets out of it only by the recovery implementation:
\* withdrawAll reverts, so every rebalance and the fallback do.
OnlyRecoveryLeavesEmpty ==
  [][activeStrategy # None /\ ValueOf(activeStrategy) = 0
       /\ activeStrategy' # activeStrategy => recovery]_recoveryVars
==============================================================================
