--------------------------- MODULE RecoveryScripts ----------------------------
(***************************************************************************)
(* The operator's two maintenance scripts, fixAdapterMismatch.ts and       *)
(* deployRecoveryAdapter.ts, run against the bridge while it is in use.    *)
(* They were written for one deposit: recorded by the current adapter,     *)
(* missing in the queue of the vault, which names another adapter.  Both   *)
(* deploy a recovery adapter, point the vault at it, queue the deposit     *)
(* through it, point the vault back, and read the outcome.                 *)
(*                                                                         *)
(* Every await of a script is a step of its own, and any of them may throw *)
(* or be the last one before the operator or the machine stops it.  Each   *)
(* run deploys a recovery adapter of its own; the vault accepts only the   *)
(* last one, so one address stands for all of a script.  The one that      *)
(* deployRecoveryAdapter compiles takes any deposit id and any receiver    *)
(* from anybody.                                                           *)
(***************************************************************************)
EXTENDS DirectMint

CONSTANTS
  Current,   \* CURRENT_ADAPTER
  Old,       \* the adapter the vault named when the deposit got stuck
  Assembled, \* the recovery adapter fixAdapterMismatch puts together from opcodes
  Recovery,  \* the one deployRecoveryAdapter compiles from Solidity
  Stuck,     \* STUCK_DEPOSIT_ID
  Receiver,  \* DEPOSIT_RECEIVER
  StuckTag,  \* the tag the deposit was paid to
  Operator   \* the direct-mint executor

ASSUME RecoveryAssumption ==
  /\ Adapters = {Current, Old, Assembled, Recovery}
  /\ Assembled # Recovery /\ {Assembled, Recovery} \cap {Current, Old} = {}
  /\ Stuck \in DepositIds /\ Receiver \in Users
  /\ StuckTag \in Tags /\ Operator \in Executors
  /\ MaxSupply >= 1

VARIABLES
  script,    \* the script that runs
  at,        \* the await it is at
  saw,       \* fAssetAdapter as it was read
  outcome,   \* how the last run ended
  requeued   \* history: somebody else has queued the stuck deposit through it

scriptVars == <<script, at, saw, outcome>>
recoveryVars == <<vars, scriptVars, requeued>>

\* Line 16 of FixAdapterMismatch.s.sol: the deposit is in pendingDirectMints of
\* the current adapter, not in pendingDepositReceiver, and the vault names the
\* old adapter.
StuckInit ==
  /\ mintingRecipient = [t \in Tags |-> IF t = StuckTag THEN Current ELSE None]
  /\ allowedExecutor = [t \in Tags |-> IF t = StuckTag THEN Operator ELSE None]
  /\ scheduledExecutor = allowedExecutor
  /\ tagUser = [a \in Adapters |-> [t \in Tags |->
       IF a = Current /\ t = StuckTag THEN Receiver ELSE None]]
  /\ tagExecutor = [a \in Adapters |-> [t \in Tags |->
       IF a = Current /\ t = StuckTag THEN Operator ELSE None]]
  /\ defaultDirectMintExecutor = [a \in Adapters |-> Operator]
  /\ pendingDepositForTag = [a \in Adapters |-> [t \in Tags |->
       IF a = Current /\ t = StuckTag THEN Stuck ELSE None]]
  /\ pendingDirectMints = [a \in Adapters |-> [d \in DepositIds |->
       IF a = Current /\ d = Stuck
       THEN [receiver |-> Receiver, tag |-> StuckTag, assets |-> 1] ELSE NoMint]]
  /\ processedDirectMints = [a \in Adapters |-> IF a = Current THEN {Stuck} ELSE {}]
  /\ totalPendingFAssets = [a \in Adapters |-> IF a = Current THEN 1 ELSE 0]
  /\ balance = [h \in Adapters \cup {Vault} |-> IF h = Current THEN 1 ELSE 0]
  /\ supply = 1
  /\ pausedAdapters = {} /\ vaultPaused = FALSE
  /\ fAssetAdapter = Old
  /\ pendingDepositReceiver = [d \in DepositIds |-> None]
  /\ settledFAssetDeposits = {}
  /\ credited = [u \in Users |-> 0]
  /\ script = "none" /\ at = "idle" /\ saw = None /\ outcome = "none"
  /\ requeued = FALSE

At(name, place) == script = name /\ at = place

\* No script uses what it has read beyond the next await.
Advance(place) == at' = place /\ saw' = None /\ UNCHANGED <<script, outcome>>

Ends(how) == script' = "none" /\ at' = "idle" /\ saw' = None /\ outcome' = how

(***************************************************************************)
(* The scripts, await by await.                                            *)
(***************************************************************************)
Run(name) ==
  /\ at = "idle"
  /\ script' = name /\ at' = "readAdapter"
  /\ UNCHANGED <<vars, saw, outcome>>

ReadsAdapter(before, after) ==
  /\ at = before
  /\ at' = after /\ saw' = fAssetAdapter
  /\ UNCHANGED <<vars, script, outcome>>

Repaired == saw = Current /\ pendingDepositReceiver[Stuck] = Receiver

\* fixAdapterMismatch stops here when there is nothing to do; the other script
\* only prints what it reads.
ReadsReceiver ==
  /\ at = "readReceiver"
  /\ IF script = "fixAdapterMismatch" /\ Repaired THEN Ends("already fixed")
     ELSE Advance("deploy")
  /\ UNCHANGED vars

\* Both scripts stop when the receipt names no contract, deployRecoveryAdapter
\* also when the contract belongs to another vault.
Deploys ==
  /\ at = "deploy"
  /\ Advance("point") \/ Ends("not deployed")
  /\ UNCHANGED vars

Points ==
  /\ at = "point"
  /\ setFAssetAdapter(IF script = "fixAdapterMismatch" THEN Assembled ELSE Recovery)
  /\ Advance("requeue")

\* The contract fixAdapterMismatch assembles copies its runtime code from an
\* offset taken before the constructor was complete: what it deploys never
\* calls the vault, and the transaction succeeds.
FixRequeues ==
  /\ At("fixAdapterMismatch", "requeue")
  /\ Advance("restore")
  /\ UNCHANGED vars

\* RecoveryAdapter.reQueueDeposit.  A call that would revert throws while its
\* gas is estimated; one that reverts later is logged only.
DeployRequeues ==
  /\ At("deployRecoveryAdapter", "requeue")
  /\ \/ /\ queueFAssetDeposit(Recovery, Stuck, Receiver)
        /\ UNCHANGED <<managerVars, tagVars, mintVars, tokenVars, adminVars>>
        /\ Advance("restore")
     \/ /\ ~ENABLED queueFAssetDeposit(Recovery, Stuck, Receiver)
        /\ Ends("reverted") \/ Advance("restore")
        /\ UNCHANGED vars

\* Mutant of Restores: the adapter it found is the one it leaves.
RestoresNothing ==
  /\ at = "restore" /\ Advance("verifyAdapter")
  /\ UNCHANGED vars

Restores ==
  /\ at = "restore"
  /\ setFAssetAdapter(Current)
  /\ Advance("verifyAdapter")

\* Mutant of Verifies: the queue of the vault is not looked at.
VerifiesAdapter ==
  /\ at = "verifyReceiver"
  /\ Ends(IF saw = Current THEN "complete" ELSE "failed")
  /\ UNCHANGED vars

Verifies ==
  /\ at = "verifyReceiver"
  /\ Ends(IF Repaired THEN "complete" ELSE "failed")
  /\ UNCHANGED vars

\* main().catch: a call that fails ends the script where it is.
Interrupted ==
  /\ at # "idle"
  /\ Ends("interrupted")
  /\ UNCHANGED vars

Script ==
  \/ \E name \in {"fixAdapterMismatch", "deployRecoveryAdapter"} : Run(name)
  \/ ReadsAdapter("readAdapter", "readReceiver")
  \/ ReadsReceiver \/ Deploys \/ Points \/ FixRequeues \/ DeployRequeues \/ Restores
  \/ ReadsAdapter("verifyAdapter", "verifyReceiver")
  \/ Verifies \/ Interrupted

(***************************************************************************)
(* The bridge meanwhile: users and the executor use the current adapter,   *)
(* and the owner pauses, unpauses and points the vault at real adapters.   *)
(***************************************************************************)
Meanwhile ==
  /\ \/ \E u \in Users, t \in Tags : registerMintingTag(Current, u, t)
     \/ \E t \in Tags, d \in DepositIds, x \in 1 .. MaxSupply :
          processDirectMint(Current, Operator, t, d, x)
     \/ \E d \in DepositIds : settleDirectMint(Current, d)
     \/ \E t \in Tags : ExecutorCooldownElapses(t)
     \/ FAssetsArrive(Current, 1)
     \/ pauseAdapter(Current) \/ unpauseAdapter(Current)
     \/ pauseVault \/ unpauseVault
     \/ \E a \in {Current, Old} : setFAssetAdapter(a)
  /\ UNCHANGED <<scriptVars, requeued>>

\* RecoveryAdapter.reQueueDeposit has no access control: while the vault names
\* it, anybody queues the stuck deposit, or an id that is still to come.
SomebodyRequeues(d, u) ==
  /\ queueFAssetDeposit(Recovery, d, u)
  /\ requeued' = (requeued \/ d = Stuck)
  /\ UNCHANGED <<managerVars, tagVars, mintVars, tokenVars, adminVars, scriptVars>>

RecoveryNext ==
  \/ Script /\ UNCHANGED requeued
  \/ Meanwhile
  \/ \E d \in DepositIds, u \in Users : SomebodyRequeues(d, u)

\* Settlement is permissionless: somebody settles what can be settled.  Nothing
\* makes the operator start a script or finish it.
Settle(d) ==
  settleDirectMint(Current, d) /\ UNCHANGED <<scriptVars, requeued>>

RecoverySpec ==
  /\ StuckInit /\ [][RecoveryNext]_recoveryVars
  /\ \A d \in DepositIds : WF_recoveryVars(Settle(d))

(***************************************************************************)
(* Properties.  SettledIsClosed of DirectMint is proved here as well:      *)
(* queueing through a second adapter, run after run, must not bring a      *)
(* settled deposit back.                                                   *)
(***************************************************************************)
Operational == Current \notin pausedAdapters /\ ~vaultPaused /\ fAssetAdapter = Current

\* "The user can now call settleDirectMint() to receive Flux shares": what the
\* scripts report as complete is credited, if the adapter and the vault are left
\* in service from some point on.
CompleteIsCredited ==
  <>[]Operational => (outcome = "complete" ~> Stuck \in settledFAssetDeposits)

\* Its first half: what was reported as complete stays in the queue of the vault,
\* for the receiver, until it is settled, whatever later runs do.
CompleteIsQueued ==
  outcome \in {"complete", "already fixed"} =>
    pendingDepositReceiver[Stuck] = Receiver \/ Stuck \in settledFAssetDeposits

\* Deposits of others that the adapter has recorded come through, whatever the
\* scripts did to the vault's adapter in between.  A payment whose id somebody
\* has queued before is never recorded.
OthersAreCredited ==
  \A d \in DepositIds \ {Stuck} :
    <>[]Operational => (Pending(Current, d) ~> d \in settledFAssetDeposits)

\* A vault is left on a recovery adapter, where no direct mint is recorded or
\* settled, only by a run that was cut short, and possibly others after it that
\* deployed nothing; no run that reports its result leaves it there.
OutageMeansCutShort ==
  at = "idle" /\ fAssetAdapter \in {Assembled, Recovery} =>
    outcome \in {"interrupted", "reverted", "not deployed"}

\* Credits have the amount the adapter recorded and go to the user of the tag, also
\* for what was queued through the recovery adapter.  Only the stuck deposit can be
\* credited to another: when somebody has queued it before the script could.
CreditsAsRecorded ==
  [][\A u \in Users : credited'[u] # credited[u] =>
       \E d \in DepositIds :
         LET directMint == pendingDirectMints[Current][d] IN
         /\ Pending(Current, d)
         /\ credited'[u] = credited[u] + directMint.assets
         /\ d \in settledFAssetDeposits' \ settledFAssetDeposits
         /\ tagUser[Current][directMint.tag] = u \/ (d = Stuck /\ requeued)]_vars

(***************************************************************************)
(* With the scripts at work the promise of DepositLedger is kept for the   *)
(* claims the vault has in its queue: whoever they were queued for first   *)
(* is credited once and in full.                                           *)
(***************************************************************************)
QueuedClaim(d) ==
  IF Pending(Current, d) /\ pendingDepositReceiver[d] # None
  THEN [receiver |-> pendingDepositReceiver[d],
        assets |-> pendingDirectMints[Current][d].assets]
  ELSE NoClaim

Queue == INSTANCE DepositLedger WITH
  claim <- [d \in DepositIds |-> QueuedClaim(d)],
  closed <- settledFAssetDeposits

QueueSpec == Queue!Spec
==============================================================================
