----------------------------- MODULE DirectMint ------------------------------
(***************************************************************************)
(* The direct-mint bridge: the FAssetAdapter contracts, the queue of the   *)
(* ParentVault they feed, and what surrounds them (Flare's                 *)
(* MintingTagManager and the FAsset token, both external).                 *)
(*                                                                         *)
(* A vault outlives its adapter: RedeployFAssetAdapter.s.sol deploys a new *)
(* adapter and points the vault at it, FixAdapterMismatch.s.sol points it  *)
(* back.  So the module has a set of adapters, each with its own state,    *)
(* and the vault accepts calls from the one `fAssetAdapter` names.         *)
(* Transactions are atomic: one action is one contract call with every     *)
(* call it makes inside, and an action that is not enabled is a revert.    *)
(***************************************************************************)
EXTENDS Naturals, FiniteSetsExt

CONSTANTS
  Adapters,    \* deployed FAssetAdapter contracts
  Users,       \* depositors
  Executors,   \* direct-mint executors
  Tags,        \* minting tags the MintingTagManager can hand out
  DepositIds,  \* keccak hashes of XRPL payments
  None,        \* address(0) and bytes32(0)
  Vault,       \* the ParentVault, as an FAsset holder
  MaxSupply    \* bound: FAssets that ever arrive at an adapter

ASSUME NoneAssumption ==
  None \notin Adapters \cup Users \cup Executors \cup DepositIds
ASSUME VaultAssumption == Vault \notin Adapters
ASSUME SupplyAssumption == MaxSupply \in Nat
ASSUME DepositIdsAssumption == IsFiniteSet(DepositIds)   \* bytes32

NoMint == [receiver |-> None, tag |-> None, assets |-> 0]
Mints == [receiver : Users, tag : Tags, assets : Nat \ {0}]

VARIABLES
  \* MintingTagManager
  mintingRecipient,      \* tag -> the adapter that reserved it
  allowedExecutor,       \* tag -> the executor active on Flare
  scheduledExecutor,     \* tag -> the executor active after the cooldown
  \* FAssetAdapter
  tagUser,
  tagExecutor,
  defaultDirectMintExecutor,
  pendingDepositForTag,
  pendingDirectMints,
  processedDirectMints,
  totalPendingFAssets,
  pausedAdapters,
  \* FAsset
  balance,               \* FAssets of each adapter and of the vault
  supply,                \* FAssets that ever arrived at an adapter
  \* ParentVault
  fAssetAdapter,
  pendingDepositReceiver,
  settledFAssetDeposits,
  vaultPaused,
  credited               \* FAssets turned into shares for each user

managerVars == <<mintingRecipient, allowedExecutor, scheduledExecutor>>
tagVars == <<tagUser, tagExecutor, defaultDirectMintExecutor>>
mintVars == <<pendingDepositForTag, pendingDirectMints, processedDirectMints,
              totalPendingFAssets>>
tokenVars == <<balance, supply>>
queueVars == <<pendingDepositReceiver, settledFAssetDeposits, credited>>
adminVars == <<pausedAdapters, vaultPaused, fAssetAdapter>>

vars == <<managerVars, tagVars, mintVars, tokenVars, queueVars, adminVars>>

Init ==
  /\ mintingRecipient = [t \in Tags |-> None]
  /\ allowedExecutor = [t \in Tags |-> None]
  /\ scheduledExecutor = [t \in Tags |-> None]
  /\ tagUser = [a \in Adapters |-> [t \in Tags |-> None]]
  /\ tagExecutor = [a \in Adapters |-> [t \in Tags |-> None]]
  /\ defaultDirectMintExecutor \in [Adapters -> Executors]
  /\ pendingDepositForTag = [a \in Adapters |-> [t \in Tags |-> None]]
  /\ pendingDirectMints = [a \in Adapters |-> [d \in DepositIds |-> NoMint]]
  /\ processedDirectMints = [a \in Adapters |-> {}]
  /\ totalPendingFAssets = [a \in Adapters |-> 0]
  /\ pausedAdapters = {}
  /\ balance = [h \in Adapters \cup {Vault} |-> 0]
  /\ supply = 0
  /\ fAssetAdapter \in Adapters \cup {None}
  /\ pendingDepositReceiver = [d \in DepositIds |-> None]
  /\ settledFAssetDeposits = {}
  /\ vaultPaused = FALSE
  /\ credited = [u \in Users |-> 0]

(***************************************************************************)
(* ParentVault, as the adapter calls it.  Shares are counted by the assets *)
(* they are minted for; ParentVault.tla has the share arithmetic.          *)
(***************************************************************************)

\* Mutants of queueFAssetDeposit.
queueAsSender(a, d, u) ==
  /\ ~vaultPaused /\ fAssetAdapter = a
  /\ d \notin settledFAssetDeposits /\ pendingDepositReceiver[d] = None
  /\ pendingDepositReceiver' = [pendingDepositReceiver EXCEPT ![d] = a]
  /\ UNCHANGED <<settledFAssetDeposits, credited>>
queueOverPending(a, d, u) ==
  /\ ~vaultPaused /\ fAssetAdapter = a
  /\ d \notin settledFAssetDeposits
  /\ pendingDepositReceiver' = [pendingDepositReceiver EXCEPT ![d] = u]
  /\ UNCHANGED <<settledFAssetDeposits, credited>>
queueOverSettled(a, d, u) ==
  /\ ~vaultPaused /\ fAssetAdapter = a
  /\ pendingDepositReceiver[d] = None
  /\ pendingDepositReceiver' = [pendingDepositReceiver EXCEPT ![d] = u]
  /\ UNCHANGED <<settledFAssetDeposits, credited>>
queueNothing(a, d, u) ==
  /\ ~vaultPaused /\ fAssetAdapter = a
  /\ d \notin settledFAssetDeposits /\ pendingDepositReceiver[d] = None
  /\ UNCHANGED queueVars

queueFAssetDeposit(a, d, u) ==
  /\ ~vaultPaused
  /\ fAssetAdapter = a
  /\ d \notin settledFAssetDeposits
  /\ pendingDepositReceiver[d] = None
  /\ pendingDepositReceiver' = [pendingDepositReceiver EXCEPT ![d] = u]
  /\ UNCHANGED <<settledFAssetDeposits, credited>>

\* Mutant of settleFAssetDeposit: credits what the adapter holds.
settleWholeBalance(a, d, x) ==
  /\ ~vaultPaused /\ fAssetAdapter = a /\ pendingDepositReceiver[d] # None
  /\ pendingDepositReceiver' = [pendingDepositReceiver EXCEPT ![d] = None]
  /\ settledFAssetDeposits' = settledFAssetDeposits \cup {d}
  /\ credited' = [credited EXCEPT ![pendingDepositReceiver[d]] = @ + balance[a]]
  /\ balance' = [balance EXCEPT ![a] = @ - x, ![Vault] = @ + x]

settleFAssetDeposit(a, d, x) ==
  /\ ~vaultPaused
  /\ fAssetAdapter = a
  /\ pendingDepositReceiver[d] # None
  /\ pendingDepositReceiver' = [pendingDepositReceiver EXCEPT ![d] = None]
  /\ settledFAssetDeposits' = settledFAssetDeposits \cup {d}
  /\ credited' = [credited EXCEPT ![pendingDepositReceiver[d]] = @ + x]
  /\ balance' = [balance EXCEPT ![a] = @ - x, ![Vault] = @ + x]

(***************************************************************************)
(* FAssetAdapter.                                                          *)
(***************************************************************************)

\* Reserves a fresh tag; the manager activates the executor after its cooldown.
registerMintingTag(a, u, t) ==
  /\ a \notin pausedAdapters
  /\ mintingRecipient[t] = None
  /\ mintingRecipient' = [mintingRecipient EXCEPT ![t] = a]
  /\ scheduledExecutor' =
       [scheduledExecutor EXCEPT ![t] = defaultDirectMintExecutor[a]]
  /\ tagUser' = [tagUser EXCEPT ![a][t] = u]
  /\ tagExecutor' = [tagExecutor EXCEPT ![a][t] = defaultDirectMintExecutor[a]]
  /\ UNCHANGED <<allowedExecutor, defaultDirectMintExecutor, mintVars, tokenVars,
                 queueVars, adminVars>>

\* Mutant of Unallocated: forgets what is already pending.
wholeBalance(a) == balance[a]

\* The FAssets of adapter a that no pending direct mint accounts for.
Unallocated(a) == balance[a] - totalPendingFAssets[a]

recordDirectMint(a, t, d) ==
  /\ processedDirectMints' = [processedDirectMints EXCEPT ![a] = @ \cup {d}]
  /\ pendingDepositForTag' = [pendingDepositForTag EXCEPT ![a][t] = d]
  /\ pendingDirectMints' = [pendingDirectMints EXCEPT ![a][d] =
       [receiver |-> tagUser[a][t], tag |-> t, assets |-> Unallocated(a)]]
  /\ totalPendingFAssets' = [totalPendingFAssets EXCEPT ![a] = @ + Unallocated(a)]

processDirectMint(a, e, t, d, observedMintedAmount) ==
  /\ a \notin pausedAdapters
  /\ tagUser[a][t] # None
  /\ e = tagExecutor[a][t]
  /\ e = allowedExecutor[t]
  /\ mintingRecipient[t] = a
  /\ pendingDepositForTag[a][t] = None
  /\ d \notin processedDirectMints[a]
  /\ balance[a] >= totalPendingFAssets[a]
  /\ Unallocated(a) # 0
  /\ Unallocated(a) = observedMintedAmount
  /\ recordDirectMint(a, t, d)
  /\ queueFAssetDeposit(a, d, tagUser[a][t])
  /\ UNCHANGED <<managerVars, tagVars, tokenVars, adminVars>>

\* Mutants of releaseDirectMint: one of the three updates is forgotten.
releaseKeepTotal(a, d) ==
  /\ pendingDirectMints' = [pendingDirectMints EXCEPT ![a][d] = NoMint]
  /\ pendingDepositForTag' =
       [pendingDepositForTag EXCEPT ![a][pendingDirectMints[a][d].tag] = None]
  /\ UNCHANGED totalPendingFAssets
releaseKeepTag(a, d) ==
  /\ pendingDirectMints' = [pendingDirectMints EXCEPT ![a][d] = NoMint]
  /\ totalPendingFAssets' =
       [totalPendingFAssets EXCEPT ![a] = @ - pendingDirectMints[a][d].assets]
  /\ UNCHANGED pendingDepositForTag
releaseKeepMint(a, d) ==
  /\ pendingDepositForTag' =
       [pendingDepositForTag EXCEPT ![a][pendingDirectMints[a][d].tag] = None]
  /\ totalPendingFAssets' =
       [totalPendingFAssets EXCEPT ![a] = @ - pendingDirectMints[a][d].assets]
  /\ UNCHANGED pendingDirectMints

releaseDirectMint(a, d) ==
  /\ pendingDirectMints' = [pendingDirectMints EXCEPT ![a][d] = NoMint]
  /\ pendingDepositForTag' =
       [pendingDepositForTag EXCEPT ![a][pendingDirectMints[a][d].tag] = None]
  /\ totalPendingFAssets' =
       [totalPendingFAssets EXCEPT ![a] = @ - pendingDirectMints[a][d].assets]

\* Anyone may settle: the caller is not an argument.
settleDirectMint(a, d) ==
  LET directMint == pendingDirectMints[a][d] IN
  /\ a \notin pausedAdapters
  /\ directMint.receiver # None
  /\ balance[a] >= directMint.assets
  /\ totalPendingFAssets[a] >= directMint.assets
  /\ releaseDirectMint(a, d)
  /\ settleFAssetDeposit(a, d, directMint.assets)
  /\ UNCHANGED <<managerVars, tagVars, processedDirectMints, supply, adminVars>>

setTagExecutor(a, u, t, e) ==
  /\ a \notin pausedAdapters
  /\ tagUser[a][t] = u
  /\ tagExecutor' = [tagExecutor EXCEPT ![a][t] = e]
  /\ scheduledExecutor' = [scheduledExecutor EXCEPT ![t] = e]
  /\ UNCHANGED <<mintingRecipient, allowedExecutor, tagUser,
                 defaultDirectMintExecutor, mintVars, tokenVars, queueVars, adminVars>>

setDefaultDirectMintExecutor(a, e) ==
  /\ defaultDirectMintExecutor' = [defaultDirectMintExecutor EXCEPT ![a] = e]
  /\ UNCHANGED <<managerVars, tagUser, tagExecutor, mintVars, tokenVars,
                 queueVars, adminVars>>

pauseAdapter(a) ==
  /\ a \notin pausedAdapters
  /\ pausedAdapters' = pausedAdapters \cup {a}
  /\ UNCHANGED <<managerVars, tagVars, mintVars, tokenVars, queueVars,
                 vaultPaused, fAssetAdapter>>

unpauseAdapter(a) ==
  /\ a \in pausedAdapters
  /\ pausedAdapters' = pausedAdapters \ {a}
  /\ UNCHANGED <<managerVars, tagVars, mintVars, tokenVars, queueVars,
                 vaultPaused, fAssetAdapter>>

(***************************************************************************)
(* ParentVault administration that the bridge sees.                        *)
(***************************************************************************)
pauseVault ==
  /\ ~vaultPaused
  /\ vaultPaused' = TRUE
  /\ UNCHANGED <<managerVars, tagVars, mintVars, tokenVars, queueVars,
                 pausedAdapters, fAssetAdapter>>

unpauseVault ==
  /\ vaultPaused
  /\ vaultPaused' = FALSE
  /\ UNCHANGED <<managerVars, tagVars, mintVars, tokenVars, queueVars,
                 pausedAdapters, fAssetAdapter>>

setFAssetAdapter(newAdapter) ==
  /\ fAssetAdapter' = newAdapter
  /\ UNCHANGED <<managerVars, tagVars, mintVars, tokenVars, queueVars,
                 pausedAdapters, vaultPaused>>

(***************************************************************************)
(* External: the cooldown of the MintingTagManager, and FAssets arriving   *)
(* at an adapter (a direct mint, the executor's test transfer or dust).    *)
(***************************************************************************)
ExecutorCooldownElapses(t) ==
  /\ allowedExecutor[t] # scheduledExecutor[t]
  /\ allowedExecutor' = [allowedExecutor EXCEPT ![t] = scheduledExecutor[t]]
  /\ UNCHANGED <<mintingRecipient, scheduledExecutor, tagVars, mintVars,
                 tokenVars, queueVars, adminVars>>

FAssetsArrive(a, x) ==
  /\ supply + x <= MaxSupply
  /\ supply' = supply + x
  /\ balance' = [balance EXCEPT ![a] = @ + x]
  /\ UNCHANGED <<managerVars, tagVars, mintVars, queueVars, adminVars>>

Administration ==
  \/ \E a \in Adapters : pauseAdapter(a) \/ unpauseAdapter(a)
  \/ pauseVault \/ unpauseVault
  \/ \E a \in Adapters \cup {None} : setFAssetAdapter(a)
  \/ \E a \in Adapters, e \in Executors : setDefaultDirectMintExecutor(a, e)

Next ==
  \/ \E a \in Adapters, u \in Users, t \in Tags : registerMintingTag(a, u, t)
  \/ \E a \in Adapters, e \in Executors, t \in Tags, d \in DepositIds,
       x \in 1 .. MaxSupply : processDirectMint(a, e, t, d, x)
  \/ \E a \in Adapters, d \in DepositIds : settleDirectMint(a, d)
  \/ \E a \in Adapters, u \in Users, t \in Tags, e \in Executors :
       setTagExecutor(a, u, t, e)
  \/ \E t \in Tags : ExecutorCooldownElapses(t)
  \/ \E a \in Adapters, x \in 1 .. MaxSupply : FAssetsArrive(a, x)
  \/ Administration

Spec == Init /\ [][Next]_vars

(***************************************************************************)
(* Type invariant of the bridge: every mapping of the three contracts      *)
(* keeps the shape its Solidity declaration gives it.                      *)
(***************************************************************************)
TypeOK ==
  /\ mintingRecipient \in [Tags -> Adapters \cup {None}]
  /\ allowedExecutor \in [Tags -> Executors \cup {None}]
  /\ scheduledExecutor \in [Tags -> Executors \cup {None}]
  /\ tagUser \in [Adapters -> [Tags -> Users \cup {None}]]
  /\ tagExecutor \in [Adapters -> [Tags -> Executors \cup {None}]]
  /\ defaultDirectMintExecutor \in [Adapters -> Executors]
  /\ pendingDepositForTag \in [Adapters -> [Tags -> DepositIds \cup {None}]]
  /\ pendingDirectMints \in [Adapters -> [DepositIds -> Mints \cup {NoMint}]]
  /\ processedDirectMints \in [Adapters -> SUBSET DepositIds]
  /\ totalPendingFAssets \in [Adapters -> Nat]
  /\ pausedAdapters \subseteq Adapters
  /\ balance \in [Adapters \cup {Vault} -> Nat]
  /\ supply \in 0 .. MaxSupply
  /\ fAssetAdapter \in Adapters \cup {None}
  /\ pendingDepositReceiver \in [DepositIds -> Users \cup {None}]
  /\ settledFAssetDeposits \subseteq DepositIds
  /\ vaultPaused \in BOOLEAN
  /\ credited \in [Users -> Nat]

Pending(a, d) == pendingDirectMints[a][d] # NoMint

\* The adapter never owes more than it holds, whatever mix of mints, dust,
\* records and settlements it went through: AccountingInvariantBroken and
\* the underflow of `totalPendingFAssets -=` are unreachable.
Solvent == \A a \in Adapters : totalPendingFAssets[a] <= balance[a]

\* The FAssets of all direct mints in a mapping of them.
SumOfAssets(mints) == MapThenSumSet(LAMBDA d : mints[d].assets, DepositIds)

\* totalPendingFAssets, kept incrementally by two handlers, is the sum of the
\* direct mints that are pending.
PendingTotal ==
  \A a \in Adapters : totalPendingFAssets[a] = SumOfAssets(pendingDirectMints[a])

\* pendingDepositForTag and pendingDirectMints are two views of one relation:
\* a tag names exactly the deposit that names the tag.
TagMatchesMint ==
  \A a \in Adapters :
    /\ \A t \in Tags, d \in DepositIds :
         pendingDepositForTag[a][t] = d <=>
           Pending(a, d) /\ pendingDirectMints[a][d].tag = t
    /\ \A d \in DepositIds : Pending(a, d) =>
         pendingDirectMints[a][d].receiver =
           tagUser[a][pendingDirectMints[a][d].tag]

\* The vault's queue and the adapters agree through every adapter change: the
\* vault expects deposit d for user u exactly when one adapter, and only one,
\* holds a pending direct mint d for u.
QueueAgrees ==
  \A d \in DepositIds :
    /\ \A a \in Adapters : Pending(a, d) =>
         pendingDepositReceiver[d] = pendingDirectMints[a][d].receiver
    /\ pendingDepositReceiver[d] # None => \E a \in Adapters : Pending(a, d)
    /\ \A a, b \in Adapters : Pending(a, d) /\ Pending(b, d) => a = b

\* A settled deposit is closed everywhere: no adapter and no queue entry can
\* bring it back, so it is never credited again.
SettledIsClosed ==
  \A d \in settledFAssetDeposits :
    /\ pendingDepositReceiver[d] = None
    /\ \A a \in Adapters : ~Pending(a, d)

\* Only the user who registered the tag of a pending direct mint is credited
\* by a step, with exactly the amount recorded for it, although the vault
\* looks its receiver up by deposit id alone.
CreditsTagUser ==
  [][\A u \in Users : credited'[u] # credited[u] =>
       \E a \in Adapters, d \in DepositIds :
         /\ Pending(a, d)
         /\ tagUser[a][pendingDirectMints[a][d].tag] = u
         /\ credited'[u] = credited[u] + pendingDirectMints[a][d].assets
         /\ d \in settledFAssetDeposits' \ settledFAssetDeposits]_vars

(***************************************************************************)
(* Refinement of DepositLedger: the claim of a deposit id is the direct    *)
(* mint pending for it at whichever adapter has one.                       *)
(***************************************************************************)
NoClaim == NoMint

ClaimOf(d) ==
  IF \E a \in Adapters : Pending(a, d)
  THEN LET m == pendingDirectMints[CHOOSE a \in Adapters : Pending(a, d)][d]
       IN  [receiver |-> m.receiver, assets |-> m.assets]
  ELSE NoClaim

Ledger == INSTANCE DepositLedger WITH
  claim <- [d \in DepositIds |-> ClaimOf(d)],
  closed <- settledFAssetDeposits

LedgerSpec == Ledger!Spec
==============================================================================
