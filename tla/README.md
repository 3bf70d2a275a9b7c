# FlareYield in TLA+

FlareYield takes XRP paid on the XRP Ledger, has it minted as FXRP on Flare, credits
it to depositors as shares of an ERC-4626 vault and lets a TEE move the vault's
capital between yield strategies. This directory holds models of that system, the
TLC runs that check them and the TLAPS proofs about them.

Paths below are relative to the repository (`src/` is its root).

## 1. The system

| Component | Source | State it keeps | Operations |
|---|---|---|---|
| FAssetAdapter | `src/adapters/FAssetAdapter.sol` | tag -> user, tag -> executor, tag -> pending deposit, pending direct mints, processed ids, their total, paused | registerMintingTag, processDirectMint, settleDirectMint, setTagExecutor, setDefaultDirectMintExecutor, pause |
| ParentVault | `src/core/ParentVault.sol` | shares, idle FAssets, deposit queue, active and approved strategies, nonce, TEE address and last activity, buffer, threshold, instruction sender, paused | ERC-4626 calls, queue and settle, requestRebalance, executeRebalance, forceWithdrawAll, setters |
| ParentVaultRecovery | `src/core/ParentVaultRecovery.sol` | the vault's storage | rewrite activeStrategy during an emergency upgrade |
| Strategy adapters | `src/adapters/{Enosys,SparkDex,Kinetic,FtsoV2}*.sol` | held tokens, LP tokens, kTokens or delegated WNat | deposit, withdraw, withdrawAll, totalValue, pause, claimRewards, rescueToken |
| InstructionSender | `src/fce/InstructionSender.sol` | extension id | setExtensionId, sendInstructions |
| TEE extension | `fce-extension/src` | the queue of one handler at a time, APYs read by it | CALCULATE_OPTIMAL, GET_APYS, the state report, behind an HTTP server |
| Executor bot | `executor/src/{index,xrplWatcher,flareExecutor,store}.ts` | ledger cursor, payment mutex, processed-hash file | watch XRPL, transfer FXRP to the adapter, call processDirectMint |
| Repair scripts | `executor/src/{fixAdapterMismatch,deployRecoveryAdapter}.ts` | where the script is | point the vault at a recovery adapter, queue a deposit again, point it back |
| Deposit page | `frontend/src/pages/Deposit.tsx` and its hooks | the step of each flow, query cache, localStorage, the wallet's prompts and transactions | reserve a tag, wait, settle, deploy; the auto-deploy banner; the CDP flow |
| Withdraw page | `frontend/src/pages/Withdraw.tsx` | a step | withdraw, wait for the receipt, time out |
| Handler template | `fce-config/{handlers,apy-calculator}.ts` | none between requests | choose a strategy from metrics it reads, encode a payload |
| Other parts | see section 6 | | |

How they interact:

1. A user registers a minting tag with the adapter (from the deposit page) and pays XRP
   to the core vault's XRPL address under that tag.
2. The executor sees the payment (websocket event or `account_tx` poll), sends the
   FXRP of the payment to the adapter and calls `processDirectMint`; the adapter
   records the unallocated balance for the tag's user and queues the deposit id in
   the vault.
3. Anyone calls `settleDirectMint` (the deposit page does, when its poll finds the
   deposit); the adapter hands the FXRP to the vault, which mints shares to the queued
   receiver.
4. Above a threshold of idle assets a deposit asks the TEE, through the
   InstructionSender and Flare's registry, for a rebalance. The TEE reads the
   vault's nonce, picks a strategy and signs a payload; anyone may submit it. The
   vault then empties one strategy adapter and fills another. The InstructionSender is
   open: anyone may ask the TEE for a result, naming any address, strategies and amounts.
5. After seven days without a rebalance the DAO may pull everything back.
6. If the vault is left naming an adapter that is not the one holding a deposit, an
   operator runs one of the repair scripts; if it is caught in a strategy it cannot
   leave, the owner upgrades it to `ParentVaultRecovery` and back.

What is hard here: two contracts and a queue that must agree through adapter
redeployments; a bot that reads several blocks and several processes between its
checks and its transactions, crashes, retries and times out; payloads that are
signed for a state of the vault and arrive in another; positions whose books, price and
exit costs are those of four different venues; rounding; a fallback racing a late
payload; scripts that stop half-way in a live system; pages whose effects fire on cached
reads and on receipts of transactions they have forgotten. PROJECT.json lists these
hazards line by line with the properties that watch each.

## 2. Modules

| Module | Models | Main correspondence |
|---|---|---|
| `DepositLedger` | the promise of the bridge | a deposit id is claimed once, credited in full to its claimant, closed for good |
| `DirectMint` | FAssetAdapter, the vault's queue, MintingTagManager and FAsset balances (external) | one action per contract call; an action that is not enabled is a revert |
| `ParentVault` | the vault without its queue, TEE payloads, administration, environment | one action per transaction; `signed` is the set of results the TEE signed, `instructions` what the registry holds |
| `ParentVaultRecovery` | `ParentVault` while the proxy may run the recovery implementation (EXTENDS `ParentVault`) | adds `recovery` and its two calls |
| `StrategyAdapters` | the books of the four strategy adapters, as operators | an operation maps a book, its arguments and the venue to the set of its outcomes; no outcome is a revert |
| `TeeExtension` | server, handlers and callers of the TEE extension | a step is what runs between two awaits of a handler; `queue` is the promise chain of `server.ts` |
| `RebalanceLoop` | vaults, their adapters, InstructionSender, registry, extension and relay (EXTENDS `StrategyAdapters`, `TeeExtension`) | several vaults under one TEE, strategies that compute what they pay from their books |
| `Executor` | the bot, composed with `DirectMint` (EXTENDS) | a step is what runs between two awaits; `proc` is the payment inside the mutex, `polls` the overlapping polls, `txs` its transactions in nonce order |
| `RecoveryScripts` | the two repair scripts over `DirectMint` (EXTENDS) | one action per await; it starts in the situation `FixAdapterMismatch.s.sol` describes |
| `WalletHooks` | wagmi's write and receipt hooks, the wallet and the user's transactions | one state per pair of hooks; a forgotten prompt stays in the wallet |
| `DepositPage` | the FAsset flow of the deposit page over `DirectMint` (EXTENDS with `WalletHooks`) | a step is a React event with the effects it triggers |
| `VaultPages` | deploy step, auto-deploy banner, CDP flow, withdraw page (EXTENDS `WalletHooks`) | the same, over the tokens and the nonce of the vault |
| `ApyCalculator` | the handler template of `fce-config` with its APY calculator | a step is what runs between two awaits; the formulas are operators over hundredths of a percent |
| `FiniteSums_proofs` | | sums over finite sets, for the proofs below |
| `*_proofs` | | theorems about the module of that name; those of `ParentVaultRecovery`, `StrategyAdapters` and `RecoveryScripts` are in `ParentVault_proofs`, `RebalanceLoop_proofs` and `Executor_proofs` |
| `MC*` | | symmetry sets and functions of model values for TLC |

Modelling decisions a reader should know:

- *Several adapters.* The repository redeploys the FAssetAdapter and repoints the vault
  (`script/RedeployFAssetAdapter.s.sol`, `script/FixAdapterMismatch.s.sol`), so
  `DirectMint` gives every adapter its own state and lets `setFAssetAdapter` switch at
  any time.
- *Two views of shares.* `DirectMint` counts credits in assets; `ParentVault` has the
  share arithmetic (one virtual share and one virtual asset, as OpenZeppelin's default).
  The bridge's `settleFAssetDeposit` appears in both.
- *Two views of strategies.* `ParentVault` sees a strategy as its `totalValue()` and its
  pause; what an exit costs and how a position changes in value is chosen by the
  environment, up to `MaxCost` and `MaxFunds`. A strategy may be paused, or its venue may
  fail (`failing`), and then refuses the exit. It has many holders, the clock, deadlines
  and administration. `RebalanceLoop` has one holder per vault and no clock, and computes
  all of that from the adapters' books: held tokens and swaps, what addLiquidity does not
  take, kTokens, WNat valued 0 when its router fails, the pauses of each adapter. What is
  lost to fees and price impact in one swap is chosen up to `MaxImpact`.
- *The TEE.* In `ParentVault` any requested strategy may be chosen; the clock of the TEE
  may be ahead of the chain by `MaxSkew`; a failed read of the nonce gives 0, as in
  `getCurrentNonce`. In `RebalanceLoop` the handler chooses by `Score`, among the
  strategies whose value it could read.
- *Who asks the TEE.* `sendInstructions` checks no caller. Besides the requests of the
  vaults, both models let the TEE answer `StrangersRequests`, a set of requests with any
  content. The nonce is read from the address in the request: for a vault it is that
  vault's, for any other address (`Elsewhere`, or `own` = FALSE in `ParentVault`) it is
  any number. The theorems hold for every such set. A request that strangers may send
  anyway need not be kept when the vault sends it: in the run of `ParentVault` they may
  send all the vault could ask, approved strategies or not, so its registry stays
  empty. In `RebalanceLoop` they name another address, and the vaults ask for themselves.
- *Gas estimation.* The bot's `writeContract` fails before sending when the call would
  revert. Its ABI names no errors, so its check for `DirectMintAlreadyProcessed` never
  matches and such a payment is not stored.
- *Crash while saving.* `store.ts` rewrites its file in place and starts empty when the
  file does not parse.
- *The contract `fixAdapterMismatch.ts` assembles* is modelled by what its bytecode does:
  its runtime part starts too early and never reaches the call, so the transaction
  succeeds and queues nothing. The Solidity `RecoveryAdapter` of the other script does,
  for anybody: its `reQueueDeposit` has no access control, so while the vault names it
  (`Recovery`, not `Assembled`) `SomebodyRequeues` queues any id for any receiver.
- *The calculator.* Percentages are integers in hundredths and Sharpe ratios are compared
  as fractions, so two ratios that are equal are equal here, where the code compares
  rounded doubles. One pass over the candidates stands for filter, stable sort and first
  of the list, another for the reduce of the fallback. The deviation of the returns is a
  given number; the snapshots of the
  database do not change during a request. A lost call and a move of the chain are both
  `Disturbed`. The catch of `getStrategyMetrics` is not modelled: every read under it has
  a catch of its own.
- *React.* An effect runs in the step that changes what it depends on. A component that
  is left loses its state; the query cache, localStorage, the wallet and promises that
  have been started do not. A receipt hook is loading, successful or failed; a failure
  covers a revert and a node that gave up, as in wagmi.
- *Where the page has its tag from.* `handleReserveTag` takes the first tag of
  `reservedTagsForOwner(user)`, else the one in localStorage, else it registers one. The
  adapter owns the tags it registers, so the first are only tags the user reserved at the
  manager himself (`ReserveAtManager`). localStorage knows neither account nor adapter:
  `AnotherSession` leaves behind the tag of another account or of an earlier adapter.
- *History variables* are marked as such where they are declared (`handed`, `abandoned`,
  `rewarded`, `short`, `blind`, `inherited`, `requeued`, `executed`, `disturbances`, and
  the field `own` of a payload); no guard reads them, except that bounds count the events
  behind `inherited` and `disturbances`.
- *Names.* Definitions keep the names of the code; those that stand for a block of a
  function are named for what the block does. Operators under a "Mutant of" comment are
  deliberate bugs used to test the properties and are not part of any specification.

## 3. Runs

| Run | Bounds | Distinct states |
|---|---|---|
| `direct_mint` | 2 adapters, users, executors, tags, deposits; 2 units of FAsset | 152,520 |
| `recovery_scripts` | the current, the old and both recovery adapters, 2 users, tags, deposits; 2 units; any number of script runs | 332,416 |
| `parent_vault` | 2 users, 2 strategies, one of them paused or failing at a time, a buffer of one half, 2 units, signed nonces below 2, 2 signed payloads, strangers who may send whatever the vault may ask and a request under another address, 1 tick of the clock past a TEE timeout and a payload lifetime of 0 | 550,672 |
| `vault_recovery` | 1 user, 2 strategies, one of them paused or failing at a time, no buffer, 2 units, 2 signed payloads, strangers' requests only, 1 tick as above | 384,080 |
| `executor` | 2 payments of 1 or 2 units in 2 ledgers, a wallet of 2, 1 poll at a time of 2 entries besides the websocket, 1 fault | 467,934 |
| `rebalance_loop` | 2 vaults with 2 and 1 strategies, 2 assignments of the four kinds, 3 and 1 units, 2 prices, 1 move of a venue or an adapter's owner, nonces up to 2, 2 signed results, 1 request of a stranger with all strategies | 1,245,768 |
| `tee_extension` | the same with 1 unit, all three callers, 2 requests queued | 107,467 |
| `deposit_page` | 2 adapters, 2 users, the page used by one of each; 1 tag it may register and 1 from the manager's list or another session, 2 deposits, 1 unmined transaction | 253,140 |
| `vault_pages` | 1 user, 1 CDP, 2 FAssets, 2 calls, 2 unmined transactions | 480,754 |
| `apy_calculator` | no or 2 candidates worth nothing, little or much, the limits of the handler and of the source's example, no database or one of 3, 1 lost call or move of the chain | 953,192 |

What they show:

- `direct_mint`: the adapters stay solvent (`Solvent`), their incrementally kept total is
  the sum of what is pending (`PendingTotal`), the two views of a pending mint agree
  (`TagMatchesMint`), so do the adapters and the vault's queue through every adapter
  change (`QueueAgrees`), a settled deposit is closed everywhere (`SettledIsClosed`),
  credits go to the user of the tag with the recorded amount (`CreditsTagUser`), and the
  bridge implements `DepositLedger` (`LedgerSpec`).
- `recovery_scripts`: with scripts that are interrupted anywhere and run again, while the
  bridge is in use and anybody may queue through the compiled recovery adapter, the vault
  is left on a recovery adapter only by a run that was cut short (`OutageMeansCutShort`);
  what a script reports as complete stays queued (`CompleteIsQueued`) and is credited
  (`CompleteIsCredited`); everybody else's recorded deposits get through once the vault
  is back in service (`OthersAreCredited`); and a credit has the recorded amount and goes
  to the user of the tag (`CreditsAsRecorded`). The last has one exception, and needs it:
  the stuck deposit goes to whoever it was queued for first, which need not be the
  script. That nothing is credited twice is proved.
- `parent_vault`: no sequence of rebalances, fallbacks, redemptions, approvals, gains and
  losses leaves capital in a strategy that was left (`NoStrandedCapital`); what the
  shares are worth together is covered (`RedeemableBacked`); shares can be redeemed from
  idle assets (`ExitWhenIdle`); no call lowers the price of the shares of the others
  (`FairPricing`); a rebalance, also one with a result a stranger asked for, retires
  every payload signed before it for this vault (`FreshSignature`). Of a payload whose
  request named another address this is not so: its nonce may be one the vault has yet to
  reach. A payload signed before a fallback may be executed after it; nothing in the code
  says otherwise.
- `vault_recovery`: capital is outside `totalAssets()` only where the owner left it
  (`StrandedOnlyByOwner`); neither implementation enters an unapproved strategy
  (`ActiveApproved`); an empty strategy is left only through the recovery implementation
  (`OnlyRecoveryLeavesEmpty`); and after the timeout the DAO's fallback is refused only
  for an empty or a paused position or by a venue that fails (`FallbackOpen`).
- `executor`: with a poll, events, failures and a crash at every await, the store
  never names a payment that is not on the chain (`StoreSound`), a recorded deposit has
  the tag of its payment and, unless the bot was short of FXRP, at least its amount
  (`NeverUnderCredited`), and the cursor passes no payment the handler was not handed
  (`NothingPassedOver`), and the newest payment is bridged (`NewestProcessed`). The
  adapter stays the vault's, and only the bot sends it FXRP. That polls which overlap do
  no harm to the first three is proved for any number of them (section 4); the fairness of
  the last makes a second slot too large for a run.
- `rebalance_loop`: with the real books, a strategy that was left holds nothing but what
  the code is known to leave there, SparkDEX's leftovers and rewards claimed later
  (`LeftStrategiesEmpty`); although payloads name no vault and anybody may ask for them, a
  vault migrates only on a result for its own nonce, and no vault accepts that result
  again (`ResultsSpent`); an empty position is final (`EmptyPositionIsFinal`). That the
  vault itself asked for the result is not so: a stranger may have.
- `tee_extension`: the deposit page hears the outcome of its request (`BrowserHears`).
- `deposit_page`: the page offers to deploy only what was credited (`SettledBeforeDeploy`),
  asks for XRP only to a tag registered for its user, or to one of the two other sources
  of section 2 (`AwaitsOwnTag`), shows a tag of the adapter as ready only when the executor
  may serve it, unless it was opened after the deadline had been lost
  (`ReadyMeansActive`), notices the deposit (`DepositNoticed`) and does not stay in
  SETTLING (`SettlingEnds`).
- `vault_pages`: success of a withdrawal means that this withdrawal was paid
  (`WithdrawnMeansPaid`), and CONFIRMING ends (`ConfirmingEnds`).
- `apy_calculator`: as long as nothing moves, the choice does not depend on the order in
  which the reads come back, and ties go as `sort` and `reduce` decide them
  (`AsIfAtOnce`), an adapter that cannot be read counting with the numbers its catches
  give it; the limits of the handler never bring up the fallback
  (`HandlerNeverFallsBack`); the payload passes the vault's time checks for an hour,
  although the window is then exactly as old as it may be (`PayloadLastsAnHour`).

Why the bounds are enough: interference needs two of a thing, and every run has two of
what its properties compare: two deposits to collide, two adapters to swap, two holders
to gain from each other, two strategies to strand capital in one, two vaults to confuse,
two payments to mix up at the bot, two withdrawals and the tags of two accounts on the
pages. In `parent_vault` the price of a share rises by donations and by gains that follow
losses, in `vault_recovery` by a unit of yield; a fault at each await in turn is what a
retry must survive, and a second fault only repeats the first. `MaxBps` is scaled down to
2 so that rounding is coarse: every division in a small run then has a remainder. The
clock needs one tick past the longest of its deadlines. The two assignments of kinds put
each of the four adapters before and after another one.

Two candidates of the calculator are enough for its two tie rules, and one disturbance
for two of its reads that do not fit together.

Deadlock is checked in every run but that of the calculator, which stops after one
request: elsewhere pausing, polling or opening a page is always possible.

Runs that expect a violation each check one sentence of the repository:

| Run | The sentence | What the run finds |
|---|---|---|
| `users_can_redeem` | `frontend/src/pages/Docs.tsx`:734, users always retain the ability to redeem | a vault whose venue answers and whose strategy is not paused, of which no number of shares can be redeemed: the exit is asked for exactly the shortfall and reverts when rounding or a fee takes a unit |
| `cdp_complete` | `frontend/src/pages/Deposit.tsx`:590 and :1960, complete after the deposit confirms | "CDP Deposit Complete!" after a deposit that reverted: the effect asks for a hash that is not loading |

### Fairness

- `recovery_scripts`: weak fairness of settling each deposit. Settlement is
  permissionless and the user wants it. Nothing makes the operator run a script. The
  properties assume that from some point on the adapter and the vault are in service and
  the vault names the current adapter.
- `executor`: weak fairness of each poll slot (a timer) and of its answer, of the
  steps of `processPayment`, of the chain executing transactions, and of settlement. No
  fairness is assumed of websocket events, and faults are bounded. The property is about
  the newest payment because an older one can be lost: the mutex turns payments away
  while another is processed and the cursor moves on. It assumes fewer than `PollLimit`
  entries (50 in the code) in one ledger: with more, the page never leaves that ledger.
- `tee_extension`: weak fairness of the handler, whose every call has a timeout.
- `deposit_page`: weak fairness of the page's polling timer, of the wallet answering
  (accept or reject), of the chain, and of receipt polling (which may end in a failure).
  Without the wallet's answer, or when a transaction is never mined and the node never
  reports an error, SETTLING lasts, and nothing on the page ends it.
- `vault_pages`: weak fairness of the withdraw page's 60 s timer only.

## 4. Proofs

Everything below holds for every value of the constants: any number of users, tags,
deposits, strategies, vaults, polls and faults, any amounts and parameters. The
assumptions are the named `ASSUME`s of the modules: `None` is no address, the vault is no
adapter, amounts and bounds are natural numbers, buffers and tolerances are at most
`MaxBps`, prices are positive, the strategies of two vaults are different contracts (each
adapter's constructor fixes its vault), `Elsewhere` is no vault, the executor's deposit
ids are numbered in the order of the payments, there are finitely many deposit ids
(`bytes32`) and users (addresses), the recovery adapters of the scripts are two fresh
contracts, and `null` is no tag to the deposit page. What strangers ask the TEE is any set
of requests. For the calculator: candidates are sequences of strategies, what
the database holds are lists of natural numbers, the price scale and the hour are
positive, and the vault's TWAP window and age are 24 and 2 hours, as in `ParentVault.sol`.

| Module | Theorems | Inductive invariant |
|---|---|---|
| `FiniteSums_proofs` | lemmas only: what `MapThenSumSet` computes over a finite set, and how it moves when one value does | |
| `DirectMint_proofs` | `TypeCorrect`, `AdapterSolvency`, `TagConsistency`, `QueueConsistency`, `SettledOnce`, `TotalIsSum`, `CreditGoesToTagUser`, `Refinement` | `IInv` |
| `ParentVault_proofs` | `TypeCorrect`, `NothingStranded`, `ApprovedOnly`, `ClaimsAreBacked`, `ExitIsCovered`, `SignaturesRetire`, `PricingIsFair` | `PInv({})` |
| the same, of `ParentVaultRecovery` | `StrandedByOwnerOnly`, `RecoveryApprovedOnly`, `RecoveryClaimsAreBacked`, `EmptyNeedsRecovery` | `PInv(abandoned)` |
| `RebalanceLoop_proofs` | `LoopTypeCorrect`, `NothingLeftBehind`, `ResultsAreSpent`, `EmptyIsFinal` | `LoopInv` |
| the same, of `StrategyAdapters` | `WithdrawKeeps`, `WithdrawAllEmpties`, `NothingToWithdraw` | facts about operators |
| `Executor_proofs` | `BotTypeCorrect`, `StoreOnlyProcessed`, `PaymentsInFull`, `BotTakesBridgeSteps`, `BotImplementsLedger`; `NonePassedOver` | `ExecInv`; with `ReachInv` |
| the same, of `RecoveryScripts` | `SettledStaysClosed`, `RecoveryCredits`, `ScriptsKeepLedger`, `CompleteStaysQueued`; `OutageIsKnown` | `ScriptsInv`; `OutageKnown` |
| `DepositPage_proofs` | `DeployAfterSettle`, `ReadyIsActive`, `AwaitedTagIsOwn`, `PageTakesBridgeSteps`, `PageImplementsLedger` | `PageInv` |
| `VaultPages_proofs` | `WithdrawalIsPaid` | `PagesInv` |
| `ApyCalculator_proofs` | `ChoosesAsIfAtOnce`, `FallbackUnused`, `PayloadTimes` | `CalculatorInv` |

- *Sums.* The library's induction theorems take an operator, which no prover here can
  instantiate. `FiniteSums_proofs` inducts over a set instead: `LeastNat` follows from
  `WFMin` (a set of naturals has a least element), `SubsetInduction` from `LeastNat` and
  the cardinalities of the subsets of a finite set. With it, the fold the community
  module defines is shown to satisfy its equation for any element taken out of the set
  (`SumRemove`), hence `SumUpdate`: when one value changes, the sum changes by as much.
- *The bridge.* A settlement reads the adapter's record and the vault's queue together,
  so none of the safety invariants is inductive alone; `IInv` is their conjunction with
  `TagOwner`: a tag some adapter credits a user for was reserved by that adapter, hence a
  fresh reservation cannot change the user of a pending mint. `CreditGoesToTagUser` and
  `Refinement` follow step by step from `IInv`: recording maps to `Record`, settling to
  `Credit`, everything else to a stutter. `TotalIsSum` needs that a step changes the
  record of one deposit of one adapter at most, and the lemmas about sums.
- *The vault.* That burning shares leaves the supply a natural number needs the supply
  to be the sum of the balances (`SupplyIsSum`). `ClaimsAreBacked` then bounds the sum of
  what each holder may redeem, every term rounded down, by what all shares redeem
  together (`SumRatio`). Without a strategy all assets are idle, so the same bound is
  `ExitIsCovered`, and `RedeemFromIdle` shows that a redemption then has no other guard.
  `NoncesCurrent` (no signature for a request that names the vault is ahead of its nonce)
  gives `SignaturesRetire`; it does not hold of requests that name another address.
  `PricingIsFair` compares the price of a share before and after each call by
  cross-multiplication: every conversion rounds against the caller.
- *The recovery implementation.* `PInv` takes the set of strategies that may hold capital
  outside the count; a step of the vault keeps it for any such set and can only shrink
  it, and `Rewrite` is the one step that adds to it.
- *The adapters.* For each of the four kinds: no operation takes a book below zero, a
  withdrawal pays at least its minimum or reverts, `withdrawAll` leaves only what
  addLiquidity did not take on SparkDEX, and it reverts when there is no position.
- *The rebalance loop.* `VaultInv` carries the books (each uses only the fields of its
  kind) and that a vault is in a strategy of its own; the facts about the adapters then
  give that what is left is empty. `RelayInv` follows a request, of a vault or of anybody,
  through the queue and the handler to the signature, and keeps of it only what the vaults
  check themselves. `ResultsAreSpent` rests on that check: a strategy is approved by one
  vault, and that vault has moved past the nonce.
- *The executor.* `BotInv` says what the bot remembers of the account, that a poll
  blocked by the payment in the mutex stands still, and that the transaction it waits for
  is its last. The chain mines in nonce order, so once the transfer of a payment is
  confirmed no transaction of an earlier attempt is left, and until the direct mint only
  others touch the adapter: they settle, which lowers what is owed and held alike.
  `Covered` follows the FXRP of the payment through the two reads, `MintsCovered` through
  the mempool, and `NeverUnderCredited` is what is left of it on the adapter.
  `BotTakesBridgeSteps` (`ExecSpec => Spec`) makes every theorem about the bridge one
  about the bot and the bridge together, `Refinement` among them (`BotImplementsLedger`).
- *The cursor.* Ledgers only grow along the history, so the entries before a ledger are a
  prefix and `PageStart` counts it. `ReachInv` says that what the handler was not handed
  is at or past the cursor or in the rest of a page in hand, and that what lies before
  the rest of such a page is behind the cursor, which is what lets an interrupted poll
  move the cursor when it goes on.
- *The repair scripts.* `IInv` does not hold here: they start from a deposit the adapter
  has and the vault's queue has not, and anybody may queue ids the adapter has never
  seen. What remains, `ScriptsInv`, is that only the current adapter records mints, that
  the vault expects whatever is pending there for the same user, unless it is the stuck
  deposit (`QueuedForUser`), and that the stuck deposit waits there for its receiver
  until it is settled (`StuckWaits`). Hence (`RecoveryCredits`) only the stuck deposit
  can be credited to another user, after it was queued by somebody else, and what a
  script has seen in the queue leaves it settled only. `ScriptsKeepLedger`: a claim is a
  deposit the adapter holds and the vault has in its queue; from an empty ledger every
  step is one of `DepositLedger`'s or changes nothing in it, so whoever a deposit was
  queued for keeps it and is credited once and in full. `OutageKnown` follows the vault's
  adapter through the awaits of a run.
- *The deposit page.* `PageInv` is `IInv` with four more parts. `WalletInv`: a
  transaction that is watched is the last its hook asked for, so that a receipt is about
  the argument on display (of transactions, `Forgotten` and `Mined` only take away
  watchers). `ReceiptsTrue`: what a receipt says was so when the transaction was executed
  and, a settlement being final and a registration permanent, still is. `StepsKept`:
  which hooks and tags a step implies. `TagsKnown`: every tag in the component or in
  localStorage is registered for the user, or comes from one of the other two sources.
  `CountdownKept` and `ExecutorsKept`: a countdown that has run out is that of the tag on
  display, for which the bot is then the executor, if it is a tag of the adapter; one
  reserved at the manager never is. As with the bot, the page's steps are steps of the
  bridge (`PageTakesBridgeSteps`).
- *The withdraw page.* The wallet part again, with `ReceiptsTrue` over the calls that were
  executed, and `SuccessKept`: only the receipt of the hook's last call ends in SUCCESS.
- *The calculator.* `OptimalChoice` is about `calculateOptimalStrategy` alone: for any list
  of candidates and any limits its two passes end at the candidates `BestPlace` defines
  without order or recursion. Each pass is followed element by element (`PassesAreFolds`,
  from the fixed point the fold is defined by), with an invariant of the prefix it has
  seen; ratios are ordered by cross-multiplication (`RatioOrder`). `CalculatorInv` then
  says what a handler between two awaits knows: whatever it read is in the range of the
  code that computed it (`InRange`), it was read in the order of the awaits, and is, if
  nothing moved, what a look at the chain gives now (`ReadsInv`). The fallback is out of
  reach because no risk score exceeds 100 and no APY is below 0. The times of a payload
  are arithmetic over `PayloadInv`.

The type invariants of `ParentVault`, `RebalanceLoop` and `Executor` are proved and not
run; they are part of the inductive invariants.

Only model-checked: `ExitWhenIdle` and `FallbackOpen`, which use ENABLED (the guards
behind them are proved: `ExitIsCovered` with `RedeemFromIdle`, and
`FallbackFromPosition`), and everything about liveness (`NewestProcessed`,
`CompleteIsCredited`, `OthersAreCredited`, `BrowserHears`, `DepositNoticed`,
`SettlingEnds`, `ConfirmingEnds`). The prover has no rules for fairness or ENABLED. In
`Executor_proofs` the ENABLED of the gas estimate stays unexpanded: the proofs hold
whatever it answers, and so do those about the scripts, whose requeue either takes place
or leaves the chain alone.

## 5. Divergences without a run

Met while modelling, visible in the models, and not a run of their own:

- `executor/src/index.ts`:116 says a payment met while another is processed is picked up
  on the next poll; the cursor has moved past it when a later ledger was seen (`handed`
  in `Executor` counts it as handed over, which is all `NothingPassedOver` promises).
- `executor/src/store.ts`:4 says bridged payments are not processed again after a
  restart; after a lost receipt or a crash before the save they are taken up again, and
  only `processDirectMint` refuses them.
- `executor/src/flareExecutor.ts`:197 says the XRP amount is converted 1:1. A bot that is
  short of FXRP and finds enough on the adapter compares balances of two blocks; when
  transactions of earlier attempts are mined between its reads it may record less than
  was paid (two faults; `short` in `Executor` marks these payments).
- `frontend/src/services/fceClient.ts`:8 says its format matches the handler's exactly. The
  handler encodes seven fields without a signature (`PayloadFields`), the client decodes
  eight with one (`ClientFields`), so every answer is undecodable to it (`Received`).
- `frontend/src/pages/Deposit.tsx`:301 takes the first tag of the user's own list at the
  manager, which no adapter knows, and :89 restores the tag of whatever account or adapter
  used the browser last; the page then says to send XRP to it. A payment to the first
  kind is none that `processDirectMint` records; one to the second is credited to the
  account, or recorded by the adapter, that registered the tag (the exceptions of
  `AwaitsOwnTag` and `ReadyMeansActive`).
- `frontend/src/pages/Deposit.tsx`:663 says "Watch for successful rebalance"; the effect
  asks only for a hash that is not loading, of whichever rebalance (`Watched` in
  `VaultPages`). It is the reading of a receipt that `cdp_complete` refutes for the other
  flow.
- `executor/src/deployRecoveryAdapter.ts`:160 queues the deposit for the receiver it names;
  its contract (:41) lets anybody queue through it while the vault names it, so that
  deposit may be queued for another before, or an id of a payment still to come, which
  `processDirectMint` then refuses (`SomebodyRequeues`).
- `fce-config/apy-calculator.ts`:300 gives the risk score as 0 to 100; value and balance
  of an adapter are read in two calls, and assets that arrive in between make the
  utilization, and with it the score, negative (`ReadTotal`, `ReadBalance`).
- `fce-config/apy-calculator.ts`:125 says unknown strategies get safe defaults; every read
  under that catch has one of its own, so an adapter that cannot be read is rated 4% at
  2% volatility instead, above a readable empty one.
- `frontend/src/pages/Docs.tsx`:733 promises the DAO's fallback after seven days; it is
  refused for an empty or paused strategy and while its venue fails (`FallbackOpen` has
  the three exceptions).
- `fce-extension/src/app/config.ts`:44 sets the least amount for a rebalance to 1e18, for a
  token of 6 decimals: on FXRP no request ever reaches it. `MinRebalanceAmount` is a
  parameter of the models.

## 6. Not modelled

- `SmartAccountDirectMintAdapter`: nothing in the repository calls it besides its deploy
  script; the contract that would drive its callback is outside, its calls are unknown.
- The presentation part of the frontend (landing page, dashboard, simulator, docs): it
  renders contract state or plays with numbers of its own.
- `archive`: superseded copies that nothing imports. The handler template of `fce-config`
  is modelled by itself, with the time checks of the vault but without its nonce: the
  template always encodes 0, which the vault accepts once.
- Deployment scripts: run once. The adapter change they perform is an action of
  `DirectMint`.
- Within modelled components: signature hashing, the addresses and encodings of
  instruction messages, gas, and reentrancy (every state-changing call is nonReentrant
  or calls trusted contracts); `setFccSigner`, which writes a field nothing reads;
  `lastInstructionId` and the extension's report counters, which nothing decides on;
  `handleReset` of the deposit page, which no button calls; requests the extension's
  server refuses before its queue, which change nothing; transactions the user replaces
  or cancels in the wallet; values from the calculator's database that are no numbers
  (`parseFloat` may give NaN); in the adapters, `harvestRewards`, `setDataProviders` and
  `updateLpToken`, which leave the books alone, and `setSlippageTolerance`, which keeps
  its default here.
- In the run and the theorems of the bot: `setTagExecutor`, other executors, FXRP that
  others send to the adapter, a pause or change of the vault's adapter while it runs (all
  of them are in `DirectMint`). Payments have at least one unit: `xrplWatcher.ts`:201
  reads an amount of 0 for an issued currency and hands the payment on, but the core
  vault's account would need a trust line for one, and native XRP always delivers a drop.
  The run has one poll slot.
