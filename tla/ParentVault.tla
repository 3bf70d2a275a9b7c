----------------------------- MODULE ParentVault -----------------------------
(***************************************************************************)
(* The ERC-4626 vault: shares, idle assets, the one active strategy, the   *)
(* rebalances the TEE signs, the DAO's fallback and the administration.    *)
(* One action is one transaction; an action that is not enabled reverts.   *)
(*                                                                         *)
(* A strategy is what the vault knows of it: its totalValue() and whether  *)
(* its adapter is paused.  What an exit from a strategy costs (fees and    *)
(* price impact of a swap) is chosen by the environment, up to MaxCost.    *)
(* A position is empty exactly when its value is 0: no loss takes the      *)
(* whole of a position and its price can always be read.  What an adapter  *)
(* holds without counting it is not seen here.  A venue may fail: it then  *)
(* refuses every exit, or fills it only in part.                           *)
(*                                                                         *)
(* Anybody may send the TEE a request, naming any vault and any amounts.   *)
(***************************************************************************)
EXTENDS Integers, FiniteSetsExt

CONSTANTS
  Users,             \* holders of shares
  Strategies,        \* deployed strategy adapters of the vault's asset
  KnownStrategies,   \* the addresses getApprovedStrategiesArray lists
  TeeKeys,           \* signing keys of TEE nodes
  Senders,           \* InstructionSender contracts
  None,              \* address(0)
  MaxBps,            \* 10_000, scaled down in the runs
  ToleranceBps,      \* SLIPPAGE_TOLERANCE_BPS of the TEE extension
  MinRebalanceAmount,\* MIN_REBALANCE_AMOUNT of the TEE extension
  PayloadLifetime,   \* deadline - now of a payload
  TeeTimeout, MinTwapWindow, MaxTwapAge,
  Buffers,           \* values the DAO gives liquidityBufferBps
  Thresholds,        \* values the DAO gives rebalanceThreshold
  Funds,             \* FAssets the users and the FAssetAdapter start with
  MaxFunds,          \* bound: FAssets in the system, yield included
  MaxCost,           \* bound: what a strategy call may lose
  MaxOut,            \* bound: pauses and failing venues at a time
  StrangersRequests, \* bound: requests that others than the vault send
  MaxTime, MaxSkew, MaxNonce, MaxInstructions, MaxSigned  \* bounds

ASSUME NoneAssumption == None \notin Strategies \cup TeeKeys \cup Senders
ASSUME UsersAssumption == IsFiniteSet(Users)
ASSUME KnownAssumption == KnownStrategies \subseteq Strategies
ASSUME BpsAssumption ==
  /\ MaxBps \in Nat \ {0}
  /\ Buffers \subseteq 0 .. MaxBps /\ Buffers # {}
  /\ ToleranceBps \in 0 .. MaxBps
ASSUME AmountAssumption ==
  /\ MinRebalanceAmount \in Nat /\ Thresholds \subseteq Nat
  /\ Funds \in Nat /\ MaxFunds \in Nat /\ MaxCost \in Nat
  /\ MaxOut \in Nat
ASSUME TimeAssumption ==
  /\ PayloadLifetime \in Nat /\ TeeTimeout \in Nat
  /\ MinTwapWindow \in Nat \ {0} /\ MaxTwapAge \in Nat
  /\ MaxTime \in Nat /\ MaxSkew \in Nat /\ MaxNonce \in Nat
  /\ MaxInstructions \in Nat /\ MaxSigned \in Nat

VARIABLES
  outside,               \* FAssets held by users and by the FAssetAdapter
  idle,                  \* FAssets held by the vault
  shares, totalSupply,   \* ERC-20 of the vault
  value,                 \* totalValue() of each strategy
  pausedStrategies,
  failing,               \* strategies whose venue refuses an exit
  activeStrategy,
  approvedStrategies,
  rebalanceNonce,
  teeAddress,
  teeLastActive,
  liquidityBufferBps,
  rebalanceThreshold,
  instructionSender,
  paused,
  now,                   \* block.timestamp
  instructions,          \* requests of this vault the registry holds for the TEEs
  signed                 \* action results the TEEs signed

shareVars == <<outside, shares, totalSupply>>
strategyVars == <<value, pausedStrategies, failing>>
rebalanceVars == <<activeStrategy, rebalanceNonce, teeLastActive>>
configVars == <<approvedStrategies, teeAddress, liquidityBufferBps,
                rebalanceThreshold, instructionSender, paused>>
teeVars == <<instructions, signed>>

vars == <<shareVars, idle, strategyVars, rebalanceVars, configVars, now, teeVars>>

Init ==
  /\ outside = Funds
  /\ idle = 0
  /\ shares = [u \in Users |-> 0]
  /\ totalSupply = 0
  /\ value = [s \in Strategies |-> 0]
  /\ pausedStrategies = {} /\ failing = {}
  /\ activeStrategy = None
  /\ approvedStrategies = {}
  /\ rebalanceNonce = 0
  /\ teeAddress = None
  /\ now = MinTwapWindow
  /\ teeLastActive = now
  /\ liquidityBufferBps \in Buffers
  /\ rebalanceThreshold = 0
  /\ instructionSender = None
  /\ paused = FALSE
  /\ instructions = {}
  /\ signed = {}

(***************************************************************************)
(* ERC-4626 conversions: one virtual share and one virtual asset, rounded  *)
(* in favour of the vault.                                                 *)
(***************************************************************************)
CeilDiv(x, y) == (x + y - 1) \div y

ValueOf(s) == IF s = None THEN 0 ELSE value[s]
totalAssets == idle + ValueOf(activeStrategy)

\* Mutants: rounding in favour of the caller.
previewDepositUp(assets) == CeilDiv(assets * (totalSupply + 1), totalAssets + 1)
previewRedeemUp(amount) == CeilDiv(amount * (totalAssets + 1), totalSupply + 1)

previewDeposit(assets) == (assets * (totalSupply + 1)) \div (totalAssets + 1)
previewMint(amount) == CeilDiv(amount * (totalAssets + 1), totalSupply + 1)
previewWithdraw(assets) == CeilDiv(assets * (totalSupply + 1), totalAssets + 1)
previewRedeem(amount) == (amount * (totalAssets + 1)) \div (totalSupply + 1)

(***************************************************************************)
(* IStrategyAdapter, as the four adapters implement it.                    *)
(***************************************************************************)

\* withdraw(shortfall, shortfall): pays out, at the cost of `spent` of its value.
StrategyWithdraw(s, shortfall, out, spent) ==
  /\ s \notin pausedStrategies \cup failing
  /\ shortfall <= value[s]
  /\ out <= spent /\ spent <= value[s]
  /\ value' = [value EXCEPT ![s] = @ - spent]

\* Guards of withdrawAll(minAmountOut): an empty position reverts with
\* NothingToWithdraw or NoKTokensToRedeem, a failing venue with KTokenRedeemFailed
\* or the errors of the swap and of the TWAP.
\* Mutant: an empty position is not refused.
StrategyWithdrawsNothing(s, minAmountOut, out, residual) ==
  /\ s \notin pausedStrategies \cup failing
  /\ out >= minAmountOut
  /\ out + residual <= value[s]

StrategyWithdrawsAll(s, minAmountOut, out, residual) ==
  /\ s \notin pausedStrategies \cup failing
  /\ value[s] # 0
  /\ out >= minAmountOut
  /\ out + residual <= value[s]

(***************************************************************************)
(* Requests for a rebalance.  `own` tells whether a request names this     *)
(* vault as its vaultAddress.                                              *)
(***************************************************************************)
Requests ==
  [own : BOOLEAN, idleAssets : Nat, strategies : SUBSET Strategies,
   liquidityBufferBps : 0 .. MaxBps]

\* InstructionSender.sendInstructions takes an instruction from anybody, with
\* any content.  Those of strangers may be sent at any time, so the model does
\* not keep them.
ASSUME StrangersAssumption == StrangersRequests \subseteq Requests

getApprovedStrategiesArray == KnownStrategies \cap approvedStrategies

RequestAt(idleAssets) ==
  [own |-> TRUE, idleAssets |-> idleAssets,
   strategies |-> getApprovedStrategiesArray,
   liquidityBufferBps |-> liquidityBufferBps]

\* InstructionSender.sendInstructions, called by the vault: the registry keeps the
\* instruction, and the model too unless a stranger may send the same.
sendInstructions(request) ==
  /\ instructions' = instructions \cup ({request} \ StrangersRequests)
  /\ Cardinality(instructions') <= MaxInstructions
  /\ UNCHANGED signed

requestRebalance ==
  /\ ~paused
  /\ instructionSender # None
  /\ idle >= rebalanceThreshold
  /\ sendInstructions(RequestAt(idle))
  /\ UNCHANGED <<shareVars, idle, strategyVars, rebalanceVars, configVars, now>>

\* The trigger inside _deposit, which survives a failing request (no extension
\* id, no TEE available).
AutoTrigger(currentIdle) ==
  \/ /\ instructionSender # None
     /\ rebalanceThreshold > 0
     /\ currentIdle >= rebalanceThreshold
     /\ sendInstructions(RequestAt(currentIdle))
  \/ UNCHANGED teeVars

(***************************************************************************)
(* Shares.                                                                 *)
(***************************************************************************)
_deposit(receiver, assets, amount) ==
  /\ assets <= outside
  /\ outside' = outside - assets
  /\ idle' = idle + assets
  /\ shares' = [shares EXCEPT ![receiver] = @ + amount]
  /\ totalSupply' = totalSupply + amount
  /\ AutoTrigger(idle + assets)
  /\ UNCHANGED <<strategyVars, rebalanceVars, configVars, now>>

deposit(receiver, assets) ==
  /\ ~paused
  /\ _deposit(receiver, assets, previewDeposit(assets))

mint(receiver, amount) ==
  /\ ~paused
  /\ _deposit(receiver, previewMint(amount), amount)

\* The queue entry that authorises it is modelled in DirectMint.tla.
settleFAssetDeposit(receiver, assets) ==
  /\ ~paused
  /\ _deposit(receiver, assets, previewDeposit(assets))

_withdraw(owner, assets, amount, out, spent) ==
  /\ \/ /\ idle >= assets
        /\ out = 0 /\ spent = 0
        /\ UNCHANGED value
     \/ /\ idle < assets
        /\ activeStrategy # None
        /\ StrategyWithdraw(activeStrategy, assets - idle, out, spent)
        /\ out >= assets - idle
  /\ amount <= shares[owner]
  /\ idle' = idle + out - assets
  /\ outside' = outside + assets
  /\ shares' = [shares EXCEPT ![owner] = @ - amount]
  /\ totalSupply' = totalSupply - amount
  /\ UNCHANGED <<pausedStrategies, failing, rebalanceVars, configVars, now, teeVars>>

withdraw(owner, assets, out, spent) ==
  /\ assets <= previewRedeem(shares[owner])
  /\ _withdraw(owner, assets, previewWithdraw(assets), out, spent)

\* Mutant of redeem: the whenNotPaused modifier of deposit.
redeemUnpaused(owner, amount, out, spent) ==
  /\ ~paused
  /\ amount <= shares[owner]
  /\ _withdraw(owner, previewRedeem(amount), amount, out, spent)

redeem(owner, amount, out, spent) ==
  /\ amount <= shares[owner]
  /\ _withdraw(owner, previewRedeem(amount), amount, out, spent)

transfer(from, to, amount) ==
  /\ from # to
  /\ amount <= shares[from]
  /\ shares' = [shares EXCEPT ![from] = @ - amount, ![to] = @ + amount]
  /\ UNCHANGED <<outside, totalSupply, idle, strategyVars, rebalanceVars,
                 configVars, now, teeVars>>

(***************************************************************************)
(* Rebalancing.  A payload is what the extension's handleCalculateOptimal  *)
(* encodes; the TEE signs it.  Which strategy it selects depends on APYs   *)
(* the vault never sees, so any requested strategy may be chosen; the      *)
(* TEE's clock may run ahead of the chain.  A payload names no vault; its  *)
(* field `own` is history and says whether its request named this one.     *)
(***************************************************************************)
Payloads ==
  [newStrategy : Strategies, minAmountOut : Nat, nonce : Nat, deadline : Nat,
   twapStart : Nat, twapEnd : Nat, signer : TeeKeys, own : BOOLEAN]

\* The rebalanceNonce of the address in the request: this vault's, or whatever
\* the contract at another address answers; a failed read gives 0.
getCurrentNonce(request) ==
  IF request.own THEN {rebalanceNonce, 0} ELSE 0 .. MaxNonce - 1

Deployable(assets, bufferBps) == (assets * (MaxBps - bufferBps)) \div MaxBps

handleCalculateOptimal(request, s, nonce, clock, key) ==
  /\ request.idleAssets >= MinRebalanceAmount
  /\ s \in request.strategies
  /\ LET deployAmount == Deployable(request.idleAssets, request.liquidityBufferBps)
         payload == [newStrategy |-> s,
                     minAmountOut |-> Deployable(deployAmount, ToleranceBps),
                     nonce |-> nonce,
                     deadline |-> clock + PayloadLifetime,
                     twapStart |-> clock - MinTwapWindow, twapEnd |-> clock,
                     signer |-> key, own |-> request.own]
     IN  signed' = signed \cup {payload}
  /\ UNCHANGED <<shareVars, idle, strategyVars, rebalanceVars, configVars, now,
                 instructions>>

TeeSigns ==
  \E request \in instructions \cup StrangersRequests, s \in Strategies,
     clock \in now .. now + MaxSkew, key \in TeeKeys :
       \E nonce \in getCurrentNonce(request) :
         /\ nonce < MaxNonce
         /\ handleCalculateOptimal(request, s, nonce, clock, key)
         /\ Cardinality(signed') <= MaxSigned

_validateRebalancePayload(p) ==
  /\ p.nonce = rebalanceNonce
  /\ now <= p.deadline
  /\ p.twapStart < p.twapEnd /\ p.twapEnd <= now
  /\ p.twapEnd - p.twapStart >= MinTwapWindow
  /\ now - p.twapEnd <= MaxTwapAge

\* Leaves the active strategy, if there is one, with `out` assets.
LeaveStrategy(minAmountOut, out, residual) ==
  IF activeStrategy = None
  THEN out = 0 /\ residual = 0
  ELSE StrategyWithdrawsAll(activeStrategy, minAmountOut, out, residual)

\* Moves the deployable part of the idle assets into strategy s.
EnterStrategy(s, out, residual, cost) ==
  LET assetsToDeposit == Deployable(idle + out, liquidityBufferBps) IN
  /\ assetsToDeposit # 0 => s \notin pausedStrategies
  /\ cost <= assetsToDeposit
  /\ idle' = idle + out - assetsToDeposit
  /\ value' = [r \in Strategies |->
       CASE r = s -> value[r] + assetsToDeposit - cost
         [] r = activeStrategy -> residual
         [] OTHER -> value[r]]

\* Mutants of executeRebalance: the residual value is not checked, or the nonce
\* is not advanced.
rebalanceKeepResidual(p, out, residual, cost) ==
  /\ ~paused /\ p.signer = teeAddress /\ _validateRebalancePayload(p)
  /\ p.newStrategy # activeStrategy /\ p.newStrategy \in approvedStrategies
  /\ LeaveStrategy(p.minAmountOut, out, residual)
  /\ EnterStrategy(p.newStrategy, out, residual, cost)
  /\ activeStrategy' = p.newStrategy
  /\ rebalanceNonce' = p.nonce + 1
  /\ teeLastActive' = now
  /\ UNCHANGED <<shareVars, pausedStrategies, failing, configVars, now, teeVars>>
rebalanceKeepNonce(p, out, residual, cost) ==
  /\ ~paused /\ p.signer = teeAddress /\ _validateRebalancePayload(p)
  /\ p.newStrategy # activeStrategy /\ p.newStrategy \in approvedStrategies
  /\ LeaveStrategy(p.minAmountOut, out, residual) /\ residual = 0
  /\ EnterStrategy(p.newStrategy, out, residual, cost)
  /\ activeStrategy' = p.newStrategy
  /\ teeLastActive' = now
  /\ UNCHANGED <<shareVars, pausedStrategies, failing, rebalanceNonce, configVars,
                 now, teeVars>>

executeRebalance(p, out, residual, cost) ==
  /\ ~paused
  /\ p.signer = teeAddress
  /\ _validateRebalancePayload(p)
  /\ p.newStrategy # activeStrategy
  /\ p.newStrategy \in approvedStrategies
  /\ LeaveStrategy(p.minAmountOut, out, residual)
  /\ residual = 0
  /\ EnterStrategy(p.newStrategy, out, residual, cost)
  /\ activeStrategy' = p.newStrategy
  /\ rebalanceNonce' = p.nonce + 1
  /\ teeLastActive' = now
  /\ UNCHANGED <<shareVars, pausedStrategies, failing, configVars, now, teeVars>>

\* Mutant of forceWithdrawAll: a partial exit is accepted.
forceKeepResidual(minAmountOut, out, residual) ==
  /\ now > teeLastActive + TeeTimeout
  /\ activeStrategy # None
  /\ StrategyWithdrawsAll(activeStrategy, minAmountOut, out, residual)
  /\ idle' = idle + out
  /\ value' = [value EXCEPT ![activeStrategy] = residual]
  /\ activeStrategy' = None
  /\ UNCHANGED <<shareVars, pausedStrategies, failing, rebalanceNonce,
                 teeLastActive, configVars, now, teeVars>>

\* Mutant of forceWithdrawAll: the whenNotPaused modifier of executeRebalance.
forceUnpaused(minAmountOut, out, residual) ==
  /\ ~paused
  /\ now > teeLastActive + TeeTimeout
  /\ activeStrategy # None
  /\ StrategyWithdrawsAll(activeStrategy, minAmountOut, out, residual)
  /\ residual = 0
  /\ idle' = idle + out
  /\ value' = [value EXCEPT ![activeStrategy] = residual]
  /\ activeStrategy' = None
  /\ UNCHANGED <<shareVars, pausedStrategies, failing, rebalanceNonce,
                 teeLastActive, configVars, now, teeVars>>

\* Without an active strategy the call returns 0 and changes nothing.
forceWithdrawAll(minAmountOut, out, residual) ==
  /\ now > teeLastActive + TeeTimeout
  /\ activeStrategy # None
  /\ StrategyWithdrawsAll(activeStrategy, minAmountOut, out, residual)
  /\ residual = 0
  /\ idle' = idle + out
  /\ value' = [value EXCEPT ![activeStrategy] = residual]
  /\ activeStrategy' = None
  /\ UNCHANGED <<shareVars, pausedStrategies, failing, rebalanceNonce,
                 teeLastActive, configVars, now, teeVars>>

(***************************************************************************)
(* Administration by the DAO.                                              *)
(***************************************************************************)
\* Mutant of setStrategyAdapter: the active strategy may lose its approval.
revokeAny(s, approved) ==
  /\ approvedStrategies' =
       IF approved THEN approvedStrategies \cup {s} ELSE approvedStrategies \ {s}
  /\ UNCHANGED <<shareVars, idle, strategyVars, rebalanceVars, teeAddress,
                 liquidityBufferBps, rebalanceThreshold, instructionSender,
                 paused, now, teeVars>>

setStrategyAdapter(s, approved) ==
  /\ approved \/ s # activeStrategy
  /\ approvedStrategies' =
       IF approved THEN approvedStrategies \cup {s} ELSE approvedStrategies \ {s}
  /\ UNCHANGED <<shareVars, idle, strategyVars, rebalanceVars, teeAddress,
                 liquidityBufferBps, rebalanceThreshold, instructionSender,
                 paused, now, teeVars>>

setTeeAddress(key) ==
  /\ teeAddress' = key
  /\ UNCHANGED <<shareVars, idle, strategyVars, rebalanceVars, approvedStrategies,
                 liquidityBufferBps, rebalanceThreshold, instructionSender,
                 paused, now, teeVars>>

setLiquidityBufferBps(bps) ==
  /\ liquidityBufferBps' = bps
  /\ UNCHANGED <<shareVars, idle, strategyVars, rebalanceVars, approvedStrategies,
                 teeAddress, rebalanceThreshold, instructionSender, paused, now,
                 teeVars>>

setRebalanceThreshold(threshold) ==
  /\ rebalanceThreshold' = threshold
  /\ UNCHANGED <<shareVars, idle, strategyVars, rebalanceVars, approvedStrategies,
                 teeAddress, liquidityBufferBps, instructionSender, paused, now,
                 teeVars>>

setInstructionSender(newSender) ==
  /\ instructionSender' = newSender
  /\ UNCHANGED <<shareVars, idle, strategyVars, rebalanceVars, approvedStrategies,
                 teeAddress, liquidityBufferBps, rebalanceThreshold, paused, now,
                 teeVars>>

pause ==
  /\ ~paused
  /\ paused' = TRUE
  /\ UNCHANGED <<shareVars, idle, strategyVars, rebalanceVars, approvedStrategies,
                 teeAddress, liquidityBufferBps, rebalanceThreshold,
                 instructionSender, now, teeVars>>

unpause ==
  /\ paused
  /\ paused' = FALSE
  /\ UNCHANGED <<shareVars, idle, strategyVars, rebalanceVars, approvedStrategies,
                 teeAddress, liquidityBufferBps, rebalanceThreshold,
                 instructionSender, now, teeVars>>

(***************************************************************************)
(* The environment: the owners of the adapters pause them, venues fail and *)
(* recover, yield accrues and losses occur, somebody sends FAssets to the  *)
(* vault, time passes.                                                     *)
(***************************************************************************)
pauseStrategy(s) ==
  /\ s \notin pausedStrategies
  /\ pausedStrategies' = pausedStrategies \cup {s}
  /\ Cardinality(pausedStrategies') + Cardinality(failing) <= MaxOut
  /\ UNCHANGED <<shareVars, idle, value, failing, rebalanceVars, configVars, now,
                 teeVars>>

unpauseStrategy(s) ==
  /\ s \in pausedStrategies
  /\ pausedStrategies' = pausedStrategies \ {s}
  /\ UNCHANGED <<shareVars, idle, value, failing, rebalanceVars, configVars, now,
                 teeVars>>

\* A strategy's venue fails, or answers again.
VenueMoves ==
  /\ failing' \in SUBSET Strategies
  /\ failing' # failing
  /\ Cardinality(pausedStrategies) + Cardinality(failing') <= MaxOut
  /\ UNCHANGED <<shareVars, idle, value, pausedStrategies, rebalanceVars,
                 configVars, now, teeVars>>

\* An empty position earns nothing, and no loss empties a position.
PositionRevalued(s, v) ==
  /\ value[s] # 0 /\ v # 0
  /\ v > value[s] => outside + idle + v <= MaxFunds
  /\ v < value[s] => value[s] - v <= MaxCost
  /\ value' = [value EXCEPT ![s] = v]
  /\ UNCHANGED <<shareVars, idle, pausedStrategies, failing, rebalanceVars,
                 configVars, now, teeVars>>

FAssetTransfer(x) ==
  /\ x <= outside
  /\ outside' = outside - x
  /\ idle' = idle + x
  /\ UNCHANGED <<shares, totalSupply, strategyVars, rebalanceVars, configVars, now,
                 teeVars>>

Tick ==
  /\ now < MaxTime
  /\ now' = now + 1
  /\ UNCHANGED <<shareVars, idle, strategyVars, rebalanceVars, configVars, teeVars>>

(***************************************************************************)
(* The specification.                                                      *)
(***************************************************************************)
Amounts == 1 .. MaxFunds
Costs == 0 .. MaxCost

Deposits ==
  \E u \in Users, x \in Amounts :
    deposit(u, x) \/ mint(u, x) \/ settleFAssetDeposit(u, x)

\* What a withdrawal takes from the strategy is bounded by MaxCost above what
\* it needs.
Withdrawals ==
  \E u \in Users, x \in Amounts, out \in 0 .. MaxFunds, c \in Costs :
    withdraw(u, x, out, out + c) \/ redeem(u, x, out, out + c)

Transfers == \E u, v \in Users, x \in Amounts : transfer(u, v, x)

ExecuteRebalance ==
  \E p \in signed, out \in 0 .. MaxFunds, residual, cost \in Costs :
    /\ p.nonce < MaxNonce
    /\ activeStrategy # None => out + residual + MaxCost >= ValueOf(activeStrategy)
    /\ executeRebalance(p, out, residual, cost)

ForceWithdrawAll ==
  \E minAmountOut, out \in 0 .. MaxFunds, residual \in Costs :
    /\ activeStrategy # None => out + residual + MaxCost >= ValueOf(activeStrategy)
    /\ forceWithdrawAll(minAmountOut, out, residual)

SetStrategyAdapter ==
  \E s \in Strategies, approved \in BOOLEAN : setStrategyAdapter(s, approved)

Administration ==
  \/ SetStrategyAdapter
  \/ \E key \in TeeKeys \cup {None} : setTeeAddress(key)
  \/ \E bps \in Buffers : setLiquidityBufferBps(bps)
  \/ \E threshold \in Thresholds : setRebalanceThreshold(threshold)
  \/ \E newSender \in Senders \cup {None} : setInstructionSender(newSender)
  \/ pause \/ unpause

Environment ==
  \/ \E s \in Strategies : pauseStrategy(s) \/ unpauseStrategy(s)
  \/ VenueMoves
  \/ \E s \in Strategies, v \in Amounts : PositionRevalued(s, v)
  \/ \E x \in Amounts : FAssetTransfer(x)
  \/ Tick

Next ==
  \/ Deposits
  \/ Withdrawals
  \/ Transfers
  \/ requestRebalance
  \/ TeeSigns
  \/ ExecuteRebalance
  \/ ForceWithdrawAll
  \/ Administration
  \/ Environment

Spec == Init /\ [][Next]_vars

(***************************************************************************)
(* Properties.                                                             *)
(***************************************************************************)

\* Type invariant; `idle`, `value`, `outside` and `shares` never underflow.
TypeOK ==
  /\ outside \in Nat /\ idle \in Nat
  /\ shares \in [Users -> Nat] /\ totalSupply \in Nat
  /\ value \in [Strategies -> Nat]
  /\ pausedStrategies \subseteq Strategies /\ failing \subseteq Strategies
  /\ activeStrategy \in Strategies \cup {None}
  /\ approvedStrategies \subseteq Strategies
  /\ rebalanceNonce \in Nat
  /\ teeAddress \in TeeKeys \cup {None}
  /\ now \in Nat /\ now >= MinTwapWindow
  /\ teeLastActive \in Nat
  /\ liquidityBufferBps \in Buffers
  /\ rebalanceThreshold \in Nat
  /\ instructionSender \in Senders \cup {None}
  /\ paused \in BOOLEAN
  /\ instructions \subseteq Requests
  /\ signed \subseteq Payloads

\* All deployed capital is in the active strategy, the only one totalAssets()
\* counts: no sequence of rebalances, fallbacks, withdrawals and approvals
\* leaves FAssets in a strategy the vault has moved away from.
NoStrandedCapital ==
  \A s \in Strategies : s # activeStrategy => value[s] = 0

\* The DAO's approvals and the TEE's payloads cannot get the vault into a
\* strategy that is not approved, whatever their order.
ActiveApproved == activeStrategy \in approvedStrategies \cup {None}

\* What all holders could redeem together never exceeds the assets.
RedeemableBacked ==
  MapThenSumSet(LAMBDA u : previewRedeem(shares[u]), Users) <= totalAssets

\* Whoever moves assets across the boundary of the vault or changes the supply
\* never lowers the value of a share of the others: the rounding of the four
\* ERC-4626 conversions always favours the vault.  What a strategy charges for
\* a withdrawal is the environment's, so the assets are counted before it.
FairPricing ==
  [][(totalSupply' # totalSupply \/ outside' # outside) =>
       (totalAssets + outside - outside' + 1) * (totalSupply + 1)
         >= (totalAssets + 1) * (totalSupply' + 1)]_vars

\* A rebalance retires every payload signed for this vault so far, used or not:
\* whatever result it was executed with, a request that names this vault needs a
\* signature made after it.  Of a result whose request named another address
\* nothing is said: its nonce is what that address answered, and may be one the
\* vault has yet to reach.
FreshSignature ==
  [][activeStrategy' \notin {activeStrategy, None} =>
       \A p \in signed : p.own => p.nonce < rebalanceNonce']_vars

\* Without an active strategy every holder can redeem everything, also while
\* the vault is paused.
ExitWhenIdle ==
  activeStrategy = None =>
    \A u \in Users : shares[u] > 0 => ENABLED redeem(u, shares[u], 0, 0)
==============================================================================
