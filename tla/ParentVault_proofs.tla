-------------------------- MODULE ParentVault_proofs --------------------------
(***************************************************************************)
(* Proofs about ParentVault, for any users, strategies, TEE keys and       *)
(* parameters, and about the vault whose proxy may run                     *)
(* ParentVaultRecovery.  PInv is the inductive invariant.  Burning shares  *)
(* keeps totalSupply a natural number only because the supply is the sum   *)
(* of the balances, which PInv therefore states.                           *)
(***************************************************************************)
EXTENDS ParentVaultRecovery, FiniteSums_proofs, TLAPS

SupplyIsSum == totalSupply = SumOver(shares, Users)

\* No result whose request named this vault has a nonce the vault has not reached.
NoncesCurrent == \A p \in signed : p.own => p.nonce <= rebalanceNonce

\* What is outside the active strategy is in A.  ParentVault has no such
\* strategies; ParentVaultRecovery has those its owner rewrote away.
StrandedWithin(A) ==
  \A s \in Strategies \ A : s # activeStrategy => value[s] = 0

PInv(A) ==
  /\ TypeOK
  /\ SupplyIsSum
  /\ StrandedWithin(A)
  /\ ActiveApproved
  /\ NoncesCurrent

(***************************************************************************)
(* Rounded division.                                                       *)
(***************************************************************************)
\* The quotient, rounded down, is at most the quotient.
LEMMA FloorDivision ==
  ASSUME NEW x \in Nat, NEW y \in Nat \ {0}
  PROVE  x \div y \in Nat /\ (x \div y) * y <= x
OBVIOUS

\* The quotient, rounded up, is at least the quotient.
LEMMA CeilDivision ==
  ASSUME NEW x \in Nat, NEW y \in Nat \ {0}
  PROVE  CeilDiv(x, y) \in Nat /\ CeilDiv(x, y) * y >= x
BY DEF CeilDiv

\* A share of bufferBps of some assets is kept back.
LEMMA DeployableBound ==
  ASSUME NEW x \in Nat, NEW bps \in 0 .. MaxBps
  PROVE  Deployable(x, bps) \in Nat /\ Deployable(x, bps) <= x
<1>1. x * (MaxBps - bps) \in Nat /\ x * (MaxBps - bps) <= x * MaxBps
  BY BpsAssumption
<1>2. Deployable(x, bps) \in Nat /\ Deployable(x, bps) * MaxBps <= x * MaxBps
  BY <1>1, FloorDivision, BpsAssumption DEF Deployable
<1>3. QED
  BY <1>2, BpsAssumption

(***************************************************************************)
(* The ERC-4626 conversions.                                               *)
(***************************************************************************)
\* Each conversion of an amount rounds in favour of the vault.
LEMMA ConversionsRound ==
  ASSUME TypeOK, NEW x \in Nat
  PROVE  /\ totalAssets \in Nat
         /\ previewDeposit(x) \in Nat
         /\ previewDeposit(x) * (totalAssets + 1) <= x * (totalSupply + 1)
         /\ previewMint(x) \in Nat
         /\ x * (totalAssets + 1) <= previewMint(x) * (totalSupply + 1)
         /\ previewWithdraw(x) \in Nat
         /\ x * (totalSupply + 1) <= previewWithdraw(x) * (totalAssets + 1)
         /\ previewRedeem(x) \in Nat
         /\ previewRedeem(x) * (totalSupply + 1) <= x * (totalAssets + 1)
<1>1. totalAssets \in Nat
  BY DEF TypeOK, totalAssets, ValueOf
<1>2. totalSupply + 1 \in Nat \ {0} /\ totalAssets + 1 \in Nat \ {0}
  BY <1>1 DEF TypeOK
<1>3. x * (totalSupply + 1) \in Nat /\ x * (totalAssets + 1) \in Nat
  BY <1>2
<1>4. /\ previewDeposit(x) \in Nat
      /\ previewDeposit(x) * (totalAssets + 1) <= x * (totalSupply + 1)
  BY <1>2, <1>3, FloorDivision DEF previewDeposit
<1>5. /\ previewRedeem(x) \in Nat
      /\ previewRedeem(x) * (totalSupply + 1) <= x * (totalAssets + 1)
  BY <1>2, <1>3, FloorDivision DEF previewRedeem
<1>6. /\ previewMint(x) \in Nat
      /\ x * (totalAssets + 1) <= previewMint(x) * (totalSupply + 1)
  BY <1>2, <1>3, CeilDivision DEF previewMint
<1>7. /\ previewWithdraw(x) \in Nat
      /\ x * (totalSupply + 1) <= previewWithdraw(x) * (totalAssets + 1)
  BY <1>2, <1>3, CeilDivision DEF previewWithdraw
<1>8. QED
  BY <1>1, <1>4, <1>5, <1>6, <1>7

(***************************************************************************)
(* The invariant, one lemma for each kind of step.                         *)
(***************************************************************************)
\* A vault just deployed is empty.
LEMMA InitInv == Init => PInv({})
<1> SUFFICES ASSUME Init PROVE PInv({})
  OBVIOUS
<1>1. now \in Nat /\ now >= MinTwapWindow /\ teeLastActive \in Nat
  BY TimeAssumption DEF Init
<1>2. TypeOK
  BY <1>1, AmountAssumption DEF Init, TypeOK
<1>3. SupplyIsSum
  <2>1. totalSupply = 0 /\ \A u \in Users : shares[u] = 0
    BY DEF Init
  <2>2. QED
    BY <2>1, SumZero, UsersAssumption DEF SupplyIsSum
<1>4. StrandedWithin({}) /\ ActiveApproved /\ NoncesCurrent
  BY DEF Init, StrandedWithin, ActiveApproved, NoncesCurrent
<1>5. QED
  BY <1>2, <1>3, <1>4 DEF PInv

\* A request for a rebalance names approved strategies only.
LEMMA RequestType ==
  ASSUME TypeOK, NEW x \in Nat, sendInstructions(RequestAt(x))
  PROVE  instructions' \subseteq Requests /\ signed' = signed
<1>1. RequestAt(x) \in Requests
  <2>1. getApprovedStrategiesArray \subseteq Strategies /\ liquidityBufferBps \in 0 .. MaxBps
    BY KnownAssumption, BpsAssumption DEF TypeOK, getApprovedStrategiesArray
  <2>2. QED
    BY <2>1 DEF RequestAt, Requests
<1>2. QED
  BY <1>1 DEF TypeOK, sendInstructions

\* Paying in mints to one holder, and may ask for a rebalance.
LEMMA DepositStep ==
  ASSUME NEW A, PInv(A), NEW u \in Users, NEW assets \in Nat, NEW amount \in Nat,
         _deposit(u, assets, amount)
  PROVE  PInv(A)'
<1>1. idle + assets \in Nat
  BY DEF PInv, TypeOK
<1>2. instructions' \subseteq Requests /\ signed' = signed
  <2>1. CASE sendInstructions(RequestAt(idle + assets))
    BY <1>1, <2>1, RequestType DEF PInv
  <2>2. CASE UNCHANGED teeVars
    BY <2>2 DEF PInv, TypeOK, teeVars
  <2>3. QED
    BY <2>1, <2>2 DEF _deposit, AutoTrigger
<1>3. /\ outside' \in Nat /\ idle' \in Nat
      /\ shares' \in [Users -> Nat] /\ totalSupply' \in Nat
  BY DEF PInv, TypeOK, _deposit
<1>4. UNCHANGED <<strategyVars, rebalanceVars, configVars, now>>
  BY DEF _deposit
<1>5. TypeOK'
  BY <1>2, <1>3, <1>4 DEF PInv, TypeOK, strategyVars, rebalanceVars, configVars
<1>6. SupplyIsSum'
  <2>1. /\ shares \in [Users -> Nat] /\ totalSupply \in Nat
        /\ shares'[u] = shares[u] + amount
        /\ \A v \in Users \ {u} : shares'[v] = shares[v]
    BY DEF PInv, TypeOK, _deposit
  <2>2. SumOver(shares', Users) = totalSupply - shares[u] + shares'[u]
    BY <1>3, <2>1, SumUpdate, UsersAssumption DEF PInv, SupplyIsSum
  <2>3. totalSupply - shares[u] + shares'[u] = totalSupply'
    BY <2>1 DEF _deposit
  <2>4. QED
    BY <2>2, <2>3 DEF SupplyIsSum
<1>7. StrandedWithin(A)' /\ ActiveApproved' /\ NoncesCurrent'
  BY <1>2, <1>4 DEF PInv, StrandedWithin, ActiveApproved, NoncesCurrent,
     strategyVars, rebalanceVars, configVars
<1>8. QED
  BY <1>5, <1>6, <1>7 DEF PInv

\* Paying out burns what the holder has, and takes from the active strategy only.
LEMMA WithdrawStep ==
  ASSUME NEW A, PInv(A), NEW u \in Users, NEW assets \in Nat, NEW amount \in Nat,
         NEW out \in Nat, NEW spent \in Nat, _withdraw(u, assets, amount, out, spent)
  PROVE  PInv(A)'
<1>1. UNCHANGED <<pausedStrategies, failing, rebalanceVars, configVars, now, teeVars>>
  BY DEF _withdraw
<1>2. /\ value' \in [Strategies -> Nat]
      /\ \A s \in Strategies : s # activeStrategy => value'[s] = value[s]
      /\ idle' \in Nat
  <2>1. CASE idle >= assets /\ out = 0 /\ UNCHANGED value
    BY <2>1 DEF PInv, TypeOK, _withdraw
  <2>2. CASE /\ activeStrategy # None
             /\ StrategyWithdraw(activeStrategy, assets - idle, out, spent)
             /\ out >= assets - idle
    <3>1. activeStrategy \in Strategies
      BY <2>2 DEF PInv, TypeOK
    <3>2. idle' \in Nat
      BY <2>2 DEF PInv, TypeOK, _withdraw
    <3>3. QED
      BY <2>2, <3>1, <3>2 DEF PInv, TypeOK, StrategyWithdraw
  <2>3. QED
    BY <2>1, <2>2 DEF _withdraw
<1>3. totalSupply \in Nat /\ shares[u] \in Nat /\ shares[u] <= totalSupply
  BY SumBounds, UsersAssumption DEF PInv, TypeOK, SupplyIsSum
<1>4. /\ outside' \in Nat
      /\ shares' \in [Users -> Nat] /\ totalSupply' \in Nat
  BY <1>3 DEF PInv, TypeOK, _withdraw
<1>5. TypeOK'
  BY <1>1, <1>2, <1>4 DEF PInv, TypeOK, rebalanceVars, configVars, teeVars
<1>6. SupplyIsSum'
  <2>1. /\ shares \in [Users -> Nat] /\ totalSupply \in Nat
        /\ shares'[u] = shares[u] - amount
        /\ \A v \in Users \ {u} : shares'[v] = shares[v]
    BY DEF PInv, TypeOK, _withdraw
  <2>2. SumOver(shares', Users) = totalSupply - shares[u] + shares'[u]
    BY <1>4, <2>1, SumUpdate, UsersAssumption DEF PInv, SupplyIsSum
  <2>3. totalSupply - shares[u] + shares'[u] = totalSupply'
    BY <1>3, <2>1 DEF _withdraw
  <2>4. QED
    BY <2>2, <2>3 DEF SupplyIsSum
<1>7. StrandedWithin(A)' /\ ActiveApproved' /\ NoncesCurrent'
  BY <1>1, <1>2 DEF PInv, StrandedWithin, ActiveApproved, NoncesCurrent,
     rebalanceVars, configVars, teeVars
<1>8. QED
  BY <1>5, <1>6, <1>7 DEF PInv

\* A transfer changes two balances and no total.
LEMMA TransferStep ==
  ASSUME NEW A, PInv(A), NEW u \in Users, NEW v \in Users, NEW amount \in Nat,
         transfer(u, v, amount)
  PROVE  PInv(A)'
<1>1. /\ shares[u] \in Nat /\ shares[v] \in Nat /\ shares \in [Users -> Nat]
      /\ totalSupply \in Nat /\ totalSupply = SumOver(shares, Users)
      /\ shares[u] - amount \in Nat
      /\ u # v
  BY DEF PInv, TypeOK, SupplyIsSum, transfer
<1>2. PICK debited : debited = [shares EXCEPT ![u] = @ - amount]
  OBVIOUS
<1>3. /\ debited \in [Users -> Nat]
      /\ debited[u] = shares[u] - amount /\ debited[v] = shares[v]
      /\ \A w \in Users \ {u} : debited[w] = shares[w]
  BY <1>1, <1>2
<1>4. /\ shares' \in [Users -> Nat]
      /\ shares'[v] = shares[v] + amount
      /\ \A w \in Users \ {v} : shares'[w] = debited[w]
  BY <1>1, <1>2 DEF transfer
<1>5. SumOver(debited, Users) = totalSupply - shares[u] + debited[u]
  BY <1>1, <1>3, SumUpdate, UsersAssumption
<1>6. SumOver(shares', Users) = SumOver(debited, Users) - debited[v] + shares'[v]
  BY <1>3, <1>4, SumUpdate, UsersAssumption
<1>7. SupplyIsSum'
  BY <1>1, <1>3, <1>4, <1>5, <1>6 DEF SupplyIsSum, transfer
<1>8. TypeOK'
  BY <1>4 DEF PInv, TypeOK, transfer, strategyVars, rebalanceVars, configVars, teeVars
<1>9. StrandedWithin(A)' /\ ActiveApproved' /\ NoncesCurrent'
  BY DEF PInv, StrandedWithin, ActiveApproved, NoncesCurrent, transfer,
     strategyVars, rebalanceVars, configVars, teeVars
<1>10. QED
  BY <1>7, <1>8, <1>9 DEF PInv

\* A request only adds to what the registry holds.
LEMMA RequestStep ==
  ASSUME NEW A, PInv(A), requestRebalance
  PROVE  PInv(A)'
<1>1. UNCHANGED <<shareVars, idle, strategyVars, rebalanceVars, configVars, now>>
  BY DEF requestRebalance
<1>2. instructions' \subseteq Requests /\ signed' = signed
  BY RequestType DEF PInv, TypeOK, requestRebalance
<1>3. TypeOK'
  BY <1>1, <1>2 DEF PInv, TypeOK, shareVars, strategyVars, rebalanceVars, configVars
<1>4. SupplyIsSum' /\ StrandedWithin(A)' /\ ActiveApproved' /\ NoncesCurrent'
  BY <1>1, <1>2 DEF PInv, SupplyIsSum, StrandedWithin, ActiveApproved,
     NoncesCurrent, shareVars, strategyVars, rebalanceVars, configVars
<1>5. QED
  BY <1>3, <1>4 DEF PInv

\* A signed payload is well formed, whoever asked for it; if the request named the
\* vault, its nonce is one the vault has reached.
LEMMA SignStep ==
  ASSUME NEW A, PInv(A), TeeSigns
  PROVE  PInv(A)'
<1>0. PICK request \in instructions \cup StrangersRequests, s \in Strategies,
           clock \in now .. now + MaxSkew, key \in TeeKeys :
        \E nonce \in getCurrentNonce(request) :
          handleCalculateOptimal(request, s, nonce, clock, key)
  BY DEF TeeSigns
<1>1. PICK nonce \in getCurrentNonce(request) :
        handleCalculateOptimal(request, s, nonce, clock, key)
  BY <1>0
<1> DEFINE deployAmount == Deployable(request.idleAssets, request.liquidityBufferBps)
           payload == [newStrategy |-> s,
                       minAmountOut |-> Deployable(deployAmount, ToleranceBps),
                       nonce |-> nonce,
                       deadline |-> clock + PayloadLifetime,
                       twapStart |-> clock - MinTwapWindow, twapEnd |-> clock,
                       signer |-> key, own |-> request.own]
<1>2. UNCHANGED <<shareVars, idle, strategyVars, rebalanceVars, configVars, now,
                  instructions>>
  BY <1>1 DEF handleCalculateOptimal
<1>3. signed' = signed \cup {payload}
  BY <1>1 DEF handleCalculateOptimal
<1>4. /\ request.idleAssets \in Nat /\ request.liquidityBufferBps \in 0 .. MaxBps
      /\ request.own \in BOOLEAN
  BY StrangersAssumption DEF PInv, TypeOK, Requests
<1>5. Deployable(deployAmount, ToleranceBps) \in Nat
  <2>1. deployAmount \in Nat
    BY <1>4, DeployableBound
  <2>2. QED
    BY <2>1, DeployableBound, BpsAssumption
<1>6. /\ nonce \in Nat /\ (request.own => nonce <= rebalanceNonce)
      /\ clock + PayloadLifetime \in Nat
      /\ clock - MinTwapWindow \in Nat /\ clock \in Nat
  <2>1. CASE request.own
    BY <2>1, TimeAssumption DEF PInv, TypeOK, getCurrentNonce
  <2>2. CASE ~request.own
    BY <2>2, TimeAssumption DEF PInv, TypeOK, getCurrentNonce
  <2>3. QED
    BY <2>1, <2>2
<1>7. payload \in Payloads /\ payload.nonce = nonce /\ payload.own = request.own
  <2> HIDE DEF deployAmount
  <2>1. QED
    BY <1>4, <1>5, <1>6 DEF Payloads
<1> HIDE DEF payload
<1>8. TypeOK'
  BY <1>2, <1>3, <1>7 DEF PInv, TypeOK, shareVars, strategyVars, rebalanceVars, configVars
<1>9. NoncesCurrent'
  BY <1>2, <1>3, <1>6, <1>7 DEF PInv, NoncesCurrent, rebalanceVars
<1>10. SupplyIsSum' /\ StrandedWithin(A)' /\ ActiveApproved'
  BY <1>2 DEF PInv, SupplyIsSum, StrandedWithin, ActiveApproved,
     shareVars, strategyVars, rebalanceVars, configVars
<1>11. QED
  BY <1>8, <1>9, <1>10 DEF PInv

\* Leaving the active strategy completely and entering another one leaves
\* value nowhere else.
LEMMA RebalanceStep ==
  ASSUME NEW A, PInv(A), NEW p \in signed, NEW out \in Nat, NEW residual \in Nat,
         NEW cost \in Nat, executeRebalance(p, out, residual, cost)
  PROVE  PInv(A)'
<1> DEFINE s == p.newStrategy
           deployed == Deployable(idle + out, liquidityBufferBps)
<1>1. UNCHANGED <<shareVars, pausedStrategies, failing, configVars, now, teeVars>>
  BY DEF executeRebalance
<1>2. /\ p \in Payloads /\ s \in Strategies
      /\ s # activeStrategy /\ s \in approvedStrategies /\ residual = 0
      /\ activeStrategy' = s /\ rebalanceNonce' = p.nonce + 1
      /\ teeLastActive' = now /\ p.nonce = rebalanceNonce
  BY DEF PInv, TypeOK, executeRebalance, _validateRebalancePayload, Payloads
<1>3. deployed \in Nat /\ deployed <= idle + out
  BY DeployableBound, BpsAssumption DEF PInv, TypeOK
<1>4. /\ cost <= deployed
      /\ idle' = idle + out - deployed
      /\ value' = [r \in Strategies |->
           CASE r = s -> value[r] + deployed - cost
             [] r = activeStrategy -> residual
             [] OTHER -> value[r]]
  BY DEF executeRebalance, EnterStrategy
<1> HIDE DEF deployed, s
<1>5. idle' \in Nat
  BY <1>3, <1>4 DEF PInv, TypeOK
<1>6. /\ value' \in [Strategies -> Nat]
      /\ \A r \in Strategies \ A : r # s => value'[r] = 0
  <2>1. \A r \in Strategies :
          value'[r] \in Nat /\ (r \notin A /\ r # s => value'[r] = 0)
    <3> TAKE r \in Strategies
    <3>1. CASE r = s
      BY <1>2, <1>3, <1>4, <3>1 DEF PInv, TypeOK
    <3>2. CASE r # s /\ r = activeStrategy
      BY <1>2, <1>4, <3>2
    <3>3. CASE r # s /\ r # activeStrategy
      BY <1>4, <3>3 DEF PInv, TypeOK, StrandedWithin
    <3>4. QED
      BY <3>1, <3>2, <3>3
  <2>2. QED
    BY <1>4, <2>1
<1>7. TypeOK'
  BY <1>1, <1>2, <1>5, <1>6
  DEF PInv, TypeOK, shareVars, configVars, teeVars
<1>8. StrandedWithin(A)' /\ ActiveApproved' /\ NoncesCurrent'
  BY <1>1, <1>2, <1>6 DEF PInv, TypeOK, Payloads, StrandedWithin, ActiveApproved,
     NoncesCurrent, configVars, teeVars
<1>9. SupplyIsSum'
  BY <1>1 DEF PInv, SupplyIsSum, shareVars
<1>10. QED
  BY <1>7, <1>8, <1>9 DEF PInv

\* The fallback empties the strategy it leaves.
LEMMA FallbackStep ==
  ASSUME NEW A, PInv(A), NEW minAmountOut, NEW out \in Nat, NEW residual \in Nat,
         forceWithdrawAll(minAmountOut, out, residual)
  PROVE  PInv(A)'
<1>1. UNCHANGED <<shareVars, pausedStrategies, failing, rebalanceNonce, teeLastActive,
                  configVars, now, teeVars>>
  BY DEF forceWithdrawAll
<1>2. /\ activeStrategy \in Strategies /\ activeStrategy' = None
      /\ residual = 0
      /\ value' = [value EXCEPT ![activeStrategy] = residual]
      /\ idle' \in Nat
  BY DEF PInv, TypeOK, forceWithdrawAll
<1>3. TypeOK'
  BY <1>1, <1>2 DEF PInv, TypeOK, shareVars, configVars, teeVars
<1>4. StrandedWithin(A)'
  BY <1>2 DEF PInv, TypeOK, StrandedWithin
<1>5. ActiveApproved' /\ NoncesCurrent' /\ SupplyIsSum'
  BY <1>1, <1>2 DEF PInv, ActiveApproved, NoncesCurrent, SupplyIsSum, shareVars,
     configVars, teeVars
<1>6. QED
  BY <1>3, <1>4, <1>5 DEF PInv

\* The active strategy cannot lose its approval.
LEMMA AdministrationStep ==
  ASSUME NEW A, PInv(A), Administration
  PROVE  PInv(A)'
<1>1. UNCHANGED <<shareVars, idle, strategyVars, rebalanceVars, now, teeVars>>
  BY DEF Administration, SetStrategyAdapter, setStrategyAdapter, setTeeAddress,
     setLiquidityBufferBps, setRebalanceThreshold, setInstructionSender, pause, unpause
<1>2. ASSUME SetStrategyAdapter
      PROVE  /\ approvedStrategies' \subseteq Strategies
             /\ ActiveApproved'
             /\ UNCHANGED <<teeAddress, liquidityBufferBps, rebalanceThreshold,
                            instructionSender, paused>>
  BY <1>2 DEF PInv, TypeOK, ActiveApproved, SetStrategyAdapter, setStrategyAdapter,
     rebalanceVars
<1>3. ASSUME ~SetStrategyAdapter
      PROVE  /\ approvedStrategies' = approvedStrategies
             /\ teeAddress' \in TeeKeys \cup {None}
             /\ liquidityBufferBps' \in Buffers
             /\ rebalanceThreshold' \in Nat
             /\ instructionSender' \in Senders \cup {None}
             /\ paused' \in BOOLEAN
  BY <1>3, AmountAssumption DEF PInv, TypeOK, Administration, setTeeAddress,
     setLiquidityBufferBps, setRebalanceThreshold, setInstructionSender, pause, unpause
<1>4. TypeOK'
  BY <1>1, <1>2, <1>3 DEF PInv, TypeOK, shareVars, strategyVars, rebalanceVars, teeVars
<1>5. ActiveApproved'
  BY <1>1, <1>2, <1>3 DEF PInv, ActiveApproved, rebalanceVars
<1>6. SupplyIsSum' /\ StrandedWithin(A)' /\ NoncesCurrent'
  BY <1>1 DEF PInv, SupplyIsSum, StrandedWithin, NoncesCurrent, shareVars,
     strategyVars, rebalanceVars, teeVars
<1>7. QED
  BY <1>4, <1>5, <1>6 DEF PInv

\* Yield and losses reach only the active strategy.
LEMMA EnvironmentStep ==
  ASSUME NEW A, PInv(A), Environment
  PROVE  PInv(A)'
<1>1. UNCHANGED <<shares, totalSupply, rebalanceVars, configVars, teeVars>>
  BY DEF Environment, pauseStrategy, unpauseStrategy, VenueMoves, PositionRevalued,
     FAssetTransfer, Tick, shareVars
<1>2. outside' \in Nat /\ idle' \in Nat
  BY DEF PInv, TypeOK, Environment, pauseStrategy, unpauseStrategy, VenueMoves,
     PositionRevalued, FAssetTransfer, Tick, shareVars, Amounts
<1>3. now' \in Nat /\ now' >= now
  BY DEF PInv, TypeOK, Environment, pauseStrategy, unpauseStrategy, VenueMoves,
     PositionRevalued, FAssetTransfer, Tick
<1>4. pausedStrategies' \subseteq Strategies /\ failing' \subseteq Strategies
  BY DEF PInv, TypeOK, Environment, pauseStrategy, unpauseStrategy, VenueMoves,
     PositionRevalued, FAssetTransfer, Tick, strategyVars
<1>5. /\ value' \in [Strategies -> Nat]
      /\ \A s \in Strategies \ A : s # activeStrategy => value'[s] = 0
  <2>1. CASE UNCHANGED value
    BY <2>1 DEF PInv, TypeOK, StrandedWithin
  <2>2. CASE \E s \in Strategies, v \in Amounts : PositionRevalued(s, v)
    BY <2>2 DEF PInv, TypeOK, StrandedWithin, PositionRevalued, Amounts
  <2>3. QED
    BY <2>1, <2>2 DEF Environment, pauseStrategy, unpauseStrategy, VenueMoves,
       FAssetTransfer, Tick, strategyVars
<1>6. TypeOK'
  BY <1>1, <1>2, <1>3, <1>4, <1>5, TimeAssumption
  DEF PInv, TypeOK, rebalanceVars, configVars, teeVars
<1>7. StrandedWithin(A)' /\ ActiveApproved' /\ NoncesCurrent' /\ SupplyIsSum'
  BY <1>1, <1>5 DEF PInv, StrandedWithin, ActiveApproved, NoncesCurrent,
     SupplyIsSum, rebalanceVars, configVars, teeVars
<1>8. QED
  BY <1>6, <1>7 DEF PInv

\* Every step preserves the invariant.
LEMMA NextInv ==
  ASSUME NEW A, PInv(A), [Next]_vars
  PROVE  PInv(A)'
<1>1. CASE Deposits
  <2>1. PICK u \in Users, x \in Amounts :
          deposit(u, x) \/ mint(u, x) \/ settleFAssetDeposit(u, x)
    BY <1>1 DEF Deposits
  <2>2. x \in Nat /\ previewDeposit(x) \in Nat /\ previewMint(x) \in Nat
    BY ConversionsRound DEF PInv, Amounts
  <2>3. QED
    BY <2>1, <2>2, DepositStep DEF deposit, mint, settleFAssetDeposit
<1>2. CASE Withdrawals
  <2>1. PICK u \in Users, x \in Amounts, out \in 0 .. MaxFunds, c \in Costs :
          withdraw(u, x, out, out + c) \/ redeem(u, x, out, out + c)
    BY <1>2 DEF Withdrawals
  <2>2. x \in Nat /\ previewWithdraw(x) \in Nat /\ previewRedeem(x) \in Nat
    BY ConversionsRound DEF PInv, Amounts
  <2>3. out \in Nat /\ out + c \in Nat
    BY DEF Costs
  <2>4. QED
    BY <2>1, <2>2, <2>3, WithdrawStep DEF withdraw, redeem
<1>3. CASE Transfers
  BY <1>3, TransferStep DEF Transfers, Amounts
<1>4. CASE requestRebalance
  BY <1>4, RequestStep
<1>5. CASE TeeSigns
  BY <1>5, SignStep
<1>6. CASE ExecuteRebalance
  BY <1>6, RebalanceStep DEF ExecuteRebalance, Costs
<1>7. CASE ForceWithdrawAll
  BY <1>7, FallbackStep DEF ForceWithdrawAll, Costs
<1>8. CASE Administration
  BY <1>8, AdministrationStep
<1>9. CASE Environment
  BY <1>9, EnvironmentStep
<1>10. CASE UNCHANGED vars
  BY <1>10 DEF PInv, TypeOK, SupplyIsSum, StrandedWithin, ActiveApproved,
     NoncesCurrent, vars, shareVars, strategyVars, rebalanceVars, configVars, teeVars
<1>11. QED
  BY <1>1, <1>2, <1>3, <1>4, <1>5, <1>6, <1>7, <1>8, <1>9, <1>10 DEF Next

\* The inductive invariant holds in every reachable state.
THEOREM Invariance == Spec => []PInv({})
<1>1. Init => PInv({})
  BY InitInv
<1>2. PInv({}) /\ [Next]_vars => PInv({})'
  BY NextInv
<1>3. QED
  BY <1>1, <1>2, PTL DEF Spec

(***************************************************************************)
(* The properties.                                                         *)
(***************************************************************************)
\* No state variable leaves its type; no balance, supply or value underflows.
THEOREM TypeCorrect == Spec => []TypeOK
<1>1. PInv({}) => TypeOK
  BY DEF PInv
<1>2. QED
  BY <1>1, Invariance, PTL

\* All deployed capital is in the active strategy: executeRebalance and
\* forceWithdrawAll empty the strategy they leave.
THEOREM NothingStranded == Spec => []NoStrandedCapital
<1>1. PInv({}) => NoStrandedCapital
  BY DEF PInv, NoStrandedCapital, StrandedWithin
<1>2. QED
  BY <1>1, Invariance, PTL

\* The vault is never in a strategy the DAO has not approved.
THEOREM ApprovedOnly == Spec => []ActiveApproved
<1>1. PInv({}) => ActiveApproved
  BY DEF PInv
<1>2. QED
  BY <1>1, Invariance, PTL

\* Only a rebalance and the fallback change the active strategy.
LEMMA OnlyExitsAndEntries ==
  ASSUME Next, ~ExecuteRebalance, ~ForceWithdrawAll
  PROVE  activeStrategy' = activeStrategy
<1>1. Deposits \/ Withdrawals \/ Transfers => activeStrategy' = activeStrategy
  BY DEF Deposits, deposit, mint, settleFAssetDeposit, _deposit, Withdrawals, withdraw,
     redeem, _withdraw, Transfers, transfer, rebalanceVars
<1>2. requestRebalance \/ TeeSigns \/ Administration => activeStrategy' = activeStrategy
  BY DEF requestRebalance, TeeSigns, handleCalculateOptimal, Administration,
     SetStrategyAdapter, setStrategyAdapter, setTeeAddress, setLiquidityBufferBps,
     setRebalanceThreshold, setInstructionSender, pause, unpause, rebalanceVars
<1>3. Environment => activeStrategy' = activeStrategy
  BY DEF Environment, pauseStrategy, unpauseStrategy, VenueMoves, PositionRevalued,
     FAssetTransfer, Tick, rebalanceVars
<1>4. QED
  BY <1>1, <1>2, <1>3 DEF Next

\* The steps that enter no strategy keep the active one or drop it.
LEMMA OnlyRebalanceEnters ==
  ASSUME Next, ~ExecuteRebalance
  PROVE  activeStrategy' \in {activeStrategy, None}
<1>1. ForceWithdrawAll => activeStrategy' = None
  BY DEF ForceWithdrawAll, forceWithdrawAll
<1>2. QED
  BY <1>1, OnlyExitsAndEntries

\* A rebalance advances the nonce past every signature made before it for the
\* vault, also when the result it executes was made for another address.
LEMMA RebalanceRetires ==
  ASSUME NEW A, PInv(A), NEW p \in signed, NEW out, NEW residual, NEW cost,
         executeRebalance(p, out, residual, cost)
  PROVE  \A q \in signed : q.own => q.nonce < rebalanceNonce'
<1>1. rebalanceNonce' = rebalanceNonce + 1
  BY DEF executeRebalance, _validateRebalancePayload
<1>2. \A q \in signed : q.nonce \in Nat /\ (q.own => q.nonce <= rebalanceNonce)
  BY DEF PInv, TypeOK, NoncesCurrent, Payloads
<1>3. QED
  BY <1>1, <1>2 DEF PInv, TypeOK

\* After a rebalance every payload signed for the vault so far is dead, although
\* anybody may ask the TEE for results and the rebalance may have executed one
\* whose nonce another contract made up.
THEOREM SignaturesRetire == Spec => FreshSignature
<1>1. ASSUME PInv({}), [Next]_vars, activeStrategy' \notin {activeStrategy, None}
      PROVE  \A p \in signed : p.own => p.nonce < rebalanceNonce'
  <2>1. Next
    BY <1>1 DEF vars, rebalanceVars
  <2>2. ExecuteRebalance
    BY <1>1, <2>1, OnlyRebalanceEnters
  <2>3. QED
    BY <1>1, <2>2, RebalanceRetires DEF ExecuteRebalance
<1>2. PInv({}) /\ [Next]_vars =>
        [activeStrategy' \notin {activeStrategy, None} =>
           \A p \in signed : p.own => p.nonce < rebalanceNonce']_vars
  BY <1>1
<1>3. QED
  BY <1>2, Invariance, PTL DEF Spec, FreshSignature

(***************************************************************************)
(* The price of a share.                                                   *)
(***************************************************************************)
\* Cross-multiplied: adding assets and supply at no better than the price p/q
\* of a share keeps the price.
LEMMA PriceKept ==
  ASSUME NEW p \in Nat, NEW q \in Nat, NEW dp \in Int, NEW dq \in Int,
         dq * p <= dp * q
  PROVE  (p + dp) * q >= p * (q + dq)
<1>1. (p + dp) * q = p * q + dp * q /\ p * (q + dq) = p * q + dq * p
  OBVIOUS
<1>2. p * q \in Int /\ dp * q \in Int /\ dq * p \in Int
  OBVIOUS
<1>3. QED
  BY <1>1, <1>2

\* What FairPricing says of one step.
FairStep ==
  (totalAssets + outside - outside' + 1) * (totalSupply + 1)
    >= (totalAssets + 1) * (totalSupply' + 1)

\* Paying in assets for shares minted at no better than the current price.
LEMMA FairDeposit ==
  ASSUME TypeOK, NEW u \in Users, NEW assets \in Nat, NEW amount \in Nat,
         _deposit(u, assets, amount),
         amount * (totalAssets + 1) <= assets * (totalSupply + 1)
  PROVE  FairStep
<1> DEFINE p == totalAssets + 1
           q == totalSupply + 1
<1>0. totalAssets \in Nat
  BY ConversionsRound
<1>1. p \in Nat /\ q \in Nat /\ totalAssets \in Nat
  BY <1>0 DEF TypeOK
<1>2. amount * p <= assets * q
  OBVIOUS
<1>3. totalAssets + outside - outside' + 1 = p + assets /\ totalSupply' + 1 = q + amount
  BY <1>1 DEF TypeOK, _deposit
<1> HIDE DEF p, q
<1>4. (p + assets) * q >= p * (q + amount)
  BY <1>1, <1>2, PriceKept
<1>5. QED
  BY <1>3, <1>4 DEF FairStep, p, q

\* Paying out assets for shares burnt at no better than the current price.
LEMMA FairWithdraw ==
  ASSUME TypeOK, NEW u \in Users, NEW assets \in Nat, NEW amount \in Nat,
         NEW out, NEW spent, _withdraw(u, assets, amount, out, spent),
         assets * (totalSupply + 1) <= amount * (totalAssets + 1)
  PROVE  FairStep
<1> DEFINE p == totalAssets + 1
           q == totalSupply + 1
<1>0. totalAssets \in Nat
  BY ConversionsRound
<1>1. p \in Nat /\ q \in Nat /\ totalAssets \in Nat
  BY <1>0 DEF TypeOK
<1>2. assets * q <= amount * p
  OBVIOUS
<1>3. totalAssets + outside - outside' + 1 = p + (- assets)
      /\ totalSupply' + 1 = q + (- amount)
  BY <1>1 DEF TypeOK, _withdraw
<1> HIDE DEF p, q
<1>4. (- amount) * p <= (- assets) * q
  <2>1. (- amount) * p = - (amount * p) /\ (- assets) * q = - (assets * q)
    BY <1>1
  <2>2. amount * p \in Int /\ assets * q \in Int
    BY <1>1
  <2>3. QED
    BY <1>2, <2>1, <2>2
<1>5. (p + (- assets)) * q >= p * (q + (- amount))
  <2>1. - assets \in Int /\ - amount \in Int
    OBVIOUS
  <2>2. QED
    BY <1>1, <1>4, <2>1, PriceKept
<1>6. QED
  BY <1>3, <1>5 DEF FairStep, p, q

\* No deposit, mint, settlement, withdrawal, redemption or donation lowers the
\* value of the shares of the others.
THEOREM PricingIsFair == Spec => FairPricing
<1>1. ASSUME PInv({}), Next, totalSupply' # totalSupply \/ outside' # outside
      PROVE  FairStep
  <2>1. Deposits \/ Withdrawals \/ \E x \in Amounts : FAssetTransfer(x)
    BY <1>1 DEF Next, Transfers, transfer, requestRebalance, TeeSigns,
       handleCalculateOptimal, ExecuteRebalance, executeRebalance, ForceWithdrawAll,
       forceWithdrawAll, Administration, SetStrategyAdapter, setStrategyAdapter,
       setTeeAddress, setLiquidityBufferBps, setRebalanceThreshold,
       setInstructionSender, pause, unpause, Environment, pauseStrategy,
       unpauseStrategy, VenueMoves, PositionRevalued, Tick, shareVars
  <2>2. CASE Deposits
    <3>1. PICK u \in Users, x \in Amounts :
            deposit(u, x) \/ mint(u, x) \/ settleFAssetDeposit(u, x)
      BY <2>2 DEF Deposits
    <3>2. x \in Nat
      BY DEF Amounts
    <3>3. /\ previewDeposit(x) \in Nat
          /\ previewDeposit(x) * (totalAssets + 1) <= x * (totalSupply + 1)
          /\ previewMint(x) \in Nat
          /\ x * (totalAssets + 1) <= previewMint(x) * (totalSupply + 1)
      BY <1>1, <3>2, ConversionsRound DEF PInv
    <3>4. CASE deposit(u, x) \/ settleFAssetDeposit(u, x)
      BY <1>1, <3>2, <3>3, <3>4, FairDeposit DEF PInv, deposit, settleFAssetDeposit
    <3>5. CASE mint(u, x)
      BY <1>1, <3>2, <3>3, <3>5, FairDeposit DEF PInv, mint
    <3>6. QED
      BY <3>1, <3>4, <3>5
  <2>3. CASE Withdrawals
    <3>1. PICK u \in Users, x \in Amounts, out \in 0 .. MaxFunds, c \in Costs :
            withdraw(u, x, out, out + c) \/ redeem(u, x, out, out + c)
      BY <2>3 DEF Withdrawals
    <3>2. x \in Nat
      BY DEF Amounts
    <3>3. /\ previewWithdraw(x) \in Nat
          /\ x * (totalSupply + 1) <= previewWithdraw(x) * (totalAssets + 1)
          /\ previewRedeem(x) \in Nat
          /\ previewRedeem(x) * (totalSupply + 1) <= x * (totalAssets + 1)
      BY <1>1, <3>2, ConversionsRound DEF PInv
    <3>4. CASE withdraw(u, x, out, out + c)
      BY <1>1, <3>2, <3>3, <3>4, FairWithdraw DEF PInv, withdraw
    <3>5. CASE redeem(u, x, out, out + c)
      BY <1>1, <3>2, <3>3, <3>5, FairWithdraw DEF PInv, redeem
    <3>6. QED
      BY <3>1, <3>4, <3>5
  <2>4. CASE \E x \in Amounts : FAssetTransfer(x)
    <3>1. PICK x \in Amounts : FAssetTransfer(x)
      BY <2>4
    <3>2. totalAssets \in Nat /\ x \in Nat
      BY <1>1, ConversionsRound DEF PInv, Amounts
    <3>3. /\ totalAssets + outside - outside' + 1 = (totalAssets + 1) + x
          /\ totalSupply' = totalSupply
      BY <1>1, <3>1, <3>2 DEF PInv, TypeOK, FAssetTransfer
    <3>4. 0 * (totalAssets + 1) <= x * (totalSupply + 1)
      BY <1>1, <3>2 DEF PInv, TypeOK
    <3>5. (totalAssets + 1 + x) * (totalSupply + 1) >= (totalAssets + 1) * (totalSupply + 1 + 0)
      <4>1. totalAssets + 1 \in Nat /\ totalSupply + 1 \in Nat
        BY <1>1, <3>2 DEF PInv, TypeOK
      <4>2. QED
        BY <3>2, <3>4, <4>1, PriceKept
    <3>6. QED
      BY <1>1, <3>3, <3>5 DEF PInv, TypeOK, FairStep
  <2>5. QED
    BY <2>1, <2>2, <2>3, <2>4
<1>2. PInv({}) /\ [Next]_vars =>
        [(totalSupply' # totalSupply \/ outside' # outside) =>
           (totalAssets + outside - outside' + 1) * (totalSupply + 1)
             >= (totalAssets + 1) * (totalSupply' + 1)]_vars
  BY <1>1 DEF FairStep
<1>3. QED
  BY <1>2, Invariance, PTL DEF Spec, FairPricing

(***************************************************************************)
(* What the holders can redeem.                                            *)
(***************************************************************************)
\* What each holder redeems for.
Redeemable == [u \in Users |-> previewRedeem(shares[u])]

\* RedeemableBacked speaks of its sum.
LEMMA RedeemableIsSum ==
  RedeemableBacked <=> SumOver(Redeemable, Users) <= totalAssets
<1>1. MapThenSumSet(LAMBDA u : previewRedeem(shares[u]), Users) = SumOver(Redeemable, Users)
  BY Zenon DEF MapThenSumSet, MapThenFoldSet, SumOver, Redeemable
<1>2. QED
  BY <1>1, Zenon DEF RedeemableBacked

\* All the shares together are worth at most the assets: each holder's part is
\* rounded down, and the parts are in the ratio of the shares.
LEMMA RedeemableBound ==
  ASSUME TypeOK, SupplyIsSum
  PROVE  RedeemableBacked
<1> DEFINE a == totalAssets + 1
           b == totalSupply + 1
           sum == SumOver(Redeemable, Users)
<1>1. \A u \in Users :
        /\ shares[u] \in Nat /\ Redeemable[u] \in Nat
        /\ Redeemable[u] * b <= shares[u] * a
  BY ConversionsRound DEF TypeOK, Redeemable
<1>2. totalAssets \in Nat /\ totalSupply \in Nat /\ a \in Nat /\ b \in Nat
  BY DEF TypeOK, totalAssets, ValueOf
<1>3. sum \in Nat
  BY <1>1, SumType, UsersAssumption
<1>4. sum * b <= totalSupply * a
  <2> HIDE DEF a, b
  <2>1. QED
    BY <1>1, <1>2, SumRatio, UsersAssumption DEF SupplyIsSum
<1>5. sum <= totalAssets
  <2> SUFFICES ASSUME sum >= a PROVE FALSE
    BY <1>2, <1>3
  <2>1. sum * b >= a * b
    <3> HIDE DEF a, b, sum
    <3>1. QED
      BY <1>2, <1>3
  <2>2. a * b = totalSupply * a + a /\ totalSupply * a \in Nat /\ a > 0
    BY <1>2
  <2>3. sum * b \in Nat /\ a * b \in Nat
    BY <1>2, <1>3
  <2> HIDE DEF a, b, sum
  <2>4. QED
    BY <1>2, <1>4, <2>1, <2>2, <2>3
<1>6. QED
  BY <1>5, RedeemableIsSum

\* The assets of the vault cover what all holders could redeem at the present
\* price, whatever the users, the TEE, the DAO and the strategies have done.
THEOREM ClaimsAreBacked == Spec => []RedeemableBacked
<1>1. PInv({}) => RedeemableBacked
  BY RedeemableBound DEF PInv
<1>2. QED
  BY <1>1, Invariance, PTL

\* Without an active strategy what all holders redeem together is idle.
ExitCovered ==
  activeStrategy = None => SumOver(Redeemable, Users) <= idle

\* When the assets are idle a redemption is refused for its balance only: each
\* of its other conjuncts says what a variable becomes.
LEMMA RedeemFromIdle ==
  ASSUME TypeOK, activeStrategy = None, NEW u \in Users, previewRedeem(shares[u]) <= idle
  PROVE  redeem(u, shares[u], 0, 0) <=>
           /\ idle' = idle - previewRedeem(shares[u])
           /\ outside' = outside + previewRedeem(shares[u])
           /\ shares' = [shares EXCEPT ![u] = 0]
           /\ totalSupply' = totalSupply - shares[u]
           /\ UNCHANGED <<strategyVars, rebalanceVars, configVars, now, teeVars>>
<1>1. shares[u] \in Nat /\ previewRedeem(shares[u]) \in Nat /\ idle \in Nat
  BY ConversionsRound DEF TypeOK
<1>2. [shares EXCEPT ![u] = @ - shares[u]] = [shares EXCEPT ![u] = 0]
  <2>1. shares[u] - shares[u] = 0
    BY <1>1
  <2>2. QED
    BY <2>1, Zenon
<1>3. idle + 0 - previewRedeem(shares[u]) = idle - previewRedeem(shares[u])
  BY <1>1
<1>4. /\ shares[u] <= shares[u] /\ idle >= previewRedeem(shares[u])
      /\ ~(idle < previewRedeem(shares[u]))
  BY <1>1
<1>5. redeem(u, shares[u], 0, 0) <=> _withdraw(u, previewRedeem(shares[u]), shares[u], 0, 0)
  BY <1>4, Zenon DEF redeem
<1> DEFINE assets == previewRedeem(shares[u])
<1>6. _withdraw(u, assets, shares[u], 0, 0) <=>
        /\ idle' = idle - assets
        /\ outside' = outside + assets
        /\ shares' = [shares EXCEPT ![u] = 0]
        /\ totalSupply' = totalSupply - shares[u]
        /\ UNCHANGED <<strategyVars, rebalanceVars, configVars, now, teeVars>>
  <2> HIDE DEF assets
  <2>1. QED
    BY <1>2, <1>3, <1>4, Zenon DEF _withdraw, assets, strategyVars
<1>7. QED
  BY <1>5, <1>6

\* The guards behind ExitWhenIdle: whenever the vault has no strategy, and
\* whether it is paused or not, the idle assets cover everybody.
THEOREM ExitIsCovered == Spec => []ExitCovered
<1>1. PInv({}) => ExitCovered
  <2> SUFFICES ASSUME PInv({}), activeStrategy = None
               PROVE  SumOver(Redeemable, Users) <= idle
    BY DEF ExitCovered
  <2>1. SumOver(Redeemable, Users) <= totalAssets
    BY RedeemableBound, RedeemableIsSum DEF PInv
  <2>2. totalAssets = idle
    BY DEF PInv, TypeOK, totalAssets, ValueOf
  <2>3. QED
    BY <2>1, <2>2
<1>2. QED
  BY <1>1, Invariance, PTL

\* The guards behind FallbackOpen: after the timeout, an exit that pays all that
\* a position is worth is refused for no other reason, each remaining conjunct
\* of the DAO's fallback saying what a variable becomes.
LEMMA FallbackFromPosition ==
  ASSUME TypeOK, now > teeLastActive + TeeTimeout,
         activeStrategy \notin pausedStrategies \cup failing \cup {None}, ValueOf(activeStrategy) # 0
  PROVE  forceWithdrawAll(0, ValueOf(activeStrategy), 0) <=>
           /\ idle' = idle + ValueOf(activeStrategy)
           /\ value' = [value EXCEPT ![activeStrategy] = 0]
           /\ activeStrategy' = None
           /\ UNCHANGED <<shareVars, pausedStrategies, failing, rebalanceNonce,
                          teeLastActive, configVars, now, teeVars>>
<1>1. activeStrategy \in Strategies /\ ValueOf(activeStrategy) = value[activeStrategy]
  BY DEF TypeOK, ValueOf
<1>2. value[activeStrategy] \in Nat
  BY <1>1 DEF TypeOK
<1>3. StrategyWithdrawsAll(activeStrategy, 0, value[activeStrategy], 0)
  BY <1>1, <1>2 DEF StrategyWithdrawsAll
<1>4. activeStrategy # None
  OBVIOUS
<1>5. QED
  BY <1>1, <1>3, <1>4, Zenon DEF forceWithdrawAll

(***************************************************************************)
(* The vault whose proxy may run ParentVaultRecovery.  PInv holds relative *)
(* to the strategies its owner rewrote away; a step of the vault itself    *)
(* can only return one of them to the count.                               *)
(***************************************************************************)
\* A step of the vault keeps its invariant, also when the strategy it enters
\* leaves the abandoned ones.
LEMMA VaultStep ==
  ASSUME PInv(abandoned), Next, abandoned' = abandoned \ {activeStrategy'}
  PROVE  PInv(abandoned)'
<1>1. PICK A : A = abandoned
  OBVIOUS
<1>2. PInv(A)
  BY <1>1
<1>3. PInv(A)'
  BY <1>2, NextInv
<1>4. abandoned' = A \ {activeStrategy'}
  BY <1>1
<1>5. StrandedWithin(abandoned)'
  BY <1>3, <1>4 DEF PInv, StrandedWithin
<1>6. QED
  BY <1>3, <1>5 DEF PInv

\* Rewriting the active strategy abandons the one it held.
LEMMA RewriteStep ==
  ASSUME PInv(abandoned), NEW s \in approvedStrategies \cup {None}, Rewrite(s)
  PROVE  PInv(abandoned)'
<1>1. /\ activeStrategy' = s
      /\ abandoned' = (abandoned \cup ({activeStrategy} \ {None})) \ {s}
      /\ UNCHANGED <<shareVars, idle, strategyVars, rebalanceNonce, teeLastActive,
                     configVars, now, teeVars>>
  BY DEF Rewrite
<1>2. TypeOK'
  BY <1>1 DEF PInv, TypeOK, shareVars, strategyVars, configVars, teeVars
<1>3. StrandedWithin(abandoned)'
  BY <1>1, NoneAssumption DEF PInv, StrandedWithin, strategyVars
<1>4. ActiveApproved' /\ NoncesCurrent' /\ SupplyIsSum'
  BY <1>1 DEF PInv, ActiveApproved, NoncesCurrent, SupplyIsSum, shareVars, configVars,
     teeVars
<1>5. QED
  BY <1>2, <1>3, <1>4 DEF PInv

\* The upgrades, and the steps that change nothing, keep the invariant.
LEMMA UpgradeStep ==
  ASSUME PInv(abandoned), UNCHANGED <<vars, abandoned>>
  PROVE  PInv(abandoned)'
BY DEF PInv, TypeOK, SupplyIsSum, StrandedWithin, ActiveApproved, NoncesCurrent, vars,
   shareVars, strategyVars, rebalanceVars, configVars, teeVars

\* The invariant of the vault survives the recovery implementation, relative to
\* what the owner abandoned.
THEOREM RecoveryInvariance == RecoverySpec => []PInv(abandoned)
<1>1. RecoveryInit => PInv(abandoned)
  BY InitInv DEF RecoveryInit
<1>2. PInv(abandoned) /\ [RecoveryNext]_recoveryVars => PInv(abandoned)'
  <2> SUFFICES ASSUME PInv(abandoned), [RecoveryNext]_recoveryVars
               PROVE  PInv(abandoned)'
    OBVIOUS
  <2>1. CASE Next /\ abandoned' = abandoned \ {activeStrategy'}
    BY <2>1, VaultStep
  <2>2. CASE \E implementation \in BOOLEAN \ {recovery} : UpgradeTo(implementation)
    BY <2>2, UpgradeStep DEF UpgradeTo
  <2>3. CASE resetActiveStrategy
    BY <2>3, RewriteStep DEF resetActiveStrategy
  <2>4. CASE \E s \in Strategies \cup {None} : setActiveStrategyDirect(s)
    BY <2>4, RewriteStep DEF setActiveStrategyDirect
  <2>5. CASE UNCHANGED recoveryVars
    BY <2>5, UpgradeStep DEF recoveryVars
  <2>6. QED
    BY <2>1, <2>2, <2>3, <2>4, <2>5 DEF RecoveryNext
<1>3. QED
  BY <1>1, <1>2, PTL DEF RecoverySpec

\* No rebalance, late payload, fallback or approval, before, between or after
\* the rewrites of resetActiveStrategy and setActiveStrategyDirect, leaves
\* capital anywhere but where the owner left it.
THEOREM StrandedByOwnerOnly == RecoverySpec => []StrandedOnlyByOwner
<1>1. PInv(abandoned) => StrandedOnlyByOwner
  BY DEF PInv, StrandedWithin, StrandedOnlyByOwner
<1>2. QED
  BY <1>1, RecoveryInvariance, PTL

\* Neither implementation gets the vault into a strategy that is not approved.
THEOREM RecoveryApprovedOnly == RecoverySpec => []ActiveApproved
<1>1. PInv(abandoned) => ActiveApproved
  BY DEF PInv
<1>2. QED
  BY <1>1, RecoveryInvariance, PTL

\* The claims stay covered under both implementations: an owner who abandons a
\* strategy lowers the price of a share, and with it what it redeems for.
THEOREM RecoveryClaimsAreBacked == RecoverySpec => []RedeemableBacked
<1>1. PInv(abandoned) => RedeemableBacked
  BY RedeemableBound DEF PInv
<1>2. QED
  BY <1>1, RecoveryInvariance, PTL

\* withdrawAll refuses an empty position, so neither a rebalance nor the
\* fallback leaves one.
LEMMA EmptyIsKept ==
  ASSUME PInv(abandoned), Next, activeStrategy # None, ValueOf(activeStrategy) = 0
  PROVE  activeStrategy' = activeStrategy
<1>1. value[activeStrategy] = 0
  BY DEF ValueOf
<1>2. ~ExecuteRebalance
  BY <1>1 DEF ExecuteRebalance, executeRebalance, LeaveStrategy, StrategyWithdrawsAll
<1>3. ~ForceWithdrawAll
  BY <1>1 DEF ForceWithdrawAll, forceWithdrawAll, StrategyWithdrawsAll
<1>4. QED
  BY <1>2, <1>3, OnlyExitsAndEntries

\* A vault in a strategy without a position leaves it only while its proxy runs
\* the recovery implementation.
THEOREM EmptyNeedsRecovery == RecoverySpec => OnlyRecoveryLeavesEmpty
<1>1. ASSUME PInv(abandoned), [RecoveryNext]_recoveryVars, activeStrategy # None,
             ValueOf(activeStrategy) = 0, activeStrategy' # activeStrategy
      PROVE  recovery
  <2>1. ~Next
    BY <1>1, EmptyIsKept
  <2>2. ~UNCHANGED recoveryVars /\ \A i : ~UpgradeTo(i)
    BY <1>1 DEF recoveryVars, UpgradeTo, vars, rebalanceVars
  <2>3. QED
    BY <1>1, <2>1, <2>2 DEF RecoveryNext, resetActiveStrategy, setActiveStrategyDirect
<1>2. PInv(abandoned) /\ [RecoveryNext]_recoveryVars =>
        [activeStrategy # None /\ ValueOf(activeStrategy) = 0
           /\ activeStrategy' # activeStrategy => recovery]_recoveryVars
  BY <1>1
<1>3. QED
  BY <1>2, RecoveryInvariance, PTL DEF RecoverySpec, OnlyRecoveryLeavesEmpty
==============================================================================
