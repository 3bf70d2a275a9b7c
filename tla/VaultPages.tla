------------------------------ MODULE VaultPages ------------------------------
(***************************************************************************)
(* The pages that talk to the vaults: the deploy step and the auto-deploy  *)
(* banner of the deposit page, its ERC-4626 flow for CDP, and the withdraw *)
(* page.  DepositPage has the steps before DEPLOY, here the step "FASSET". *)
(*                                                                         *)
(* Only the page on screen has state.  What outlives it is the query cache *)
(* of the app, localStorage, the user's transactions, and the promises of  *)
(* an async handler, which go on when their component is gone.             *)
(***************************************************************************)
EXTENDS WalletHooks

CONSTANTS
  Cdp,       \* CDP tokens of the user
  Assets,    \* FAssets the user's shares are worth
  MaxCalls   \* bound: transactions the user is asked for

ASSUME AmountAssumption == Cdp \in Nat /\ Assets \in Nat /\ MaxCalls \in Nat

Unread == Cdp + 1   \* no value in the query cache yet

VARIABLES
  at,            \* the page on screen
  flow, step,    \* deposit page
  cdpAmount,     \* what its input field holds once a transaction was asked for
  auto,          \* autoDeployStatus
  requests,      \* requestSignedRebalance calls that have not returned
  stored,        \* the deadline in localStorage["flux-auto-deploy"]
  withdrawStep,  \* withdraw page
  allowanceSeen, \* query cache: the allowance
  chain,         \* the tokens, the vaults and the nonce of the ParentVault
  calls,         \* bound: how many transactions were asked for
  executed       \* history: the calls that were executed on the chain

deployVars == <<auto, requests, stored>>
formVars == <<flow, step, cdpAmount>>
pageVars == <<at, formVars, deployVars, withdrawStep, allowanceSeen>>
chainVars == <<chain, calls, executed>>
vars == <<walletVars, pageVars, chainVars>>

NoCall == [amount |-> 0, call |-> 0]

Init ==
  /\ WalletInit(NoCall)
  /\ at = "dashboard" /\ flow = "FASSET" /\ step = "FASSET" /\ cdpAmount = 0
  /\ auto = "idle" /\ requests = {} /\ stored = "none"
  /\ withdrawStep = "INPUT" /\ allowanceSeen = Unread
  /\ chain = [cdp |-> Cdp, allowance |-> 0, cdpShares |-> 0, assets |-> Assets, nonce |-> 0]
  /\ calls = 0 /\ executed = {}

Ask(h, amount) ==
  /\ calls < MaxCalls
  /\ calls' = calls + 1
  /\ writeContract(h, [amount |-> amount, call |-> calls + 1])

Loading(h) == hook[h] \in {"mining", "executed", "reverted"}

(***************************************************************************)
(* Navigation: the routes of App.tsx.                                      *)
(***************************************************************************)
OpenDeposit ==
  /\ at = "dashboard" /\ at' = "deposit"
  /\ flow' = "FASSET" /\ step' = "FASSET"
  /\ auto' = CASE stored = "running" -> "counting"
               [] stored = "passed"  -> "deploying"
               [] stored = "none"    -> "idle"
  /\ UNCHANGED <<walletVars, cdpAmount, requests, stored, withdrawStep,
                 allowanceSeen, chainVars>>

OpenWithdraw ==
  /\ at = "dashboard" /\ at' = "withdraw"
  /\ withdrawStep' = "INPUT"
  /\ UNCHANGED <<walletVars, formVars, deployVars, allowanceSeen, chainVars>>

\* onBack.  A request of the page goes on without it.
Back ==
  /\ at # "dashboard" /\ at' = "dashboard"
  /\ Unmount(NoCall)
  /\ requests' = {[r EXCEPT !.mounted = FALSE] : r \in requests}
  /\ flow' = "FASSET" /\ step' = "FASSET" /\ auto' = "idle" /\ withdrawStep' = "INPUT"
  /\ cdpAmount' = 0
  /\ UNCHANGED <<stored, allowanceSeen, chainVars>>

On(s) == at = "deposit" /\ step = s
In(f, s) == On(s) /\ flow = f

(***************************************************************************)
(* The components of the pages: when their buttons can be clicked.         *)
(***************************************************************************)
StepDeployToStrategy ==
  /\ In("FASSET", "DEPLOY")
  /\ hook["rebalance"] # "prompt" /\ ~Loading("rebalance")
  /\ [by |-> "user", mounted |-> TRUE] \notin requests

AutoDeployBanner(status) == at = "deposit" /\ flow = "FASSET" /\ auto = status

\* The input can be edited in the first step only.  The balance on display is a
\* cached one, never below the real one.
StepCdpSelect(amount) ==
  \/ In("ERC4626", "ERC4626_SELECT")
  \/ In("ERC4626", "DEPOSIT") /\ amount = cdpAmount

\* Once the transaction failed, its handler can be retried, or left.
StepTxPending(s, h, amount) ==
  In("ERC4626", s) /\ hook[h] = "rejected" /\ amount = cdpAmount

StepCdpComplete == In("ERC4626", "COMPLETE_CDP")

WithdrawForm == at = "withdraw" /\ withdrawStep = "INPUT"
WithdrawConfirming == at = "withdraw" /\ withdrawStep = "CONFIRMING"
WithdrawSuccess == at = "withdraw" /\ withdrawStep = "SUCCESS"

switchToErc4626 ==
  /\ at = "deposit"
  /\ flow' = "ERC4626" /\ step' = "ERC4626_SELECT"
  /\ UNCHANGED <<walletVars, at, cdpAmount, deployVars, withdrawStep,
                 allowanceSeen, chainVars>>

switchToFasset ==
  /\ at = "deposit"
  /\ flow' = "FASSET" /\ step' = "FASSET"
  /\ UNCHANGED <<walletVars, at, cdpAmount, deployVars, withdrawStep,
                 allowanceSeen, chainVars>>

(***************************************************************************)
(* Deploying, by the user and by the countdown.                            *)
(***************************************************************************)

\* DepositPage: the receipt of the settlement is there.
Settled ==
  /\ at = "deposit" /\ step' = "DEPLOY"
  /\ UNCHANGED <<walletVars, at, flow, cdpAmount, deployVars, withdrawStep,
                 allowanceSeen, chainVars>>

Request(by) == [by |-> by, mounted |-> TRUE]

handleDeployToStrategy ==
  /\ StepDeployToStrategy
  /\ auto' = "idle" /\ stored' = "none"
  /\ requests' = requests \cup {Request("user")}
  /\ UNCHANGED <<walletVars, at, formVars, withdrawStep, allowanceSeen,
                 chainVars>>

handleSkipDeploy ==
  /\ In("FASSET", "DEPLOY")
  /\ step' = "COMPLETE" /\ auto' = "counting" /\ stored' = "running"
  /\ UNCHANGED <<walletVars, at, flow, cdpAmount, requests, withdrawStep,
                 allowanceSeen, chainVars>>

\* The effect that watches for the rebalance: any hash that is not loading will
\* do, one of an earlier deploy too.
Watched(status, kept, h) ==
  IF status = "deploying" /\ h \in {"success", "lost"}
  THEN auto' = "success" /\ stored' = "none"
  ELSE auto' = status /\ stored' = kept

CountdownEnds ==
  /\ auto = "counting"
  /\ requests' = requests \cup {Request("countdown")}
  /\ Watched("deploying", IF stored = "running" THEN "passed" ELSE stored,
             hook["rebalance"])
  /\ UNCHANGED <<walletVars, at, formVars, withdrawStep, allowanceSeen,
                 chainVars>>

\* The deadline in localStorage passes while no page counts it down.
DeadlinePasses ==
  /\ auto # "counting" /\ stored = "running"
  /\ stored' = "passed"
  /\ UNCHANGED <<walletVars, at, formVars, auto, requests, withdrawStep,
                 allowanceSeen, chainVars>>

\* The buttons of the banner, shown in the FAsset flow.
CancelAutoDeploy ==
  /\ AutoDeployBanner("counting")
  /\ auto' = "idle" /\ stored' = "none"
  /\ UNCHANGED <<walletVars, at, formVars, requests, withdrawStep,
                 allowanceSeen, chainVars>>

RetryAutoDeploy ==
  /\ AutoDeployBanner("failed")
  /\ requests' = requests \cup {Request("countdown")}
  /\ UNCHANGED <<walletVars, at, formVars, auto, stored, withdrawStep,
                 allowanceSeen, chainVars>>

\* The extension is not healthy, or the answer cannot be used.
RequestFails(r) ==
  /\ r \in requests
  /\ requests' = requests \ {r}
  /\ auto' = IF r = Request("countdown") THEN "failed" ELSE auto
  /\ stored' = IF r.by = "countdown" THEN "none" ELSE stored
  /\ UNCHANGED <<walletVars, at, formVars, withdrawStep, allowanceSeen,
                 chainVars>>

\* A signed payload, bound to the nonce of the vault at that time.  Without its
\* page the call reaches the wallet, and nobody watches it.
RequestAnswered(r) ==
  /\ r \in requests
  /\ requests' = requests \ {r}
  /\ stored' = IF r.by = "countdown" THEN "none" ELSE stored
  /\ IF r.mounted
     THEN Ask("rebalance", chain.nonce)
     ELSE /\ calls < MaxCalls /\ Len(txs) < MaxTxs
          /\ calls' = calls + 1
          /\ txs' = Append(txs, [hook |-> "rebalance", watched |-> FALSE,
                                 arg |-> [amount |-> chain.nonce, call |-> calls + 1]])
          /\ UNCHANGED <<hook, arg>>
  /\ UNCHANGED <<at, formVars, auto, withdrawStep, allowanceSeen, chain,
                 executed>>

(***************************************************************************)
(* CDP: the user may enter any amount up to the first balance.             *)
(***************************************************************************)
needsApproval(amount) == allowanceSeen = Unread \/ allowanceSeen < amount

handleApproveCdp(amount) ==
  /\ \/ StepCdpSelect(amount) /\ On("ERC4626_SELECT") /\ needsApproval(amount)
     \/ StepTxPending("APPROVING", "approve", amount)
  /\ Ask("approve", amount)
  /\ step' = "APPROVING" /\ cdpAmount' = amount
  /\ UNCHANGED <<at, flow, deployVars, withdrawStep, allowanceSeen, chain,
                 executed>>

handleDepositCdp(amount) ==
  /\ \/ StepCdpSelect(amount) /\ (On("DEPOSIT") \/ ~needsApproval(amount))
     \/ StepTxPending("DEPOSITING", "deposit", amount)
  /\ Ask("deposit", amount)
  /\ step' = "DEPOSITING" /\ cdpAmount' = amount
  /\ UNCHANGED <<at, flow, deployVars, withdrawStep, allowanceSeen, chain,
                 executed>>

\* "Go Back" of a transaction the user has rejected.
CdpBack ==
  /\ \/ StepTxPending("APPROVING", "approve", cdpAmount) /\ step' = "ERC4626_SELECT"
     \/ StepTxPending("DEPOSITING", "deposit", cdpAmount) /\ step' = "DEPOSIT"
  /\ UNCHANGED <<walletVars, at, flow, cdpAmount, deployVars, withdrawStep,
                 allowanceSeen, chainVars>>

handleNewDeposit ==
  /\ \/ StepCdpComplete /\ step' = "ERC4626_SELECT"
     \/ In("FASSET", "COMPLETE") /\ step' = "FASSET"
  /\ cdpAmount' = 0
  /\ UNCHANGED <<walletVars, at, flow, deployVars, withdrawStep, allowanceSeen,
                 chainVars>>

(***************************************************************************)
(* Withdrawing.  maxWithdraw is cached as well.                            *)
(***************************************************************************)
handleWithdraw(amount) ==
  /\ WithdrawForm
  /\ Ask("withdraw", amount)
  /\ withdrawStep' = "CONFIRMING"
  /\ UNCHANGED <<at, formVars, deployVars, allowanceSeen, chain, executed>>

\* Mutant of WithdrawTimesOut: only a transaction that was sent can time out.
SentWithdrawTimesOut ==
  /\ WithdrawConfirming /\ hook["withdraw"] # "prompt"
  /\ withdrawStep' = "INPUT"
  /\ UNCHANGED <<walletVars, at, formVars, deployVars, allowanceSeen,
                 chainVars>>

\* The 60 s safety net; the page has no button meanwhile.
WithdrawTimesOut ==
  /\ WithdrawConfirming
  /\ withdrawStep' = "INPUT"
  /\ UNCHANGED <<walletVars, at, formVars, deployVars, allowanceSeen,
                 chainVars>>

WithdrawReset ==
  /\ WithdrawSuccess
  /\ withdrawStep' = "INPUT"
  /\ UNCHANGED <<walletVars, at, formVars, deployVars, allowanceSeen,
                 chainVars>>

(***************************************************************************)
(* What the wallet and the receipts tell the pages.                        *)
(***************************************************************************)
WalletAnswers ==
  /\ \/ \E h \in Hooks : Confirm(h) /\ UNCHANGED withdrawStep
     \/ \E h \in Hooks :
          /\ Reject(h)
          /\ withdrawStep' = IF h = "withdraw" /\ withdrawStep = "CONFIRMING" THEN "INPUT"
                             ELSE withdrawStep
  /\ UNCHANGED <<at, formVars, deployVars, allowanceSeen, chainVars>>

\* Mutant of WithdrawStepAfter: a hash that is not loading has succeeded.
WithdrawStepAfterLoading(h, outcome) == IF h = "withdraw" THEN "SUCCESS" ELSE withdrawStep

\* isConfirmed moves the page from any step; a lost receipt moves nothing.
WithdrawStepAfter(h, outcome) ==
  IF h = "withdraw" /\ outcome = "success" THEN "SUCCESS" ELSE withdrawStep

\* The CDP flow goes on as soon as a hash is not loading.
StepAfter(h) ==
  CASE h = "approve" /\ step = "APPROVING"  -> "DEPOSIT"
    [] h = "deposit" /\ step = "DEPOSITING" -> "COMPLETE_CDP"
    [] OTHER                                -> step

Decided(h) ==
  /\ step' = StepAfter(h)
  /\ withdrawStep' = WithdrawStepAfter(h, hook'[h])
  /\ allowanceSeen' = IF h = "approve" /\ step = "APPROVING" THEN chain.allowance
                      ELSE allowanceSeen
  /\ IF h = "rebalance" THEN Watched(auto, stored, hook'[h])
     ELSE UNCHANGED <<auto, stored>>
  /\ UNCHANGED <<at, flow, cdpAmount, requests, chainVars>>

ReceiptArrives(h) == Receipt(h) /\ Decided(h)
ReceiptFails(h) == GiveUp(h) /\ Decided(h)

(***************************************************************************)
(* The chain.  Any transaction may revert: a vault is paused, or somebody  *)
(* was faster.                                                             *)
(***************************************************************************)
Executes(tx) ==
  LET x == tx.arg.amount IN
  CASE tx.hook = "approve"   -> chain' = [chain EXCEPT !.allowance = x]
    [] tx.hook = "deposit"   -> /\ x <= chain.allowance /\ x <= chain.cdp
                                /\ chain' = [chain EXCEPT !.allowance = @ - x, !.cdp = @ - x,
                                                          !.cdpShares = @ + x]
    [] tx.hook = "withdraw"  -> /\ x <= chain.assets
                                /\ chain' = [chain EXCEPT !.assets = @ - x]
    [] tx.hook = "rebalance" -> /\ x = chain.nonce
                                /\ chain' = [chain EXCEPT !.nonce = @ + 1]

Mine ==
  /\ txs # <<>>
  /\ \/ /\ Executes(Head(txs))
        /\ Mined("executed", Head(txs).arg)
        /\ executed' = executed \cup {Head(txs).arg.call}
     \/ /\ Mined("reverted", Head(txs).arg)
        /\ UNCHANGED <<chain, executed>>
  /\ UNCHANGED <<pageVars, calls>>

Next ==
  \/ OpenDeposit \/ OpenWithdraw \/ Back
  \/ switchToErc4626 \/ switchToFasset
  \/ Settled \/ handleDeployToStrategy \/ handleSkipDeploy
  \/ CountdownEnds \/ DeadlinePasses \/ CancelAutoDeploy \/ RetryAutoDeploy
  \/ \E r \in requests : RequestFails(r) \/ RequestAnswered(r)
  \/ \E amount \in 1 .. Cdp : handleApproveCdp(amount) \/ handleDepositCdp(amount)
  \/ CdpBack \/ handleNewDeposit
  \/ \E amount \in 1 .. Assets : handleWithdraw(amount)
  \/ WithdrawTimesOut \/ WithdrawReset
  \/ WalletAnswers
  \/ \E h \in Hooks : ReceiptArrives(h) \/ ReceiptFails(h)
  \/ Mine

\* The browser runs its timers.  Nothing makes the user answer the wallet.
Spec == Init /\ [][Next]_vars /\ WF_vars(WithdrawTimesOut)

(***************************************************************************)
(* Properties.                                                             *)
(***************************************************************************)

\* The withdraw page shows success only for the withdrawal it asked for last,
\* and only once it was paid, although it lets the user ask again after a
\* minute while the first transaction is still on its way.
WithdrawnMeansPaid ==
  withdrawStep = "SUCCESS" => arg["withdraw"].call \in executed

\* The withdraw page never hangs in CONFIRMING, not even when the user leaves
\* the wallet's question open.
ConfirmingEnds == withdrawStep = "CONFIRMING" ~> withdrawStep # "CONFIRMING"

\* Deposit.tsx:590: "After deposit confirms, move to complete", and :1960 says
\* "CDP Deposit Complete!".  Asked only of a transaction that has been mined.
CdpCompleteMeansDeposited ==
  step = "COMPLETE_CDP" =>
    \/ arg["deposit"].call \in executed
    \/ \E i \in DOMAIN txs : txs[i].arg = arg["deposit"]
==============================================================================
