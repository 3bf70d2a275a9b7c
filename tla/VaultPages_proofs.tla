-------------------------- MODULE VaultPages_proofs --------------------------
(***************************************************************************)
(* Proofs about the pages that talk to the vaults, for any number of       *)
(* calls, unmined transactions, CDP tokens and FAssets.  PagesInv is the   *)
(* inductive invariant: the success of a hook is that of the call it was   *)
(* last asked for, and the withdraw page shows no success of its own.      *)
(***************************************************************************)
EXTENDS VaultPages, SequenceTheorems, TLAPS

(***************************************************************************)
(* The invariant.                                                          *)
(***************************************************************************)
Statuses ==
  {"idle", "prompt", "mining", "executed", "reverted", "rejected", "success", "lost"}
Asked == {"rebalance", "approve", "deposit", "withdraw"}   \* what these pages send
Calls == [amount : Nat, call : Nat]
Txs == [hook : Asked, arg : Calls, watched : BOOLEAN]

\* A transaction that is watched is the last its hook has asked for.
WalletOK ==
  /\ hook \in [Hooks -> Statuses] /\ \A h \in Hooks \ Asked : hook[h] = "idle"
  /\ arg \in [Hooks -> Calls]
  /\ txs \in Seq(Txs)
  /\ \A i \in DOMAIN txs : txs[i].watched =>
       hook[txs[i].hook] = "mining" /\ arg[txs[i].hook] = txs[i].arg
  /\ \A i, j \in DOMAIN txs :
       txs[i].watched /\ txs[j].watched /\ txs[i].hook = txs[j].hook => i = j

ChainOK ==
  /\ chain \in [cdp : Nat, allowance : Nat, cdpShares : Nat, assets : Nat, nonce : Nat]
  /\ calls \in Nat /\ executed \subseteq Nat

\* A hook that knows of an execution has the argument of what was executed.
ReceiptsTrue ==
  \A h \in Hooks : hook[h] \in {"executed", "success"} => arg[h].call \in executed

\* Only a receipt of the withdrawal on display ends in SUCCESS.
SuccessKept == withdrawStep = "SUCCESS" => hook["withdraw"] = "success"

PagesInv ==
  /\ WalletOK
  /\ ChainOK
  /\ ReceiptsTrue
  /\ SuccessKept

(***************************************************************************)
(* The wallet.                                                             *)
(***************************************************************************)
LEMMA SentByPages == \A tx \in Txs : tx.hook \in Asked /\ tx.hook \in Hooks /\ tx.arg \in Calls
BY DEF Txs, Asked, Hooks

LEMMA TxsFacts ==
  ASSUME WalletOK
  PROVE  /\ DOMAIN txs = 1 .. Len(txs) /\ Len(txs) \in Nat /\ txs \in Seq(Txs)
         /\ \A i \in DOMAIN txs : txs[i] \in Txs /\ txs[i].hook \in Hooks
<1>1. /\ DOMAIN txs = 1 .. Len(txs) /\ Len(txs) \in Nat /\ txs \in Seq(Txs)
      /\ \A i \in DOMAIN txs : txs[i] \in Txs
  BY DEF WalletOK
<1>2. QED
  BY <1>1, SentByPages

\* What is watched after a step was watched before it, `k` places further down
\* when transactions were mined, and its hook has not moved.
LEMMA WatchedStay ==
  ASSUME WalletOK, NEW k \in Nat, txs' \in Seq(Txs), hook' \in [Hooks -> Statuses],
         arg' \in [Hooks -> Calls], \A h \in Hooks \ Asked : hook'[h] = "idle",
         \A i \in DOMAIN txs' : txs'[i].watched =>
           /\ i + k \in DOMAIN txs /\ txs'[i] = txs[i + k]
           /\ hook'[txs'[i].hook] = hook[txs'[i].hook]
           /\ arg'[txs'[i].hook] = arg[txs'[i].hook]
  PROVE  WalletOK'
<1>1. \A i \in DOMAIN txs' : txs'[i].watched =>
        hook'[txs'[i].hook] = "mining" /\ arg'[txs'[i].hook] = txs'[i].arg
  BY DEF WalletOK
<1>2. \A i, j \in DOMAIN txs' :
        txs'[i].watched /\ txs'[j].watched /\ txs'[i].hook = txs'[j].hook => i = j
  <2> SUFFICES ASSUME NEW i \in DOMAIN txs', NEW j \in DOMAIN txs',
                      txs'[i].watched, txs'[j].watched, txs'[i].hook = txs'[j].hook
               PROVE  i = j
    OBVIOUS
  <2>1. i + k = j + k
    BY DEF WalletOK
  <2>2. i \in Nat /\ j \in Nat
    OBVIOUS
  <2>3. QED
    BY <2>1, <2>2
<1>3. QED
  BY <1>1, <1>2 DEF WalletOK

\* Without its hooks a transaction stays where it is, unwatched.
LEMMA UnwatchedKeeps ==
  ASSUME WalletOK, NEW hs \in SUBSET Hooks
  PROVE  /\ Unwatched(hs) \in Seq(Txs) /\ Len(Unwatched(hs)) = Len(txs)
         /\ \A i \in 1 .. Len(txs) : Unwatched(hs)[i].watched =>
              Unwatched(hs)[i] = txs[i] /\ txs[i].hook \notin hs
<1> DEFINE u == Unwatched(hs)
<1>1. DOMAIN txs = 1 .. Len(txs) /\ Len(txs) \in Nat /\ \A i \in 1 .. Len(txs) : txs[i] \in Txs
  BY DEF WalletOK
<1>2. \A tx \in Txs :
        [tx EXCEPT !.watched = FALSE] \in Txs /\ ~[tx EXCEPT !.watched = FALSE].watched
  BY DEF Txs
<1>3. /\ u = [i \in 1 .. Len(txs) |-> u[i]]
      /\ \A i \in 1 .. Len(txs) :
           u[i] = IF txs[i].hook \in hs THEN [txs[i] EXCEPT !.watched = FALSE] ELSE txs[i]
  BY <1>1 DEF Unwatched
<1> HIDE DEF u
<1>4. \A i \in 1 .. Len(txs) :
        u[i] \in Txs /\ (u[i].watched => u[i] = txs[i] /\ txs[i].hook \notin hs)
  BY <1>1, <1>2, <1>3
<1>5. u \in [1 .. Len(txs) -> Txs]
  BY <1>3, <1>4
<1>6. u \in Seq(Txs) /\ Len(u) = Len(txs)
  BY <1>1, <1>5
<1>7. QED
  BY <1>4, <1>6 DEF u

\* Forgetting hooks keeps the transactions, and none of theirs is watched.
LEMMA ForgottenKeeps ==
  ASSUME WalletOK, NEW hs \in SUBSET Hooks, NEW ts \in Forgotten(hs)
  PROVE  /\ ts \in Seq(Txs)
         /\ \A i \in DOMAIN ts : ts[i].watched =>
              i + 0 \in DOMAIN txs /\ ts[i] = txs[i + 0] /\ ts[i].hook \in Hooks \ hs
<1> DEFINE u == Unwatched(hs)
<1>1. PICK confirmed \in StillConfirmed(hs) : ts = u \o confirmed
  BY DEF Forgotten
<1>2. /\ u \in Seq(Txs) /\ Len(u) = Len(txs) /\ Len(txs) \in Nat /\ DOMAIN txs = 1 .. Len(txs)
      /\ \A i \in 1 .. Len(txs) : u[i].watched => u[i] = txs[i] /\ txs[i].hook \notin hs
  BY UnwatchedKeeps DEF WalletOK
<1> HIDE DEF u
<1>3. CASE confirmed = <<>>
  <2>1. ts = u
    BY <1>1, <1>2, <1>3
  <2>2. \A i \in 1 .. Len(txs) : u[i] \in Txs
    BY <1>2
  <2>3. QED
    BY <1>2, <2>1, <2>2, SentByPages
<1>4. CASE \E h \in hs : /\ hook[h] = "prompt"
                       /\ confirmed = <<[hook |-> h, arg |-> arg[h], watched |-> FALSE]>>
  <2>1. PICK h \in hs : /\ hook[h] = "prompt"
                       /\ confirmed = <<[hook |-> h, arg |-> arg[h], watched |-> FALSE]>>
    BY <1>4
  <2> DEFINE r == [hook |-> h, arg |-> arg[h], watched |-> FALSE]
  <2>2. h \in Asked /\ arg[h] \in Calls
    BY <2>1 DEF WalletOK
  <2>3. r \in Txs /\ ~r.watched
    BY <2>2 DEF Txs
  <2> HIDE DEF r
  <2>4. ts = u \o <<r>>
    BY <1>1, <2>1 DEF r
  <2>5. /\ ts \in Seq(Txs) /\ DOMAIN ts = 1 .. Len(txs) + 1
        /\ \A i \in 1 .. Len(txs) : ts[i] = u[i]
        /\ ts[Len(txs) + 1] = r
    BY <1>2, <2>3, <2>4
  <2>6. \A i \in DOMAIN ts : ts[i].hook \in Hooks
    BY <2>5, SentByPages
  <2>7. QED
    BY <1>2, <2>3, <2>5, <2>6
<1>5. QED
  BY <1>3, <1>4 DEF StillConfirmed

\* A call is asked for under a number that was not used before; its hook knows
\* nothing of it yet.
LEMMA AskKeeps ==
  ASSUME PagesInv, NEW h \in Asked, NEW amount \in Nat, Ask(h, amount),
         UNCHANGED <<chain, executed>>,
         withdrawStep' = "SUCCESS" => withdrawStep = "SUCCESS" /\ h # "withdraw"
  PROVE  PagesInv'
<1> DEFINE x == [amount |-> amount, call |-> calls + 1]
<1>1. /\ calls' = calls + 1
      /\ hook' = [hook EXCEPT ![h] = "prompt"] /\ arg' = [arg EXCEPT ![h] = x]
      /\ txs' \in Forgotten({h})
  BY DEF Ask, writeContract
<1>2. h \in Hooks /\ x \in Calls
  BY DEF Asked, Hooks, Calls, PagesInv, ChainOK
<1> HIDE DEF x
<1>3. /\ txs' \in Seq(Txs)
      /\ \A i \in DOMAIN txs' : txs'[i].watched =>
           i + 0 \in DOMAIN txs /\ txs'[i] = txs[i + 0] /\ txs'[i].hook \in Hooks \ {h}
  BY <1>1, <1>2, ForgottenKeeps DEF PagesInv
<1>4. WalletOK'
  <2>1. /\ hook' \in [Hooks -> Statuses] /\ arg' \in [Hooks -> Calls]
        /\ \A g \in Hooks \ Asked : hook'[g] = "idle"
        /\ \A g \in Hooks \ {h} : hook'[g] = hook[g] /\ arg'[g] = arg[g]
    BY <1>1, <1>2 DEF PagesInv, WalletOK, Statuses
  <2>2. QED
    BY <1>3, <2>1, WatchedStay DEF PagesInv
<1>5. ChainOK'
  BY <1>1 DEF PagesInv, ChainOK
<1>6. ReceiptsTrue'
  BY <1>1, <1>2 DEF PagesInv, WalletOK, ReceiptsTrue
<1>7. SuccessKept'
  BY <1>1, <1>2 DEF PagesInv, WalletOK, SuccessKept, Hooks
<1>8. QED
  BY <1>4, <1>5, <1>6, <1>7 DEF PagesInv

(***************************************************************************)
(* The pages.                                                              *)
(***************************************************************************)
\* Steps of the pages that ask for nothing.
LEMMA QuietKeeps ==
  ASSUME PagesInv, UNCHANGED <<walletVars, chainVars>>,
         withdrawStep' = "SUCCESS" => withdrawStep = "SUCCESS"
  PROVE  PagesInv'
BY DEF PagesInv, WalletOK, ChainOK, ReceiptsTrue, SuccessKept, walletVars, chainVars

LEMMA BackKeeps == ASSUME PagesInv, Back PROVE PagesInv'
<1>1. /\ hook' = [h \in Hooks |-> "idle"] /\ arg' = [h \in Hooks |-> NoCall]
      /\ txs' \in Forgotten(Hooks) /\ withdrawStep' = "INPUT" /\ UNCHANGED chainVars
  BY DEF Back, Unmount
<1>2. txs' \in Seq(Txs) /\ \A i \in DOMAIN txs' : ~txs'[i].watched
  BY <1>1, ForgottenKeeps DEF PagesInv
<1>3. WalletOK'
  BY <1>1, <1>2 DEF WalletOK, Statuses, Calls, NoCall
<1>4. ChainOK' /\ ReceiptsTrue' /\ SuccessKept'
  BY <1>1 DEF PagesInv, ChainOK, ReceiptsTrue, SuccessKept, chainVars
<1>5. QED
  BY <1>3, <1>4 DEF PagesInv

\* An answer of the TEE whose page is gone reaches the wallet all the same.
LEMMA AnsweredKeeps ==
  ASSUME PagesInv, NEW r \in requests, RequestAnswered(r) PROVE PagesInv'
<1>1. UNCHANGED <<chain, executed, withdrawStep>>
  BY DEF RequestAnswered
<1>2. chain.nonce \in Nat /\ "rebalance" \in Asked
  BY DEF PagesInv, ChainOK, Asked
<1>3. CASE Ask("rebalance", chain.nonce)
  BY <1>1, <1>2, <1>3, AskKeeps
<1>4. CASE /\ calls' = calls + 1
           /\ txs' = Append(txs, [hook |-> "rebalance", watched |-> FALSE,
                                  arg |-> [amount |-> chain.nonce, call |-> calls + 1]])
           /\ UNCHANGED <<hook, arg>>
  <2>1. [hook |-> "rebalance", watched |-> FALSE,
         arg |-> [amount |-> chain.nonce, call |-> calls + 1]] \in Txs
    BY <1>2 DEF PagesInv, ChainOK, Txs, Calls
  <2>2. WalletOK'
    <3> DEFINE r0 == [hook |-> "rebalance", watched |-> FALSE,
                      arg |-> [amount |-> chain.nonce, call |-> calls + 1]]
    <3>1. r0 \in Txs /\ ~r0.watched
      BY <2>1
    <3> HIDE DEF r0
    <3>2. txs' = Append(txs, r0) /\ txs \in Seq(Txs)
      BY <1>4 DEF r0, PagesInv, WalletOK
    <3>3. /\ txs' \in Seq(Txs)
          /\ \A i \in DOMAIN txs' : txs'[i].watched => i + 0 \in DOMAIN txs /\ txs'[i] = txs[i + 0]
      BY <3>1, <3>2
    <3>4. QED
      BY <1>4, <3>3, WatchedStay DEF PagesInv, WalletOK
  <2>3. ChainOK' /\ ReceiptsTrue' /\ SuccessKept'
    BY <1>1, <1>4 DEF PagesInv, ChainOK, ReceiptsTrue, SuccessKept
  <2>4. QED
    BY <2>2, <2>3 DEF PagesInv
<1>5. QED
  BY <1>3, <1>4 DEF RequestAnswered

(***************************************************************************)
(* What the wallet and the receipts tell the pages.                        *)
(***************************************************************************)
LEMMA AnswerKeeps == ASSUME PagesInv, WalletAnswers PROVE PagesInv'
<1>1. PICK h \in Hooks, s \in {"mining", "rejected"} :
        /\ hook[h] = "prompt" /\ hook' = [hook EXCEPT ![h] = s]
        /\ \/ s = "rejected" /\ UNCHANGED txs
           \/ /\ s = "mining"
              /\ txs' = Append(txs, [hook |-> h, arg |-> arg[h], watched |-> TRUE])
  BY DEF WalletAnswers, Confirm, Reject
<1>2. /\ UNCHANGED <<arg, chainVars>>
      /\ withdrawStep' = "SUCCESS" => withdrawStep = "SUCCESS"
  BY DEF WalletAnswers, Confirm, Reject
<1>3. h \in Asked /\ arg[h] \in Calls /\ txs \in Seq(Txs)
  BY <1>1 DEF PagesInv, WalletOK
<1>4. /\ hook'[h] = s /\ \A g \in Hooks \ {h} : hook'[g] = hook[g]
      /\ hook' \in [Hooks -> Statuses] /\ \A g \in Hooks \ Asked : hook'[g] = "idle"
  BY <1>1, <1>3 DEF PagesInv, WalletOK, Statuses
<1>5. \A i \in DOMAIN txs :
        /\ txs[i].hook \in Hooks /\ (txs[i].watched => txs[i].hook # h)
  BY <1>1, TxsFacts DEF PagesInv, WalletOK
<1>6. ASSUME s = "rejected", UNCHANGED txs PROVE WalletOK'
  <2>1. \A i \in DOMAIN txs' : txs'[i].watched =>
          i + 0 \in DOMAIN txs /\ txs'[i] = txs[i + 0] /\ txs'[i].hook \in Hooks \ {h}
    BY <1>3, <1>5, <1>6, TxsFacts DEF PagesInv
  <2>2. QED
    <3>1. arg' \in [Hooks -> Calls] /\ UNCHANGED arg
      BY <1>2 DEF PagesInv, WalletOK
    <3>2. QED
      BY <1>3, <1>4, <1>6, <2>1, <3>1, WatchedStay DEF PagesInv
<1>7. ASSUME s = "mining",
             txs' = Append(txs, [hook |-> h, arg |-> arg[h], watched |-> TRUE])
      PROVE  WalletOK'
  <2> DEFINE r == [hook |-> h, arg |-> arg[h], watched |-> TRUE]
  <2>1. r \in Txs /\ r.hook = h /\ r.arg = arg[h]
    BY <1>3 DEF Txs
  <2>2. txs' = Append(txs, r)
    BY <1>7
  <2> HIDE DEF r
  <2>3. /\ txs' \in Seq(Txs) /\ txs'[Len(txs) + 1] = r /\ Len(txs) \in Nat
        /\ \A i \in DOMAIN txs' : i = Len(txs) + 1 \/ (i \in DOMAIN txs /\ txs'[i] = txs[i])
    BY <1>3, <2>1, <2>2
  <2>4. \A i \in DOMAIN txs' : txs'[i].watched =>
          hook'[txs'[i].hook] = "mining" /\ arg'[txs'[i].hook] = txs'[i].arg
    <3>1. \A i \in DOMAIN txs : txs[i].watched =>
            hook[txs[i].hook] = "mining" /\ arg[txs[i].hook] = txs[i].arg
      BY DEF PagesInv, WalletOK
    <3>2. QED
      BY <1>2, <1>4, <1>5, <1>7, <2>1, <2>3, <3>1
  <2>5. \A i, j \in DOMAIN txs' :
          txs'[i].watched /\ txs'[j].watched /\ txs'[i].hook = txs'[j].hook => i = j
    <3>1. \A i, j \in DOMAIN txs :
            txs[i].watched /\ txs[j].watched /\ txs[i].hook = txs[j].hook => i = j
      BY DEF PagesInv, WalletOK
    <3>2. QED
      BY <1>5, <2>1, <2>3, <3>1
  <2>6. arg' \in [Hooks -> Calls]
    BY <1>2 DEF PagesInv, WalletOK
  <2>7. QED
    BY <1>4, <2>3, <2>4, <2>5, <2>6 DEF WalletOK
<1>8. WalletOK'
  BY <1>1, <1>6, <1>7
<1>9. ChainOK' /\ ReceiptsTrue'
  BY <1>1, <1>2, <1>4 DEF PagesInv, ChainOK, ReceiptsTrue, chainVars
<1>10. SuccessKept'
  BY <1>1, <1>2, <1>4 DEF PagesInv, SuccessKept, Hooks
<1>11. QED
  BY <1>8, <1>9, <1>10 DEF PagesInv

\* Only the receipt of an executed withdrawal moves the withdraw page.
LEMMA ReceiptKeeps ==
  ASSUME PagesInv, NEW h \in Hooks, ReceiptArrives(h) PROVE PagesInv'
<1>1. /\ hook[h] \in {"executed", "reverted"}
      /\ hook' = [hook EXCEPT ![h] = IF @ = "executed" THEN "success" ELSE "lost"]
      /\ UNCHANGED <<arg, txs, chainVars>>
      /\ withdrawStep' = WithdrawStepAfter(h, hook'[h])
  BY DEF ReceiptArrives, Receipt, Decided
<1>2. /\ hook'[h] = IF hook[h] = "executed" THEN "success" ELSE "lost"
      /\ \A g \in Hooks \ {h} : hook'[g] = hook[g]
  BY <1>1 DEF PagesInv, WalletOK
<1>3. WalletOK'
  <2>1. h \in Asked
    BY <1>1 DEF PagesInv, WalletOK
  <2>2. /\ hook' \in [Hooks -> Statuses] /\ \A g \in Hooks \ Asked : hook'[g] = "idle"
        /\ arg' \in [Hooks -> Calls] /\ txs' \in Seq(Txs)
    BY <1>1, <2>1 DEF PagesInv, WalletOK, Statuses
  <2>3. \A i \in DOMAIN txs' : txs'[i].watched =>
          i + 0 \in DOMAIN txs /\ txs'[i] = txs[i + 0] /\ txs'[i].hook \in Hooks \ {h}
    <3>1. \A i \in DOMAIN txs : txs[i].watched => txs[i].hook # h
      BY <1>1 DEF PagesInv, WalletOK
    <3>2. QED
      BY <1>1, <3>1, TxsFacts DEF PagesInv
  <2>4. QED
    BY <1>1, <1>2, <2>2, <2>3, WatchedStay DEF PagesInv
<1>4. ChainOK' /\ ReceiptsTrue'
  BY <1>1, <1>2 DEF PagesInv, ChainOK, ReceiptsTrue, chainVars
<1>5. SuccessKept'
  BY <1>1, <1>2 DEF PagesInv, SuccessKept, WithdrawStepAfter, Hooks
<1>6. QED
  BY <1>3, <1>4, <1>5 DEF PagesInv

LEMMA LostKeeps ==
  ASSUME PagesInv, NEW h \in Hooks, ReceiptFails(h) PROVE PagesInv'
<1>1. /\ hook[h] \in {"mining", "executed", "reverted"}
      /\ hook' = [hook EXCEPT ![h] = "lost"] /\ txs' = Unwatched({h})
      /\ UNCHANGED <<arg, chainVars>>
      /\ withdrawStep' = WithdrawStepAfter(h, hook'[h])
  BY DEF ReceiptFails, GiveUp, Decided
<1>2. hook'[h] = "lost" /\ \A g \in Hooks \ {h} : hook'[g] = hook[g]
  BY <1>1 DEF PagesInv, WalletOK
<1>3. /\ txs' \in Seq(Txs)
      /\ \A i \in DOMAIN txs' : txs'[i].watched =>
           i + 0 \in DOMAIN txs /\ txs'[i] = txs[i + 0] /\ txs'[i].hook \in Hooks \ {h}
  <2>1. DOMAIN txs = 1 .. Len(txs) /\ Len(txs) \in Nat
    BY DEF PagesInv, WalletOK
  <2>2. /\ txs' \in Seq(Txs) /\ DOMAIN txs' = 1 .. Len(txs)
        /\ \A i \in 1 .. Len(txs) : txs'[i].watched => txs'[i] = txs[i] /\ txs[i].hook # h
    BY <1>1, <2>1, UnwatchedKeeps DEF PagesInv
  <2>3. \A i \in 1 .. Len(txs) : txs'[i].hook \in Hooks
    BY <2>2, SentByPages
  <2>4. QED
    BY <2>1, <2>2, <2>3
<1>4. WalletOK'
  <2>1. h \in Asked
    BY <1>1 DEF PagesInv, WalletOK
  <2>2. /\ hook' \in [Hooks -> Statuses] /\ \A g \in Hooks \ Asked : hook'[g] = "idle"
        /\ arg' \in [Hooks -> Calls]
    BY <1>1, <2>1 DEF PagesInv, WalletOK, Statuses
  <2>3. QED
    BY <1>1, <1>2, <1>3, <2>2, WatchedStay DEF PagesInv
<1>5. ChainOK' /\ ReceiptsTrue'
  BY <1>1, <1>2 DEF PagesInv, ChainOK, ReceiptsTrue, chainVars
<1>6. SuccessKept'
  BY <1>1, <1>2 DEF PagesInv, SuccessKept, WithdrawStepAfter, Hooks
<1>7. QED
  BY <1>4, <1>5, <1>6 DEF PagesInv

(***************************************************************************)
(* The chain.                                                              *)
(***************************************************************************)
\* What is executed keeps the balances: none of them goes below zero.
LEMMA ExecutesType ==
  ASSUME ChainOK, NEW tx \in Txs, Executes(tx)
  PROVE  chain' \in [cdp : Nat, allowance : Nat, cdpShares : Nat, assets : Nat, nonce : Nat]
<1> DEFINE x == tx.arg.amount
<1>1. tx.hook \in Asked /\ x \in Nat
  BY DEF Txs, Calls
<1>2. CASE tx.hook = "approve"
  BY <1>1, <1>2 DEF Executes, ChainOK
<1>3. CASE tx.hook = "deposit"
  <2>1. /\ x <= chain.allowance /\ x <= chain.cdp
        /\ chain' = [chain EXCEPT !.allowance = @ - x, !.cdp = @ - x, !.cdpShares = @ + x]
    BY <1>3 DEF Executes
  <2> HIDE DEF x
  <2>2. /\ chain.allowance - x \in Nat /\ chain.cdp - x \in Nat /\ chain.cdpShares + x \in Nat
        /\ chain \in [cdp : Nat, allowance : Nat, cdpShares : Nat, assets : Nat, nonce : Nat]
    BY <1>1, <2>1 DEF ChainOK
  <2>3. chain' = [chain EXCEPT !.allowance = chain.allowance - x, !.cdp = chain.cdp - x,
                               !.cdpShares = chain.cdpShares + x]
    BY <2>1
  <2>4. QED
    BY <2>2, <2>3
<1>4. CASE tx.hook = "withdraw"
  BY <1>1, <1>4 DEF Executes, ChainOK
<1>5. CASE tx.hook = "rebalance"
  BY <1>1, <1>5 DEF Executes, ChainOK
<1>6. QED
  BY <1>1, <1>2, <1>3, <1>4, <1>5 DEF Asked

LEMMA MineKeeps == ASSUME PagesInv, Mine PROVE PagesInv'
<1> DEFINE tx == Head(txs)
<1>1. /\ txs \in Seq(Txs) /\ Len(txs) \in Nat \ {0} /\ DOMAIN txs = 1 .. Len(txs)
      /\ tx = txs[1] /\ tx \in Txs /\ UNCHANGED <<withdrawStep, calls>>
  BY DEF Mine, PagesInv, WalletOK, pageVars
<1>2. PICK s \in {"executed", "reverted"} :
        /\ Mined(s, tx.arg)
        /\ s = "executed" => Executes(tx) /\ executed' = executed \cup {tx.arg.call}
        /\ s = "reverted" => UNCHANGED <<chain, executed>>
  BY DEF Mine
<1>3. /\ txs' = Tail(txs)
      /\ ~tx.watched => UNCHANGED <<hook, arg>>
      /\ tx.watched => /\ hook' = [hook EXCEPT ![tx.hook] = s]
                       /\ arg' = [arg EXCEPT ![tx.hook] = tx.arg]
  BY <1>2 DEF Mined
<1>4. tx.hook \in Hooks /\ tx.hook \in Asked /\ tx.arg \in Calls
  BY <1>1 DEF Txs, Asked, Hooks
<1>5. tx.watched => hook[tx.hook] = "mining"
  BY <1>1 DEF PagesInv, WalletOK
<1> HIDE DEF tx
<1>6. \A g \in Hooks : (g # tx.hook \/ ~tx.watched) => hook'[g] = hook[g] /\ arg'[g] = arg[g]
  BY <1>3, <1>4 DEF PagesInv, WalletOK
<1>7. WalletOK'
  <2>1. /\ hook' \in [Hooks -> Statuses] /\ \A g \in Hooks \ Asked : hook'[g] = "idle"
        /\ arg' \in [Hooks -> Calls]
    BY <1>3, <1>4 DEF PagesInv, WalletOK, Statuses
  <2>2. /\ txs' \in Seq(Txs)
        /\ \A i \in DOMAIN txs' : i + 1 \in DOMAIN txs /\ i + 1 # 1 /\ txs'[i] = txs[i + 1]
    BY <1>1, <1>3
  <2>3. \A i \in DOMAIN txs : i # 1 /\ txs[i].watched =>
          txs[i].hook \in Hooks /\ (txs[i].hook # tx.hook \/ ~tx.watched)
    <3>1. 1 \in DOMAIN txs /\ \A i \in DOMAIN txs : txs[i].hook \in Hooks
      BY <1>1, TxsFacts DEF PagesInv
    <3>2. \A i \in DOMAIN txs : txs[i].watched /\ txs[1].watched /\ txs[i].hook = txs[1].hook => i = 1
      BY <3>1 DEF PagesInv, WalletOK
    <3>3. QED
      BY <1>1, <3>1, <3>2
  <2>4. \A i \in DOMAIN txs' : txs'[i].watched =>
          /\ i + 1 \in DOMAIN txs /\ txs'[i] = txs[i + 1]
          /\ hook'[txs'[i].hook] = hook[txs'[i].hook]
          /\ arg'[txs'[i].hook] = arg[txs'[i].hook]
    BY <1>6, <2>2, <2>3
  <2>5. QED
    BY <2>1, <2>2, <2>4, WatchedStay DEF PagesInv
<1>8. ChainOK'
  <2>1. tx.arg.call \in Nat
    BY <1>4 DEF Calls
  <2>2. CASE s = "executed"
    BY <1>1, <1>2, <2>1, <2>2, ExecutesType DEF PagesInv, ChainOK
  <2>3. CASE s = "reverted"
    BY <1>1, <1>2, <2>3 DEF PagesInv, ChainOK
  <2>4. QED
    BY <2>2, <2>3
<1>9. ReceiptsTrue'
  <2>1. executed \subseteq executed' /\ (s = "executed" => tx.arg.call \in executed')
    BY <1>2
  <2>2. tx.watched => hook'[tx.hook] = s /\ arg'[tx.hook] = tx.arg
    BY <1>3, <1>4 DEF PagesInv, WalletOK
  <2>3. QED
    BY <1>2, <1>4, <1>6, <2>1, <2>2 DEF PagesInv, ReceiptsTrue
<1>10. SuccessKept'
  BY <1>1, <1>5, <1>6 DEF PagesInv, SuccessKept, Hooks
<1>11. QED
  BY <1>7, <1>8, <1>9, <1>10 DEF PagesInv

(***************************************************************************)
(* The invariant and what follows.                                         *)
(***************************************************************************)
LEMMA InitPages == Init => PagesInv
<1> SUFFICES ASSUME Init PROVE PagesInv
  OBVIOUS
<1>1. WalletOK
  BY DEF Init, WalletInit, WalletOK, Statuses, Calls, NoCall
<1>2. ChainOK
  BY AmountAssumption DEF Init, ChainOK
<1>3. ReceiptsTrue /\ SuccessKept
  BY DEF Init, WalletInit, ReceiptsTrue, SuccessKept
<1>4. QED
  BY <1>1, <1>2, <1>3 DEF PagesInv

LEMMA PagesStep == PagesInv /\ [Next]_vars => PagesInv'
<1> SUFFICES ASSUME PagesInv, [Next]_vars PROVE PagesInv'
  OBVIOUS
<1>1. CASE Back
  BY <1>1, BackKeeps
<1>2. CASE \E r \in requests : RequestAnswered(r)
  BY <1>2, AnsweredKeeps
<1>3. CASE \E amount \in 1 .. Cdp : handleApproveCdp(amount) \/ handleDepositCdp(amount)
  <2>1. PICK amount \in 1 .. Cdp, h \in {"approve", "deposit"} :
          Ask(h, amount) /\ UNCHANGED <<chain, executed, withdrawStep>>
    BY <1>3 DEF handleApproveCdp, handleDepositCdp
  <2>2. amount \in Nat /\ h \in Asked
    BY AmountAssumption DEF Asked
  <2>3. QED
    BY <2>1, <2>2, AskKeeps
<1>4. CASE \E amount \in 1 .. Assets : handleWithdraw(amount)
  <2>1. PICK amount \in 1 .. Assets :
          /\ Ask("withdraw", amount) /\ UNCHANGED <<chain, executed>>
          /\ withdrawStep' = "CONFIRMING"
    BY <1>4 DEF handleWithdraw
  <2>2. amount \in Nat /\ "withdraw" \in Asked
    BY AmountAssumption DEF Asked
  <2>3. QED
    BY <2>1, <2>2, AskKeeps
<1>5. CASE WalletAnswers
  BY <1>5, AnswerKeeps
<1>6. CASE \E h \in Hooks : ReceiptArrives(h) \/ ReceiptFails(h)
  BY <1>6, ReceiptKeeps, LostKeeps
<1>7. CASE Mine
  BY <1>7, MineKeeps
<1>8. CASE /\ UNCHANGED <<walletVars, chainVars>>
           /\ withdrawStep' = "SUCCESS" => withdrawStep = "SUCCESS"
  BY <1>8, QuietKeeps
<1>9. QED
  BY <1>1, <1>2, <1>3, <1>4, <1>5, <1>6, <1>7, <1>8
  DEF Next, OpenDeposit, OpenWithdraw, switchToErc4626, switchToFasset, Settled,
      handleDeployToStrategy, handleSkipDeploy, CountdownEnds, DeadlinePasses,
      CancelAutoDeploy, RetryAutoDeploy, RequestFails, CdpBack, handleNewDeposit,
      WithdrawTimesOut, WithdrawReset, vars, pageVars

LEMMA PagesInvariance == Spec => []PagesInv
<1>1. QED
  BY InitPages, PagesStep, PTL DEF Spec

\* The withdraw page reports no withdrawal that was not paid, whichever calls
\* were asked for while an earlier one was on its way.
THEOREM WithdrawalIsPaid == Spec => []WithdrawnMeansPaid
<1>1. PagesInv => WithdrawnMeansPaid
  BY DEF PagesInv, SuccessKept, ReceiptsTrue, WithdrawnMeansPaid, Hooks
<1>2. QED
  BY <1>1, PagesInvariance, PTL
==============================================================================
