----------------------------- MODULE WalletHooks ------------------------------
(***************************************************************************)
(* What the pages use of wagmi: a useWriteContract with the                *)
(* useWaitForTransactionReceipt on its hash, one pair per kind of          *)
(* transaction, and the user's transactions on their way to the chain.     *)
(*                                                                         *)
(*   idle      nothing asked since the page was mounted                    *)
(*   prompt    the wallet asks the user (isPending)                        *)
(*   mining    hash known, no receipt yet (isLoading)                      *)
(*   executed, reverted   on the chain, the page does not know yet         *)
(*   rejected  an error instead of a hash                                  *)
(*   success   the receipt is there (isSuccess, data)                      *)
(*   lost      hash known, and an error instead of a receipt: the          *)
(*             transaction was reverted or the node gave up                *)
(***************************************************************************)
EXTENDS Naturals, Sequences

CONSTANT MaxTxs   \* bound: unmined transactions of the user

Hooks == {"register", "settle", "rebalance", "approve", "deposit", "withdraw"}

VARIABLES
  hook,   \* state of each pair
  arg,    \* argument of its last call; for "register", the tag of the receipt
  txs     \* unmined transactions, in the order of their nonces

walletVars == <<hook, arg, txs>>

WalletInit(none) ==
  /\ hook = [h \in Hooks |-> "idle"]
  /\ arg = [h \in Hooks |-> none]
  /\ txs = <<>>

Unwatched(hs) ==
  [i \in DOMAIN txs |-> IF txs[i].hook \in hs THEN [txs[i] EXCEPT !.watched = FALSE]
                        ELSE txs[i]]

\* A prompt the page no longer waits for stays in the wallet, where the user may
\* still confirm it.
StillConfirmed(hs) ==
  {<<>>} \cup {<<[hook |-> h, arg |-> arg[h], watched |-> FALSE]>> :
                h \in {g \in hs : hook[g] = "prompt"}}

Forgotten(hs) ==
  {ts \in {Unwatched(hs) \o confirmed : confirmed \in StillConfirmed(hs)} :
     Len(ts) <= MaxTxs}

\* writeContract: forgets hash and error of the call before.
writeContract(h, x) ==
  /\ hook' = [hook EXCEPT ![h] = "prompt"]
  /\ arg' = [arg EXCEPT ![h] = x]
  /\ txs' \in Forgotten({h})

\* A page leaves the screen: its hooks are gone, its transactions are not.
Unmount(none) ==
  /\ hook' = [h \in Hooks |-> "idle"]
  /\ arg' = [h \in Hooks |-> none]
  /\ txs' \in Forgotten(Hooks)

Confirm(h) ==
  /\ hook[h] = "prompt" /\ Len(txs) < MaxTxs
  /\ hook' = [hook EXCEPT ![h] = "mining"]
  /\ txs' = Append(txs, [hook |-> h, arg |-> arg[h], watched |-> TRUE])
  /\ UNCHANGED arg

Reject(h) ==
  /\ hook[h] = "prompt"
  /\ hook' = [hook EXCEPT ![h] = "rejected"]
  /\ UNCHANGED <<arg, txs>>

\* The first transaction is mined; `x` is what its receipt tells.
Mined(outcome, x) ==
  LET tx == Head(txs) IN
  /\ txs' = Tail(txs)
  /\ hook' = IF tx.watched THEN [hook EXCEPT ![tx.hook] = outcome] ELSE hook
  /\ arg' = IF tx.watched THEN [arg EXCEPT ![tx.hook] = x] ELSE arg

\* The receipt arrives, or the node gives up on it.
Receipt(h) ==
  /\ hook[h] \in {"executed", "reverted"}
  /\ hook' = [hook EXCEPT ![h] = IF @ = "executed" THEN "success" ELSE "lost"]
  /\ UNCHANGED <<arg, txs>>

GiveUp(h) ==
  /\ hook[h] \in {"mining", "executed", "reverted"}
  /\ hook' = [hook EXCEPT ![h] = "lost"]
  /\ txs' = Unwatched({h})
  /\ UNCHANGED arg
==============================================================================
