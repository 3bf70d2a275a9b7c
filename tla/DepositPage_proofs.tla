-------------------------- MODULE DepositPage_proofs --------------------------
(***************************************************************************)
(* Proofs about the deposit page composed with the bridge, for any tags,   *)
(* deposits and number of unmined transactions.  PageInv is the inductive  *)
(* invariant: that of the bridge, what the hooks of the page know of the   *)
(* user's transactions, and how the page's step, tag and countdown fit     *)
(* together.                                                               *)
(***************************************************************************)
EXTENDS DepositPage, DirectMint_proofs, SequenceTheorems

(***************************************************************************)
(* The invariant.                                                          *)
(***************************************************************************)
Statuses ==
  {"idle", "prompt", "mining", "executed", "reverted", "rejected", "success", "lost"}
Args == DepositIds \cup Tags \cup {None}
Txs ==
  {tx \in [hook : Hooks, arg : Args, watched : BOOLEAN] :
     tx.hook = "settle" => tx.arg \in DepositIds}

\* A transaction that is watched is the last its hook has asked for.
WalletInv ==
  /\ hook \in [Hooks -> Statuses]
  /\ arg \in [Hooks -> Args]
  /\ hook["settle"] = "prompt" => arg["settle"] \in DepositIds
  /\ txs \in Seq(Txs)
  /\ \A i \in DOMAIN txs : txs[i].watched =>
       hook[txs[i].hook] = "mining" /\ arg[txs[i].hook] = txs[i].arg
  /\ \A i, j \in DOMAIN txs :
       txs[i].watched /\ txs[j].watched /\ txs[i].hook = txs[j].hook => i = j

Steps ==
  {"SELECT", "RESERVE_TAG", "AWAITING_DEPOSIT", "READY_TO_SETTLE", "SETTLING", "DEPLOY",
   "COMPLETE", "ERC4626_SELECT"}
TagOrNone == Tags \cup {None}

Pages ==
  [on : BOOLEAN, flow : {"FASSET", "ERC4626"}, step : Steps, tag : TagOrNone,
   id : DepositIds \cup {None}, saved : TagOrNone, clock : TagOrNone,
   ready : BOOLEAN, fetching : BOOLEAN]

PageTypeOK ==
  /\ page \in Pages
  /\ seen \in [Tags -> DepositIds \cup {None}] /\ mintSeen \subseteq DepositIds
  /\ storage \in [tag : TagOrNone, step : Steps, cooldown : BOOLEAN]
  /\ elapsed \subseteq Tags /\ blind \in BOOLEAN
  /\ reserved \in TagOrNone /\ inherited \subseteq Tags

\* Every tag the page knows is one the user has registered, or has reserved at the
\* manager, or one that was left behind by somebody else's session.
OwnTags == {t \in Tags : tagUser[Adapter][t] = User}
KnownTags == OwnTags \cup inherited \cup {reserved, None}
TagsKnown ==
  /\ page.tag \in KnownTags
  /\ page.saved \in KnownTags
  /\ storage.tag \in KnownTags

\* What the receipts said was so when the transactions were executed.
ReceiptsTrue ==
  /\ hook["settle"] \in {"executed", "success"} => arg["settle"] \in settledFAssetDeposits
  /\ hook["register"] \in {"executed", "success"} => arg["register"] \in OwnTags

\* The steps past RESERVE_TAG have a tag, and those past SETTLING a receipt.
StepsKept ==
  /\ page.step \in {"AWAITING_DEPOSIT", "READY_TO_SETTLE", "SETTLING", "DEPLOY", "COMPLETE"}
       \/ hook["settle"] # "idle"
     => page.tag # None
  /\ page.step \in {"DEPLOY", "COMPLETE"} => hook["settle"] = "success"
  /\ hook["register"] # "idle" => page.saved = None
  /\ ~page.on => hook["register"] = "idle" /\ hook["settle"] = "idle"

\* The countdown on display is that of the tag of the page, unless the page shows
\* a tag reserved at the manager.
CountdownKept ==
  /\ page.clock # None =>
       page.tag \in {None, page.clock, reserved} /\ page.saved \in {None, page.clock}
  /\ page.ready /\ ~blind =>
       page.tag \in elapsed \cup {None, reserved} /\ page.saved \in elapsed \cup {None}

\* For a tag of the adapter only the executor of the bot is ever scheduled, and a
\* tag reserved at the manager is never one of the adapter.
BotsTag(t) ==
  /\ scheduledExecutor[t] \in {None, Bot}
  /\ allowedExecutor[t] \in {None, scheduledExecutor[t]}
  /\ t \in elapsed => allowedExecutor[t] = Bot
ExecutorsKept ==
  /\ defaultDirectMintExecutor[Adapter] = Bot
  /\ \A t \in Tags : mintingRecipient[t] \in {None, Adapter} => BotsTag(t)
  /\ reserved # None => reserved \in OthersTags /\ mintingRecipient[reserved] = None

PageOK ==
  /\ PageTypeOK
  /\ TagsKnown
  /\ ReceiptsTrue
  /\ StepsKept
  /\ CountdownKept

PageInv ==
  /\ IInv
  /\ WalletInv
  /\ PageOK
  /\ ExecutorsKept

(***************************************************************************)
(* The wallet.                                                             *)
(***************************************************************************)
\* Forgetting hooks keeps the transactions, and none of theirs is watched.
LEMMA ForgottenKeeps ==
  ASSUME WalletInv, NEW hs \in SUBSET Hooks, NEW ts \in Forgotten(hs)
  PROVE  /\ ts \in Seq(Txs)
         /\ \A i \in DOMAIN ts : ts[i].watched =>
              i \in DOMAIN txs /\ ts[i] = txs[i] /\ ts[i].hook \notin hs
<1>1. PICK confirmed \in StillConfirmed(hs) : ts = Unwatched(hs) \o confirmed
  BY DEF Forgotten
<1> DEFINE u == Unwatched(hs)
<1>2. \A i \in 1 .. Len(txs) : txs[i] \in Txs
  BY DEF WalletInv
<1>3. \A i \in 1 .. Len(txs) :
        /\ u[i] = IF txs[i].hook \in hs THEN [txs[i] EXCEPT !.watched = FALSE] ELSE txs[i]
        /\ u[i] \in Txs
  <2>1. DOMAIN txs = 1 .. Len(txs)
    BY DEF WalletInv
  <2>2. \A i \in 1 .. Len(txs) :
          u[i] = IF txs[i].hook \in hs THEN [txs[i] EXCEPT !.watched = FALSE] ELSE txs[i]
    BY <2>1 DEF Unwatched
  <2>3. \A tx \in Txs : [tx EXCEPT !.watched = FALSE] \in Txs
    BY DEF Txs
  <2> HIDE DEF u
  <2>4. QED
    BY <1>2, <2>2, <2>3
<1>4. u \in Seq(Txs) /\ Len(u) = Len(txs) /\ DOMAIN u = 1 .. Len(txs)
  <2>1. DOMAIN txs = 1 .. Len(txs) /\ Len(txs) \in Nat
    BY DEF WalletInv
  <2>2. DOMAIN u = 1 .. Len(txs) /\ u = [i \in 1 .. Len(txs) |-> u[i]]
    BY <2>1 DEF Unwatched
  <2> HIDE DEF u
  <2>3. u \in [1 .. Len(txs) -> Txs]
    BY <1>3, <2>2
  <2>4. QED
    BY <2>1, <2>3
<1>5. \A i \in 1 .. Len(txs) : u[i].watched => u[i] = txs[i] /\ u[i].hook \notin hs
  BY <1>2, <1>3 DEF Txs
<1> HIDE DEF u
<1>6. CASE confirmed = <<>>
  BY <1>1, <1>4, <1>5, <1>6 DEF u, WalletInv
<1>7. CASE \E h \in hs : /\ hook[h] = "prompt"
                       /\ confirmed = <<[hook |-> h, arg |-> arg[h], watched |-> FALSE]>>
  <2>1. PICK h \in hs : /\ hook[h] = "prompt"
                       /\ confirmed = <<[hook |-> h, arg |-> arg[h], watched |-> FALSE]>>
    BY <1>7
  <2> DEFINE r == [hook |-> h, arg |-> arg[h], watched |-> FALSE]
  <2>2. r \in Txs /\ ~r.watched
    BY <2>1 DEF WalletInv, Txs
  <2> HIDE DEF r
  <2>3. ts = u \o <<r>>
    BY <1>1, <2>1 DEF u, r
  <2>4. /\ ts \in Seq(Txs) /\ DOMAIN ts = 1 .. Len(txs) + 1
        /\ \A i \in 1 .. Len(txs) : ts[i] = u[i]
        /\ ts[Len(txs) + 1] = r
    BY <1>4, <2>2, <2>3
  <2>5. QED
    BY <1>4, <1>5, <2>2, <2>4 DEF WalletInv
<1>8. QED
  BY <1>6, <1>7 DEF StillConfirmed

\* writeContract and Unmount watch nothing new.
LEMMA ForgetWallet ==
  ASSUME WalletInv, NEW hs \in SUBSET Hooks, txs' \in Forgotten(hs),
         hook' \in [Hooks -> Statuses], arg' \in [Hooks -> Args],
         hook'["settle"] = "prompt" => arg'["settle"] \in DepositIds,
         \A g \in Hooks \ hs : hook'[g] = hook[g] /\ arg'[g] = arg[g]
  PROVE  WalletInv'
<1>1. /\ txs' \in Seq(Txs)
      /\ \A i \in DOMAIN txs' : txs'[i].watched =>
           i \in DOMAIN txs /\ txs'[i] = txs[i] /\ txs'[i].hook \notin hs
  BY ForgottenKeeps
<1>2. \A i \in DOMAIN txs' : txs'[i].hook \in Hooks
  BY <1>1 DEF Txs
<1>3. \A i \in DOMAIN txs' : txs'[i].watched =>
        hook'[txs'[i].hook] = "mining" /\ arg'[txs'[i].hook] = txs'[i].arg
  BY <1>1, <1>2 DEF WalletInv
<1>4. \A i, j \in DOMAIN txs' :
        txs'[i].watched /\ txs'[j].watched /\ txs'[i].hook = txs'[j].hook => i = j
  BY <1>1 DEF WalletInv
<1>5. QED
  BY <1>1, <1>3, <1>4 DEF WalletInv

LEMMA WriteWallet ==
  ASSUME WalletInv, NEW h \in Hooks, NEW x \in Args, h = "settle" => x \in DepositIds,
         writeContract(h, x)
  PROVE  WalletInv'
<1>1. /\ hook' = [hook EXCEPT ![h] = "prompt"] /\ arg' = [arg EXCEPT ![h] = x]
      /\ txs' \in Forgotten({h})
  BY DEF writeContract
<1>2. hook' \in [Hooks -> Statuses] /\ arg' \in [Hooks -> Args]
  BY <1>1 DEF WalletInv, Statuses
<1>3. \A g \in Hooks \ {h} : hook'[g] = hook[g] /\ arg'[g] = arg[g]
  BY <1>1 DEF WalletInv
<1>4. hook'["settle"] = "prompt" => arg'["settle"] \in DepositIds
  BY <1>1 DEF WalletInv, Hooks
<1>5. QED
  BY <1>1, <1>2, <1>3, <1>4, ForgetWallet

LEMMA UnmountWallet == ASSUME WalletInv, Unmount(None) PROVE WalletInv'
<1>1. /\ hook' = [h \in Hooks |-> "idle"] /\ arg' = [h \in Hooks |-> None]
      /\ txs' \in Forgotten(Hooks)
  BY DEF Unmount
<1>2. hook' \in [Hooks -> Statuses] /\ arg' \in [Hooks -> Args]
  BY <1>1 DEF Statuses, Args
<1>3. hook'["settle"] # "prompt"
  BY <1>1 DEF Hooks
<1>4. QED
  BY <1>1, <1>2, <1>3, ForgetWallet

LEMMA ConfirmWallet == ASSUME WalletInv, NEW h \in Hooks, Confirm(h) PROVE WalletInv'
<1> DEFINE r == [hook |-> h, arg |-> arg[h], watched |-> TRUE]
<1>1. /\ hook[h] = "prompt" /\ hook' = [hook EXCEPT ![h] = "mining"]
      /\ txs' = Append(txs, r) /\ arg' = arg
  BY DEF Confirm
<1>2. r \in Txs /\ r.watched /\ r.hook = h /\ r.arg = arg[h]
  BY <1>1 DEF WalletInv, Txs
<1> HIDE DEF r
<1>3. /\ txs' \in Seq(Txs) /\ DOMAIN txs' = 1 .. Len(txs) + 1
      /\ Len(txs) \in Nat /\ DOMAIN txs = 1 .. Len(txs)
      /\ txs'[Len(txs) + 1] = r
      /\ \A i \in 1 .. Len(txs) : txs'[i] = txs[i]
  BY <1>1, <1>2 DEF WalletInv
<1>4. \A i \in 1 .. Len(txs) : txs[i].hook \in Hooks /\ (txs[i].watched => txs[i].hook # h)
  BY <1>1, <1>3 DEF WalletInv, Txs
<1>5. \A i \in DOMAIN txs' : i \in 1 .. Len(txs) \/ i = Len(txs) + 1
  BY <1>3
<1>6. hook' \in [Hooks -> Statuses] /\ arg' \in [Hooks -> Args]
  BY <1>1 DEF WalletInv, Statuses
<1>7. hook'[h] = "mining" /\ \A g \in Hooks \ {h} : hook'[g] = hook[g]
  BY <1>1 DEF WalletInv
<1>8. \A i \in DOMAIN txs' : txs'[i].watched =>
        hook'[txs'[i].hook] = "mining" /\ arg'[txs'[i].hook] = txs'[i].arg
  <2>1. \A i \in 1 .. Len(txs) : txs[i].watched =>
          hook[txs[i].hook] = "mining" /\ arg[txs[i].hook] = txs[i].arg
    BY <1>3 DEF WalletInv
  <2>2. QED
    BY <1>1, <1>2, <1>3, <1>4, <1>5, <1>7, <2>1
<1>9. \A i, j \in DOMAIN txs' :
        txs'[i].watched /\ txs'[j].watched /\ txs'[i].hook = txs'[j].hook => i = j
  <2>1. \A i, j \in 1 .. Len(txs) :
          txs[i].watched /\ txs[j].watched /\ txs[i].hook = txs[j].hook => i = j
    BY <1>3 DEF WalletInv
  <2>2. QED
    BY <1>2, <1>3, <1>4, <1>5, <2>1
<1>10. hook'["settle"] = "prompt" => arg'["settle"] \in DepositIds
  BY <1>1, <1>7 DEF WalletInv, Hooks
<1>11. QED
  BY <1>3, <1>6, <1>8, <1>9, <1>10 DEF WalletInv

\* A status that is not "mining" is changed, or nothing is: the transactions stay.
LEMMA StatusWallet ==
  ASSUME WalletInv, NEW h \in Hooks, NEW s \in Statuses \ {"prompt"}, hook[h] # "mining",
         hook' = [hook EXCEPT ![h] = s], UNCHANGED <<arg, txs>>
  PROVE  WalletInv'
<1>1. hook' \in [Hooks -> Statuses] /\ \A g \in Hooks \ {h} : hook'[g] = hook[g]
  BY DEF WalletInv
<1>2. \A i \in DOMAIN txs : txs[i].watched =>
        hook'[txs[i].hook] = "mining" /\ arg[txs[i].hook] = txs[i].arg
  <2> SUFFICES ASSUME NEW i \in DOMAIN txs, txs[i].watched
               PROVE  hook'[txs[i].hook] = "mining" /\ arg[txs[i].hook] = txs[i].arg
    OBVIOUS
  <2>1. txs[i].hook \in Hooks
    BY DEF WalletInv, Txs
  <2>2. QED
    BY <1>1, <2>1 DEF WalletInv
<1>3. QED
  BY <1>1, <1>2 DEF WalletInv, Hooks

LEMMA GiveUpWallet == ASSUME WalletInv, NEW h \in Hooks, GiveUp(h) PROVE WalletInv'
<1>1. hook' = [hook EXCEPT ![h] = "lost"] /\ txs' = Unwatched({h}) /\ arg' = arg
  BY DEF GiveUp
<1>2. hook' \in [Hooks -> Statuses] /\ \A g \in Hooks \ {h} : hook'[g] = hook[g]
  BY <1>1 DEF WalletInv, Statuses
<1>3. /\ txs' \in Seq(Txs) /\ DOMAIN txs' = DOMAIN txs
      /\ \A i \in DOMAIN txs' : txs'[i].watched =>
           txs'[i] = txs[i] /\ txs'[i].hook # h
  <2>1. DOMAIN txs = 1 .. Len(txs) /\ Len(txs) \in Nat
    BY DEF WalletInv
  <2>2. /\ DOMAIN txs' = 1 .. Len(txs)
        /\ txs' = [i \in 1 .. Len(txs) |-> txs'[i]]
        /\ \A i \in 1 .. Len(txs) :
             txs'[i] = IF txs[i].hook = h THEN [txs[i] EXCEPT !.watched = FALSE] ELSE txs[i]
    BY <1>1, <2>1 DEF Unwatched
  <2>3. \A tx \in Txs : [tx EXCEPT !.watched = FALSE] \in Txs
                       /\ ~[tx EXCEPT !.watched = FALSE].watched
    BY DEF Txs
  <2>4. \A i \in 1 .. Len(txs) : txs[i] \in Txs
    BY DEF WalletInv
  <2>5. \A i \in 1 .. Len(txs) : txs'[i] \in Txs /\ (txs'[i].watched =>
          txs'[i] = txs[i] /\ txs'[i].hook # h)
    BY <2>2, <2>3, <2>4
  <2>6. txs' \in [1 .. Len(txs) -> Txs]
    BY <2>2, <2>5
  <2>7. QED
    BY <2>1, <2>2, <2>5, <2>6
<1>4. \A i \in DOMAIN txs' : txs'[i].watched =>
        hook'[txs'[i].hook] = "mining" /\ arg'[txs'[i].hook] = txs'[i].arg
  <2> SUFFICES ASSUME NEW i \in DOMAIN txs', txs'[i].watched
               PROVE  hook'[txs'[i].hook] = "mining" /\ arg'[txs'[i].hook] = txs'[i].arg
    OBVIOUS
  <2>1. txs'[i] = txs[i] /\ txs[i].hook # h /\ txs[i].hook \in Hooks /\ i \in DOMAIN txs
    BY <1>3 DEF WalletInv, Txs
  <2>2. QED
    BY <1>1, <1>2, <2>1 DEF WalletInv
<1>5. \A i, j \in DOMAIN txs' :
        txs'[i].watched /\ txs'[j].watched /\ txs'[i].hook = txs'[j].hook => i = j
  BY <1>3 DEF WalletInv
<1>6. hook'["settle"] = "prompt" => arg'["settle"] \in DepositIds
  BY <1>1, <1>2 DEF WalletInv, Hooks
<1>7. QED
  BY <1>1, <1>2, <1>3, <1>4, <1>5, <1>6 DEF WalletInv

\* The first transaction is the only one of its hook that is watched.
LEMMA MinedWallet ==
  ASSUME WalletInv, txs # <<>>, NEW x \in Args, NEW s \in {"executed", "reverted"}, Mined(s, x)
  PROVE  /\ WalletInv'
         /\ Head(txs) \in Txs
         /\ ~Head(txs).watched => UNCHANGED <<hook, arg>>
         /\ Head(txs).watched =>
              /\ hook[Head(txs).hook] = "mining" /\ arg[Head(txs).hook] = Head(txs).arg
              /\ hook' = [hook EXCEPT ![Head(txs).hook] = s]
              /\ arg' = [arg EXCEPT ![Head(txs).hook] = x]
<1> DEFINE tx == Head(txs)
<1>1. /\ txs \in Seq(Txs) /\ Len(txs) \in Nat \ {0} /\ DOMAIN txs = 1 .. Len(txs)
      /\ tx = txs[1] /\ tx \in Txs /\ 1 \in DOMAIN txs
      /\ txs' = Tail(txs)
  BY DEF WalletInv, Mined
<1>2. /\ txs' \in Seq(Txs) /\ DOMAIN txs' = 1 .. Len(txs) - 1
      /\ \A i \in DOMAIN txs' : i + 1 \in DOMAIN txs /\ txs'[i] = txs[i + 1] /\ i + 1 # 1
  BY <1>1
<1>3. /\ ~tx.watched => UNCHANGED <<hook, arg>>
      /\ tx.watched =>
           /\ hook[tx.hook] = "mining" /\ arg[tx.hook] = tx.arg
           /\ hook' = [hook EXCEPT ![tx.hook] = s]
           /\ arg' = [arg EXCEPT ![tx.hook] = x]
  BY <1>1 DEF WalletInv, Mined
<1>4. tx.hook \in Hooks
  BY <1>1 DEF Txs
<1> HIDE DEF tx
<1>5. hook' \in [Hooks -> Statuses] /\ arg' \in [Hooks -> Args]
  BY <1>3, <1>4 DEF WalletInv, Statuses
<1>6. \A g \in Hooks : (g # tx.hook \/ ~tx.watched) => hook'[g] = hook[g] /\ arg'[g] = arg[g]
  BY <1>3, <1>4 DEF WalletInv
<1>7. \A i \in DOMAIN txs' : txs'[i].watched =>
        hook'[txs'[i].hook] = "mining" /\ arg'[txs'[i].hook] = txs'[i].arg
  <2> SUFFICES ASSUME NEW i \in DOMAIN txs', txs'[i].watched
               PROVE  hook'[txs'[i].hook] = "mining" /\ arg'[txs'[i].hook] = txs'[i].arg
    OBVIOUS
  <2>1. /\ txs'[i] = txs[i + 1] /\ i + 1 \in DOMAIN txs /\ i + 1 # 1
        /\ txs[i + 1].hook \in Hooks /\ txs[i + 1].watched
    BY <1>1, <1>2 DEF Txs
  <2>2. txs[i + 1].hook # tx.hook \/ ~tx.watched
    BY <1>1, <2>1 DEF WalletInv
  <2>3. hook[txs[i + 1].hook] = "mining" /\ arg[txs[i + 1].hook] = txs[i + 1].arg
    BY <2>1 DEF WalletInv
  <2>4. QED
    BY <1>6, <2>1, <2>2, <2>3
<1>8. \A i, j \in DOMAIN txs' :
        txs'[i].watched /\ txs'[j].watched /\ txs'[i].hook = txs'[j].hook => i = j
  <2> SUFFICES ASSUME NEW i \in DOMAIN txs', NEW j \in DOMAIN txs',
                      txs'[i].watched, txs'[j].watched, txs'[i].hook = txs'[j].hook
               PROVE  i = j
    OBVIOUS
  <2>1. i + 1 = j + 1
    BY <1>2 DEF WalletInv
  <2>2. QED
    BY <1>2, <2>1
<1>9. hook'["settle"] = "prompt" => arg'["settle"] \in DepositIds
  BY <1>3, <1>4, <1>6 DEF WalletInv, Hooks
<1>10. QED
  BY <1>1, <1>2, <1>3, <1>5, <1>7, <1>8, <1>9 DEF WalletInv, tx

(***************************************************************************)
(* The chain.                                                              *)
(***************************************************************************)
LEMMA MineChain ==
  ASSUME PageInv, Mine
  PROVE  /\ txs # <<>> /\ UNCHANGED pageVars
         /\ \/ \E t \in Tags \ OthersTags :
                 /\ Head(txs).hook = "register"
                 /\ registerMintingTag(Adapter, User, t) /\ Mined("executed", t)
            \/ \E d \in DepositIds : /\ Head(txs).hook = "settle"
                                    /\ settleDirectMint(Adapter, d) /\ Mined("executed", d)
            \/ \E x \in Args : Mined("reverted", x) /\ UNCHANGED vars
<1>1. Head(txs) \in Txs
  BY DEF Mine, PageInv, WalletInv
<1>2. Head(txs).hook = "settle" => Head(txs).arg \in DepositIds
  BY <1>1 DEF Txs
<1>3. QED
  BY <1>2 DEF Mine, Args

Session ==
  \E a \in Adapters, u \in Users, t \in OthersTags : AnotherSession(a, u, t)

\* Only a mined transaction and what others do is seen by the contracts.
LEMMA OffChain == PageNext => Mine \/ Others \/ Session \/ UNCHANGED vars
BY PageAssumption
DEF PageNext, Open, Leave, SwitchFlow, handleReserveTag, BackToSelect, Countdown,
   PollDeposit, Polled, PollMint, handleSettle, CancelSettling, handleSkipDeploy,
   handleNewDeposit, WalletAnswers, Receipts, RegisterReceipt, SettleReceipt,
   RegisterReceiptFails, SettleReceiptFails, DeadlinePasses, ReserveAtManager, Session

\* What the page and the others do is what DirectMint allows.
LEMMA ChainStep == ASSUME PageInv, [PageNext]_depositVars PROVE [Next]_vars
<1>0. /\ Adapter \in Adapters /\ User \in Users /\ Bot \in Executors /\ 1 \in 1 .. MaxSupply
      /\ OthersTags \subseteq Tags /\ NextPayment \subseteq DepositIds
  BY PageAssumption, SupplyAssumption DEF NextPayment
<1>1. CASE Mine
  BY <1>0, <1>1, MineChain DEF Next
<1>2. CASE Others
  BY <1>0, <1>2 DEF Others, Next
<1>3. CASE Session
  BY <1>0, <1>3 DEF Session, AnotherSession, Next
<1>4. CASE UNCHANGED vars
  BY <1>4
<1>5. QED
  BY <1>1, <1>2, <1>3, <1>4, OffChain DEF depositVars

\* Nothing that was settled or registered is undone.
LEMMA ChainGrows ==
  ASSUME IInv, [Next]_vars
  PROVE  settledFAssetDeposits \subseteq settledFAssetDeposits' /\ OwnTags \subseteq OwnTags'
<1>1. CASE \E a \in Adapters, u \in Users, t \in Tags : registerMintingTag(a, u, t)
  <2>1. PICK a \in Adapters, u \in Users, t \in Tags : registerMintingTag(a, u, t)
    BY <1>1
  <2>2. /\ mintingRecipient[t] = None
        /\ tagUser' = [tagUser EXCEPT ![a][t] = u]
        /\ UNCHANGED settledFAssetDeposits
    BY <2>1 DEF registerMintingTag, queueVars
  <2>3. tagUser[Adapter][t] # User
    BY <2>2, PageAssumption, NoneAssumption DEF IInv, TagOwner
  <2>4. OwnTags \subseteq OwnTags'
    BY <2>2, <2>3, PageAssumption DEF IInv, TypeOK, OwnTags
  <2>5. QED
    BY <2>2, <2>4
<1>2. CASE \E a \in Adapters, d \in DepositIds : settleDirectMint(a, d)
  BY <1>2 DEF settleDirectMint, settleFAssetDeposit, tagVars, OwnTags
<1>3. CASE UNCHANGED <<tagUser, settledFAssetDeposits>>
  BY <1>3 DEF OwnTags
<1>4. QED
  BY <1>1, <1>2, <1>3
  DEF Next, processDirectMint, queueFAssetDeposit, setTagExecutor, ExecutorCooldownElapses,
      FAssetsArrive, Administration, pauseAdapter, unpauseAdapter, pauseVault, unpauseVault,
      setFAssetAdapter, setDefaultDirectMintExecutor, tagVars, queueVars, vars

\* The manager activates the executor of the bot and no other for the adapter.
LEMMA ExecutorsStep == ASSUME PageInv, [PageNext]_depositVars PROVE ExecutorsKept'
<1>0. /\ Adapter \in Adapters /\ Bot # None /\ elapsed \subseteq Tags /\ OthersTags \subseteq Tags
      /\ None \notin Tags
      /\ mintingRecipient \in [Tags -> Adapters \cup {None}]
      /\ allowedExecutor \in [Tags -> Executors \cup {None}]
      /\ scheduledExecutor \in [Tags -> Executors \cup {None}]
      /\ ExecutorsKept
  BY PageAssumption, NoneAssumption DEF PageInv, PageOK, IInv, TypeOK, PageTypeOK
<1>1. ASSUME NEW a \in Adapters, NEW u \in Users, NEW t \in Tags \ {reserved},
             registerMintingTag(a, u, t), UNCHANGED <<elapsed, reserved>>
      PROVE  ExecutorsKept'
  <2>1. /\ mintingRecipient' = [mintingRecipient EXCEPT ![t] = a] /\ mintingRecipient[t] = None
        /\ scheduledExecutor' = [scheduledExecutor EXCEPT ![t] = defaultDirectMintExecutor[a]]
        /\ UNCHANGED <<allowedExecutor, defaultDirectMintExecutor>>
    BY <1>1 DEF registerMintingTag
  <2>2. \A s \in Tags : mintingRecipient'[s] \in {None, Adapter} => BotsTag(s)'
    <3> SUFFICES ASSUME NEW s \in Tags, mintingRecipient'[s] \in {None, Adapter}
                 PROVE  BotsTag(s)'
      OBVIOUS
    <3>1. BotsTag(s)
      BY <1>0, <2>1 DEF ExecutorsKept
    <3>2. scheduledExecutor'[s] = scheduledExecutor[s] \/ scheduledExecutor'[s] = Bot
      BY <1>0, <2>1, NoneAssumption DEF ExecutorsKept
    <3>3. QED
      BY <1>1, <2>1, <3>1, <3>2 DEF BotsTag
  <2>3. QED
    BY <1>0, <1>1, <2>1, <2>2 DEF ExecutorsKept
<1>2. CASE \E t \in Tags : /\ ExecutorCooldownElapses(t)
                           /\ UNCHANGED pageVars
  BY <1>0, <1>2 DEF ExecutorCooldownElapses, ExecutorsKept, BotsTag, tagVars, pageVars, tagSources
<1>3. CASE \E t \in Tags : DeadlinePasses(t)
  <2>1. PICK t \in Tags : DeadlinePasses(t)
    BY <1>3
  <2>2. /\ allowedExecutor[t] # None /\ elapsed' = elapsed \cup {t}
        /\ UNCHANGED <<mintingRecipient, allowedExecutor, scheduledExecutor,
                       defaultDirectMintExecutor, reserved>>
    BY <2>1 DEF DeadlinePasses, vars, managerVars, tagVars, tagSources
  <2>3. QED
    BY <1>0, <2>2 DEF ExecutorsKept, BotsTag
<1>4. CASE UNCHANGED <<mintingRecipient, allowedExecutor, scheduledExecutor,
                       defaultDirectMintExecutor, elapsed, reserved>>
  BY <1>0, <1>4 DEF ExecutorsKept, BotsTag
<1>5. CASE Mine
  <2>1. CASE \E t \in Tags \ OthersTags : registerMintingTag(Adapter, User, t)
    <3>1. PICK t \in Tags \ OthersTags : registerMintingTag(Adapter, User, t)
      BY <2>1
    <3>2. t # reserved
      BY <1>0, <3>1 DEF ExecutorsKept
    <3>3. QED
      BY <1>1, <1>5, <3>1, <3>2, MineChain, PageAssumption DEF pageVars, tagSources
  <2>2. CASE \E d \in DepositIds : settleDirectMint(Adapter, d)
    BY <1>4, <1>5, <2>2, MineChain
    DEF settleDirectMint, managerVars, tagVars, pageVars, tagSources
  <2>3. CASE UNCHANGED vars
    BY <1>4, <1>5, <2>3, MineChain DEF vars, managerVars, tagVars, pageVars, tagSources
  <2>4. QED
    BY <1>5, <2>1, <2>2, <2>3, MineChain
<1>6. CASE Others
  BY <1>2, <1>4, <1>6
  DEF Others, FAssetsArrive, processDirectMint, settleDirectMint, managerVars, tagVars, pageVars,
      tagSources
<1>7. CASE Session
  <2>1. PICK a \in Adapters, u \in Users, t \in OthersTags : AnotherSession(a, u, t)
    BY <1>7 DEF Session
  <2>2. QED
    BY <1>0, <1>1, <2>1 DEF AnotherSession
<1>8. CASE \E t \in OthersTags : ReserveAtManager(t)
  BY <1>0, <1>8 DEF ReserveAtManager, ExecutorsKept, BotsTag, vars, managerVars, tagVars
<1>9. CASE UNCHANGED vars /\ UNCHANGED <<elapsed, reserved>>
  BY <1>4, <1>9 DEF vars, managerVars, tagVars
<1>10. PageNext => \/ Mine \/ Others \/ Session \/ \E t \in Tags : DeadlinePasses(t)
                   \/ \E t \in OthersTags : ReserveAtManager(t)
                   \/ UNCHANGED vars /\ UNCHANGED <<elapsed, reserved>>
  BY PageAssumption
  DEF PageNext, Open, Leave, SwitchFlow, handleReserveTag, BackToSelect, Countdown,
     PollDeposit, Polled, PollMint, handleSettle, CancelSettling, handleSkipDeploy,
     handleNewDeposit, WalletAnswers, Receipts, RegisterReceipt, SettleReceipt,
     RegisterReceiptFails, SettleReceiptFails, pageVars, tagSources, Session
<1>11. QED
  BY <1>3, <1>5, <1>6, <1>7, <1>8, <1>9, <1>10 DEF depositVars, pageVars, tagSources

(***************************************************************************)
(* The page.  What is off the chain leaves the contracts alone.            *)
(***************************************************************************)
\* What every step of the page starts from.
LEMMA PageFacts ==
  ASSUME PageInv
  PROVE  /\ OwnTags \subseteq Tags /\ None \notin Tags /\ None \notin DepositIds
         /\ hook["register"] \in Statuses /\ hook["settle"] \in Statuses
         /\ arg["register"] \in Args /\ arg["settle"] \in Args
         /\ DOMAIN hook = Hooks /\ DOMAIN arg = Hooks
         /\ {"register", "settle"} \subseteq Hooks
BY PageAssumption, NoneAssumption DEF PageInv, WalletInv, OwnTags, Hooks

LEMMA OpenKeeps == ASSUME PageInv, Open PROVE PageOK'
<1>1. /\ UNCHANGED <<vars, walletVars, seen, mintSeen, storage, elapsed, reserved, inherited>>
      /\ page' = [Fresh EXCEPT
           !.on = TRUE,
           !.saved = storage.tag,
           !.clock = IF storage.cooldown /\ storage.tag \notin elapsed THEN storage.tag ELSE None,
           !.ready = /\ ~(storage.cooldown /\ storage.tag \notin elapsed) /\ storage.tag # None
                     /\ (storage.cooldown \/ storage.step = "AWAITING_DEPOSIT")]
      /\ blind' = (storage.tag # None /\ ~storage.cooldown /\ storage.tag \notin elapsed)
      /\ ~page.on
  BY DEF Open, cacheVars, tagSources, LostDeadline
<1>2. /\ page'.tag = None /\ page'.saved = storage.tag /\ page'.step = "SELECT"
      /\ page'.id = None /\ page'.on /\ page'.flow = "FASSET" /\ page'.fetching = FALSE
      /\ page'.clock = IF storage.cooldown /\ storage.tag \notin elapsed THEN storage.tag ELSE None
      /\ page'.ready = (/\ ~(storage.cooldown /\ storage.tag \notin elapsed) /\ storage.tag # None
                        /\ (storage.cooldown \/ storage.step = "AWAITING_DEPOSIT"))
  BY <1>1 DEF Fresh
<1>3. PageTypeOK'
  <2>1. storage.tag \in TagOrNone
    BY DEF PageInv, PageOK, PageTypeOK, Pages
  <2>2. page' \in Pages
    BY <1>1, <2>1 DEF Fresh, Pages, TagOrNone, Steps
  <2>3. QED
    BY <1>1, <2>2 DEF PageInv, PageOK, PageTypeOK, Pages
<1>4. TagsKnown'
  BY <1>1, <1>2 DEF PageInv, PageOK, TagsKnown, KnownTags, OwnTags, vars, tagVars
<1>5. hook["register"] = "idle" /\ hook["settle"] = "idle" /\ UNCHANGED <<hook, arg>>
  BY <1>1 DEF PageInv, PageOK, StepsKept, walletVars
<1>6. ReceiptsTrue' /\ StepsKept'
  BY <1>2, <1>5 DEF ReceiptsTrue, StepsKept
<1>7. CountdownKept'
  <2>1. ~blind' => storage.tag = None \/ storage.cooldown \/ storage.tag \in elapsed
    BY <1>1, Zenon
  <2>2. page'.ready => ~(storage.cooldown /\ storage.tag \notin elapsed)
    BY <1>2, Zenon
  <2>3. page'.ready /\ ~blind' => storage.tag \in elapsed \cup {None}
    BY <2>1, <2>2
  <2>4. page'.clock # None => page'.clock = storage.tag
    BY <1>2
  <2> QED
    BY <1>1, <1>2, <2>3, <2>4 DEF CountdownKept
<1>8. QED
  BY <1>3, <1>4, <1>6, <1>7 DEF PageOK

LEMMA LeaveKeeps == ASSUME PageInv, Leave PROVE PageOK'
<1>1. /\ UNCHANGED <<vars, seen, mintSeen, storage, elapsed, blind, reserved, inherited>>
      /\ page' = Fresh
      /\ hook'["register"] = "idle" /\ hook'["settle"] = "idle"
  BY DEF Leave, cacheVars, tagSources, Unmount, Hooks
<1>2. PageTypeOK'
  <2>1. Fresh \in Pages
    BY DEF Fresh, Pages, TagOrNone, Steps
  <2>2. QED
    BY <1>1, <2>1 DEF PageInv, PageOK, PageTypeOK, Pages
<1>3. TagsKnown'
  BY <1>1 DEF PageInv, PageOK, TagsKnown, KnownTags, OwnTags, Fresh, vars, tagVars
<1>4. ReceiptsTrue' /\ StepsKept' /\ CountdownKept'
  BY <1>1 DEF ReceiptsTrue, StepsKept, CountdownKept, Fresh
<1>5. QED
  BY <1>2, <1>3, <1>4 DEF PageOK

\* Steps of the page that ask the wallet nothing.
LEMMA QuietKeeps ==
  ASSUME PageInv, UNCHANGED <<vars, walletVars, mintSeen, elapsed, blind, reserved, inherited>>,
         PageTypeOK', TagsKnown', CountdownKept',
         page'.on,
         page'.step \in {"AWAITING_DEPOSIT", "READY_TO_SETTLE", "SETTLING", "DEPLOY", "COMPLETE"}
           \/ hook["settle"] # "idle" => page'.tag # None,
         page'.step \in {"DEPLOY", "COMPLETE"} => hook["settle"] = "success",
         hook["register"] # "idle" => page'.saved = None
  PROVE  PageOK'
<1>1. ReceiptsTrue'
  BY DEF PageInv, PageOK, ReceiptsTrue, OwnTags, vars, tagVars, queueVars, walletVars
<1>2. StepsKept'
  BY DEF StepsKept, walletVars
<1>3. QED
  BY <1>1, <1>2 DEF PageOK

LEMMA SwitchKeeps ==
  ASSUME PageInv, NEW flow \in {"FASSET", "ERC4626"}, SwitchFlow(flow) PROVE PageOK'
<1>1. PICK fetching \in {page.fetching, page.step = "AWAITING_DEPOSIT"} :
        page' = [page EXCEPT !.flow = flow, !.fetching = fetching,
                             !.step = IF flow = "FASSET" THEN "SELECT" ELSE "ERC4626_SELECT"]
  BY DEF SwitchFlow
<1>2. UNCHANGED <<vars, walletVars, seen, mintSeen, storage, elapsed, blind, reserved, inherited>> /\ page.on
  BY DEF SwitchFlow, cacheVars, tagSources
<1>3. fetching \in BOOLEAN
  BY <1>1 DEF PageInv, PageOK, PageTypeOK, Pages
<1>4. PageTypeOK'
  BY <1>1, <1>2, <1>3 DEF PageInv, PageOK, PageTypeOK, Pages, Steps
<1>5. /\ page'.tag = page.tag /\ page'.saved = page.saved /\ page'.clock = page.clock
      /\ page'.ready = page.ready /\ page'.on = page.on
      /\ page'.step \in {"SELECT", "ERC4626_SELECT"}
  BY <1>1 DEF PageInv, PageOK, PageTypeOK, Pages
<1>6. TagsKnown'
  BY <1>2, <1>5 DEF PageInv, PageOK, TagsKnown, KnownTags, OwnTags, vars, tagVars
<1>7. CountdownKept'
  BY <1>2, <1>5 DEF PageInv, PageOK, CountdownKept
<1>8. QED
  BY <1>2, <1>4, <1>5, <1>6, <1>7, QuietKeeps DEF PageInv, PageOK, StepsKept

\* Steps that move the page and nothing else.
LEMMA MoveKeeps ==
  ASSUME PageInv, UNCHANGED <<vars, walletVars, seen, mintSeen, storage, elapsed, blind, reserved, inherited>>, page.on,
         NEW step \in Steps, page' = [page EXCEPT !.step = step],
         step \in {"AWAITING_DEPOSIT", "READY_TO_SETTLE", "SETTLING", "DEPLOY", "COMPLETE"}
           => page.tag # None,
         step \in {"DEPLOY", "COMPLETE"} => hook["settle"] = "success"
  PROVE  PageOK'
<1>1. PageTypeOK'
  BY DEF PageInv, PageOK, PageTypeOK, Pages
<1>2. /\ page'.tag = page.tag /\ page'.saved = page.saved /\ page'.clock = page.clock
      /\ page'.ready = page.ready /\ page'.on = page.on /\ page'.step = step
  BY DEF PageInv, PageOK, PageTypeOK, Pages
<1>3. TagsKnown'
  BY <1>2 DEF PageInv, PageOK, TagsKnown, KnownTags, OwnTags, vars, tagVars
<1>4. CountdownKept'
  BY <1>2 DEF PageInv, PageOK, CountdownKept
<1>5. QED
  BY <1>1, <1>2, <1>3, <1>4, QuietKeeps DEF PageInv, PageOK, StepsKept

LEMMA BackKeeps == ASSUME PageInv, BackToSelect PROVE PageOK'
<1>1. /\ UNCHANGED <<vars, walletVars, seen, mintSeen, storage, elapsed, blind, reserved, inherited>> /\ page.on
      /\ page' = [page EXCEPT !.step = "SELECT"]
  BY DEF BackToSelect, StepReserving, At, cacheVars, tagSources
<1>2. QED
  BY <1>1, MoveKeeps DEF Steps

LEMMA CancelKeeps == ASSUME PageInv, CancelSettling PROVE PageOK'
<1>1. /\ UNCHANGED <<vars, walletVars, seen, mintSeen, storage, elapsed, blind, reserved, inherited>> /\ page.on
      /\ page' = [page EXCEPT !.step = "READY_TO_SETTLE"] /\ page.step = "SETTLING"
  BY DEF CancelSettling, StepSettling, At, cacheVars, tagSources
<1>2. page.tag # None
  BY <1>1 DEF PageInv, PageOK, StepsKept
<1>3. QED
  BY <1>1, <1>2, MoveKeeps DEF Steps

LEMMA SkipKeeps == ASSUME PageInv, handleSkipDeploy PROVE PageOK'
<1>1. /\ UNCHANGED <<vars, walletVars, seen, mintSeen, storage, elapsed, blind, reserved, inherited>> /\ page.on
      /\ page' = [page EXCEPT !.step = "COMPLETE"] /\ page.step = "DEPLOY"
  BY DEF handleSkipDeploy, At, cacheVars, tagSources
<1>2. page.tag # None /\ hook["settle"] = "success"
  BY <1>1 DEF PageInv, PageOK, StepsKept
<1>3. QED
  BY <1>1, <1>2, MoveKeeps DEF Steps

LEMMA CountdownKeeps == ASSUME PageInv, Countdown PROVE PageOK'
<1>1. /\ UNCHANGED <<vars, walletVars, seen, mintSeen, storage, elapsed, blind, reserved, inherited>> /\ page.on
      /\ page' = [page EXCEPT !.ready = TRUE] /\ page.clock \in elapsed
  BY DEF Countdown, cacheVars, tagSources
<1>2. PageTypeOK'
  BY <1>1 DEF PageInv, PageOK, PageTypeOK, Pages
<1>3. /\ page'.tag = page.tag /\ page'.saved = page.saved /\ page'.clock = page.clock
      /\ page'.on = page.on /\ page'.step = page.step
  BY <1>1 DEF PageInv, PageOK, PageTypeOK, Pages
<1>4. TagsKnown'
  BY <1>1, <1>3 DEF PageInv, PageOK, TagsKnown, KnownTags, OwnTags, vars, tagVars
<1>5. CountdownKept'
  <2>1. page.clock # None
    BY <1>1, PageFacts DEF PageInv, PageOK, PageTypeOK, Pages
  <2>2. QED
    BY <1>1, <1>3, <2>1 DEF PageInv, PageOK, CountdownKept
<1>6. QED
  BY <1>1, <1>2, <1>3, <1>4, <1>5, QuietKeeps DEF PageInv, PageOK, StepsKept

\* A tag the page takes from storage comes with the countdown of its own.
LEMMA ReturnKeeps ==
  ASSUME PageInv, page.on, NEW t \in {page.saved, reserved}, t # None, AwaitDepositFor(t),
         UNCHANGED <<vars, walletVars, seen, mintSeen, elapsed, blind, reserved, inherited>>
  PROVE  PageOK'
<1>1. t \in Tags /\ t \in KnownTags /\ seen[t] \in DepositIds \cup {None}
  BY DEF PageInv, PageOK, TagsKnown, KnownTags, PageTypeOK, Pages, TagOrNone
<1>2. /\ page'.tag = t /\ page'.saved = page.saved /\ page'.clock = page.clock
      /\ page'.ready = page.ready /\ page'.on = page.on
      /\ page'.step \in {"READY_TO_SETTLE", "AWAITING_DEPOSIT"}
      /\ storage' = [tag |-> t, step |-> page'.step, cooldown |-> FALSE]
  BY DEF AwaitDepositFor, saveState, PageInv, PageOK, PageTypeOK, Pages
<1>3. PageTypeOK'
  <2>0. page \in Pages /\ t \in TagOrNone /\ seen[t] \in DepositIds \cup {None}
    BY <1>1 DEF PageInv, PageOK, PageTypeOK, TagOrNone
  <2>1. page' \in Pages
    <3>1. CASE page' = [page EXCEPT !.tag = t, !.id = seen[t], !.fetching = TRUE,
                                    !.step = "READY_TO_SETTLE"]
      BY <2>0, <3>1 DEF Pages, Steps
    <3>2. CASE page' = [page EXCEPT !.tag = t, !.fetching = FALSE, !.step = "AWAITING_DEPOSIT"]
      BY <2>0, <3>2 DEF Pages, Steps
    <3>3. QED
      BY <3>1, <3>2 DEF AwaitDepositFor
  <2>2. storage' \in [tag : TagOrNone, step : Steps, cooldown : BOOLEAN]
    BY <1>1, <1>2 DEF Steps, TagOrNone
  <2>3. QED
    BY <2>1, <2>2 DEF PageInv, PageOK, PageTypeOK, Pages
<1>4. TagsKnown'
  BY <1>1, <1>2 DEF PageInv, PageOK, TagsKnown, KnownTags, OwnTags, vars, tagVars
<1>5. CountdownKept'
  BY <1>2 DEF PageInv, PageOK, CountdownKept
<1>6. QED
  BY <1>1, <1>2, <1>3, <1>4, <1>5, QuietKeeps DEF PageInv, PageOK, StepsKept

LEMMA PollKeeps == ASSUME PageInv, PollDeposit PROVE PageOK'
<1> DEFINE d == pendingDepositForTag[Adapter][page.tag]
<1>0. /\ page.tag \in Tags /\ page.tag \in KnownTags /\ page.on /\ d \in DepositIds \cup {None}
  BY PageAssumption
  DEF PollDeposit, Polling, PageInv, PageOK, PageTypeOK, Pages, TagOrNone, TagsKnown, IInv, TypeOK
<1>1. /\ UNCHANGED <<vars, walletVars, mintSeen, elapsed, blind, reserved, inherited>>
      /\ seen' = [seen EXCEPT ![page.tag] = d]
      /\ \/ /\ page' = [page EXCEPT !.id = d, !.step = "READY_TO_SETTLE", !.fetching = FALSE]
            /\ storage' = [tag |-> page.tag, step |-> "READY_TO_SETTLE", cooldown |-> FALSE]
         \/ page' = [page EXCEPT !.fetching = FALSE] /\ UNCHANGED storage
  BY DEF PollDeposit, Polled, saveState, tagSources
<1> HIDE DEF d
<1>2. /\ page'.tag = page.tag /\ page'.saved = page.saved /\ page'.clock = page.clock
      /\ page'.ready = page.ready /\ page'.on = page.on
      /\ page'.step \in {"READY_TO_SETTLE", page.step}
  BY <1>1 DEF PageInv, PageOK, PageTypeOK, Pages
<1>3. PageTypeOK'
  <2>0. page \in Pages
    BY DEF PageInv, PageOK, PageTypeOK
  <2>1. page' \in Pages
    <3>1. CASE page' = [page EXCEPT !.id = d, !.step = "READY_TO_SETTLE", !.fetching = FALSE]
      BY <1>0, <2>0, <3>1 DEF Pages, Steps
    <3>2. CASE page' = [page EXCEPT !.fetching = FALSE]
      BY <2>0, <3>2 DEF Pages
    <3>3. QED
      BY <1>1, <3>1, <3>2
  <2>2. storage' \in [tag : TagOrNone, step : Steps, cooldown : BOOLEAN]
    <3>1. CASE storage' = [tag |-> page.tag, step |-> "READY_TO_SETTLE", cooldown |-> FALSE]
      BY <1>0, <3>1 DEF Steps, TagOrNone
    <3>2. CASE UNCHANGED storage
      BY <3>2 DEF PageInv, PageOK, PageTypeOK
    <3>3. QED
      BY <1>1, <3>1, <3>2
  <2>3. seen' \in [Tags -> DepositIds \cup {None}]
    BY <1>0, <1>1 DEF PageInv, PageOK, PageTypeOK, Pages
  <2>4. QED
    BY <1>1, <2>1, <2>2, <2>3 DEF PageInv, PageOK, PageTypeOK, Pages
<1>4. TagsKnown'
  BY <1>0, <1>1, <1>2 DEF PageInv, PageOK, TagsKnown, KnownTags, OwnTags, vars, tagVars
<1>5. CountdownKept'
  BY <1>1, <1>2 DEF PageInv, PageOK, CountdownKept
<1>6. page.tag # None
  BY DEF PollDeposit, Polling
<1>7. QED
  BY <1>0, <1>1, <1>2, <1>3, <1>4, <1>5, <1>6, QuietKeeps DEF PageInv, PageOK, StepsKept

LEMMA NewDepositKeeps == ASSUME PageInv, handleNewDeposit PROVE PageOK'
<1>1. /\ UNCHANGED <<vars, walletVars, seen, mintSeen, elapsed, blind, reserved, inherited>> /\ page.on
      /\ page.step = "COMPLETE"
      /\ page' = [page EXCEPT !.id = None, !.clock = None, !.ready = FALSE,
                              !.fetching = FALSE, !.step = "AWAITING_DEPOSIT"]
      /\ storage' = [tag |-> page.tag, step |-> "AWAITING_DEPOSIT", cooldown |-> FALSE]
  BY DEF handleNewDeposit, StepComplete, At, saveState, cacheVars, tagSources
<1>2. /\ page'.tag = page.tag /\ page'.saved = page.saved /\ page'.clock = None
      /\ page'.ready = FALSE /\ page'.on = page.on /\ page'.step = "AWAITING_DEPOSIT"
  BY <1>1 DEF PageInv, PageOK, PageTypeOK, Pages
<1>3. PageTypeOK'
  <2>1. page' \in Pages
    BY <1>1 DEF PageInv, PageOK, PageTypeOK, Pages, Steps, TagOrNone
  <2>2. storage' \in [tag : TagOrNone, step : Steps, cooldown : BOOLEAN]
    BY <1>1 DEF PageInv, PageOK, PageTypeOK, Pages, Steps
  <2>3. QED
    BY <1>1, <2>1, <2>2 DEF PageInv, PageOK, PageTypeOK, Pages
<1>4. TagsKnown'
  BY <1>1, <1>2 DEF PageInv, PageOK, TagsKnown, KnownTags, OwnTags, vars, tagVars
<1>5. CountdownKept'
  BY <1>2 DEF CountdownKept
<1>6. page.tag # None
  BY <1>1 DEF PageInv, PageOK, StepsKept
<1>7. QED
  BY <1>1, <1>2, <1>3, <1>4, <1>5, <1>6, QuietKeeps DEF PageInv, PageOK, StepsKept

LEMMA PollMintKeeps == ASSUME PageInv, PollMint PROVE PageOK'
<1>1. /\ UNCHANGED <<vars, walletVars, page, seen, storage, elapsed, blind, reserved, inherited>>
      /\ mintSeen' \subseteq DepositIds
  BY DEF PollMint, PageInv, tagSources, PageOK, PageTypeOK, Pages
<1>2. PageTypeOK' /\ CountdownKept'
  BY <1>1 DEF PageInv, PageOK, PageTypeOK, Pages, CountdownKept
<1>3. TagsKnown' /\ ReceiptsTrue' /\ StepsKept'
  BY <1>1 DEF PageInv, PageOK, TagsKnown, KnownTags, ReceiptsTrue, StepsKept, OwnTags, vars, tagVars,
     queueVars, walletVars
<1>4. QED
  BY <1>2, <1>3 DEF PageOK

(***************************************************************************)
(* The page and its wallet.                                                *)
(***************************************************************************)
LEMMA AskKeeps ==
  ASSUME PageInv, NEW h \in {"register", "settle"}, NEW x \in Args, writeContract(h, x),
         UNCHANGED <<vars, seen, mintSeen, storage, elapsed, blind, reserved, inherited>>, page.on,
         NEW step \in {"RESERVE_TAG", "SETTLING"}, page' = [page EXCEPT !.step = step],
         h = "register" => page.saved = None /\ step = "RESERVE_TAG",
         h = "settle" => page.tag # None
  PROVE  PageOK'
<1>1. PageTypeOK'
  BY DEF PageInv, PageOK, PageTypeOK, Pages, Steps
<1>2. /\ page'.tag = page.tag /\ page'.saved = page.saved /\ page'.clock = page.clock
      /\ page'.ready = page.ready /\ page'.on = page.on /\ page'.step = step
  BY DEF PageInv, PageOK, PageTypeOK, Pages
<1>3. TagsKnown'
  BY <1>2 DEF PageInv, PageOK, TagsKnown, KnownTags, OwnTags, vars, tagVars
<1>4. CountdownKept'
  BY <1>2 DEF PageInv, PageOK, CountdownKept
<1>5. hook' = [hook EXCEPT ![h] = "prompt"] /\ arg' = [arg EXCEPT ![h] = x]
  BY DEF writeContract
<1>6. /\ hook'[h] = "prompt"
      /\ h # "register" => hook'["register"] = hook["register"] /\ arg'["register"] = arg["register"]
      /\ h # "settle" => hook'["settle"] = hook["settle"] /\ arg'["settle"] = arg["settle"]
  BY <1>5, PageFacts
<1>7. OwnTags' = OwnTags /\ UNCHANGED settledFAssetDeposits
  BY DEF OwnTags, vars, tagVars, queueVars
<1>8. ReceiptsTrue'
  BY <1>6, <1>7 DEF PageInv, PageOK, ReceiptsTrue
<1>9. StepsKept'
  BY <1>2, <1>6 DEF PageInv, PageOK, StepsKept
<1>10. QED
  BY <1>1, <1>3, <1>4, <1>8, <1>9 DEF PageOK

LEMMA ReserveKeeps == ASSUME PageInv, handleReserveTag PROVE PageOK' /\ WalletInv'
<1>1. /\ UNCHANGED <<vars, seen, mintSeen, elapsed, blind, reserved, inherited>> /\ page.on
  BY DEF handleReserveTag, cacheVars, tagSources, StepSelectAsset, StepReserving, At
<1>2. CASE \E t \in {page.saved, reserved} :
             t # None /\ AwaitDepositFor(t) /\ UNCHANGED walletVars
  BY <1>1, <1>2, ReturnKeeps DEF PageInv, WalletInv, walletVars
<1>3. CASE /\ page.saved = None /\ writeContract("register", None)
           /\ page' = [page EXCEPT !.step = "RESERVE_TAG"] /\ UNCHANGED storage
  <2>1. None \in Args /\ "register" \in Hooks
    BY DEF Args, Hooks
  <2>2. WalletInv'
    BY <1>3, <2>1, WriteWallet DEF PageInv
  <2>3. PageOK'
    BY <1>1, <1>3, <2>1, AskKeeps
  <2>4. QED
    BY <2>2, <2>3
<1>4. QED
  BY <1>2, <1>3 DEF handleReserveTag

LEMMA SettleKeeps == ASSUME PageInv, handleSettle PROVE PageOK' /\ WalletInv'
<1>1. /\ UNCHANGED <<vars, seen, mintSeen, storage, elapsed, blind, reserved, inherited>> /\ page.on
      /\ page.step = "READY_TO_SETTLE" /\ page.id \in mintSeen
      /\ writeContract("settle", page.id) /\ page' = [page EXCEPT !.step = "SETTLING"]
  BY DEF handleSettle, StepReadyToSettle, At, cacheVars, tagSources
<1>2. page.id \in DepositIds /\ page.id \in Args /\ "settle" \in Hooks
  BY <1>1 DEF PageInv, PageOK, PageTypeOK, Args, Hooks
<1>3. page.tag # None
  BY <1>1 DEF PageInv, PageOK, StepsKept
<1>4. WalletInv'
  BY <1>1, <1>2, WriteWallet DEF PageInv
<1>5. PageOK'
  BY <1>1, <1>2, <1>3, AskKeeps
<1>6. QED
  BY <1>4, <1>5

\* The receipt of a registration tells the tag, whose countdown starts.
LEMMA RegisterReceiptKeeps == ASSUME PageInv, RegisterReceipt PROVE PageOK' /\ WalletInv'
<1> DEFINE t == arg["register"]
           s == IF hook["register"] = "executed" THEN "success" ELSE "lost"
<1>1. /\ UNCHANGED <<vars, seen, mintSeen, elapsed, blind, reserved, inherited, arg, txs>>
      /\ hook["register"] \in {"executed", "reverted"}
      /\ hook' = [hook EXCEPT !["register"] = s]
  BY DEF RegisterReceipt, Receipt, cacheVars, tagSources
<1>2. WalletInv'
  <2>1. s \in Statuses \ {"prompt"} /\ "register" \in Hooks
    BY DEF Statuses, Hooks
  <2> HIDE DEF s
  <2>2. QED
    BY <1>1, <2>1, StatusWallet DEF PageInv
<1>3. /\ hook'["register"] = s /\ hook'["settle"] = hook["settle"]
  BY <1>1, PageFacts
<1>4. page.on /\ page.saved = None
  BY <1>1 DEF PageInv, PageOK, StepsKept, PageTypeOK, Pages
<1>5. OwnTags' = OwnTags /\ UNCHANGED settledFAssetDeposits
  BY <1>1 DEF OwnTags, vars, tagVars, queueVars
<1>6. ReceiptsTrue'
  BY <1>1, <1>3, <1>5 DEF PageInv, PageOK, ReceiptsTrue
<1>7. CASE UNCHANGED <<page, storage>>
  BY <1>1, <1>2, <1>3, <1>4, <1>5, <1>6, <1>7
  DEF PageInv, PageOK, PageTypeOK, TagsKnown, KnownTags, StepsKept, CountdownKept
<1>8. CASE /\ hook["register"] = "executed"
           /\ page' = [page EXCEPT !.tag = t, !.step = "AWAITING_DEPOSIT", !.clock = t,
                                   !.ready = FALSE, !.fetching = FALSE]
           /\ storage' = [tag |-> t, step |-> "AWAITING_DEPOSIT", cooldown |-> TRUE]
  <2>1. t \in OwnTags /\ t \in Tags /\ t # None
    BY <1>8, PageFacts DEF PageInv, PageOK, ReceiptsTrue
  <2> HIDE DEF t
  <2>2. /\ page'.tag = t /\ page'.saved = page.saved /\ page'.clock = t
        /\ page'.ready = FALSE /\ page'.on = page.on /\ page'.step = "AWAITING_DEPOSIT"
    BY <1>8 DEF PageInv, PageOK, PageTypeOK, Pages
  <2>3. PageTypeOK'
    <3>1. page' \in Pages /\ storage' \in [tag : TagOrNone, step : Steps, cooldown : BOOLEAN]
      BY <1>8, <2>1 DEF PageInv, PageOK, PageTypeOK, Pages, Steps, TagOrNone
    <3>2. QED
      BY <1>1, <3>1 DEF PageInv, PageOK, PageTypeOK
  <2>4. TagsKnown'
    BY <1>4, <1>5, <1>8, <2>1, <2>2 DEF TagsKnown, KnownTags
  <2>5. StepsKept' /\ CountdownKept'
    BY <1>4, <2>1, <2>2 DEF StepsKept, CountdownKept
  <2>6. QED
    BY <1>2, <1>6, <2>3, <2>4, <2>5 DEF PageOK
<1>9. QED
  BY <1>7, <1>8 DEF RegisterReceipt

\* What becomes of a settlement moves the page, with its tag.
LEMMA DecidedKeeps ==
  ASSUME PageInv, NEW outcome \in {"success", "lost"}, SettleDecided(outcome),
         hook["settle"] # "idle", hook' = [hook EXCEPT !["settle"] = outcome], arg' = arg,
         outcome = "success" => hook["settle"] = "executed",
         UNCHANGED <<vars, seen, mintSeen, elapsed, blind, reserved, inherited>>
  PROVE  PageOK'
<1>1. page.tag # None /\ page.on
  BY DEF PageInv, PageOK, StepsKept, PageTypeOK, Pages
<1>2. hook'["settle"] = outcome /\ hook'["register"] = hook["register"]
  BY PageFacts
<1>3. OwnTags' = OwnTags /\ UNCHANGED settledFAssetDeposits
  BY DEF OwnTags, vars, tagVars, queueVars
<1>4. ReceiptsTrue'
  BY <1>2, <1>3 DEF PageInv, PageOK, ReceiptsTrue
<1>5. PICK step \in {"DEPLOY", "READY_TO_SETTLE"} :
        /\ page' = [page EXCEPT !.step = step]
        /\ step = "DEPLOY" => outcome = "success"
        /\ storage' = storage \/ storage' = [tag |-> page.tag, step |-> "DEPLOY", cooldown |-> FALSE]
  BY DEF SettleDecided, saveState
<1>6. /\ page'.tag = page.tag /\ page'.saved = page.saved /\ page'.clock = page.clock
      /\ page'.ready = page.ready /\ page'.on = page.on /\ page'.step = step
  BY <1>5 DEF PageInv, PageOK, PageTypeOK, Pages
<1>7. PageTypeOK'
  <2>1. page' \in Pages /\ page.tag \in TagOrNone
    BY <1>5 DEF PageInv, PageOK, PageTypeOK, Pages, Steps
  <2>2. storage' \in [tag : TagOrNone, step : Steps, cooldown : BOOLEAN]
    <3>1. CASE storage' = storage
      BY <3>1 DEF PageInv, PageOK, PageTypeOK
    <3>2. CASE storage' = [tag |-> page.tag, step |-> "DEPLOY", cooldown |-> FALSE]
      BY <2>1, <3>2 DEF Steps
    <3>3. QED
      BY <1>5, <3>1, <3>2
  <2>3. QED
    BY <2>1, <2>2 DEF PageInv, PageOK, PageTypeOK
<1>8. TagsKnown'
  BY <1>3, <1>5, <1>6 DEF PageInv, PageOK, TagsKnown, KnownTags
<1>9. StepsKept'
  BY <1>1, <1>2, <1>5, <1>6 DEF PageInv, PageOK, StepsKept
<1>10. CountdownKept'
  BY <1>6 DEF PageInv, PageOK, CountdownKept
<1>11. QED
  BY <1>4, <1>7, <1>8, <1>9, <1>10 DEF PageOK

LEMMA SettleReceiptKeeps == ASSUME PageInv, SettleReceipt PROVE PageOK' /\ WalletInv'
<1> DEFINE s == IF hook["settle"] = "executed" THEN "success" ELSE "lost"
<1>1. /\ UNCHANGED <<vars, seen, mintSeen, elapsed, blind, reserved, inherited, arg, txs>>
      /\ hook["settle"] \in {"executed", "reverted"}
      /\ hook' = [hook EXCEPT !["settle"] = s]
      /\ SettleDecided(hook'["settle"])
  BY DEF SettleReceipt, Receipt, cacheVars, tagSources
<1>2. /\ s \in Statuses \ {"prompt"} /\ s \in {"success", "lost"} /\ "settle" \in Hooks
      /\ s = "success" => hook["settle"] = "executed"
  BY DEF Statuses, Hooks
<1> HIDE DEF s
<1>3. WalletInv'
  BY <1>1, <1>2, StatusWallet DEF PageInv
<1>4. SettleDecided(s)
  BY <1>1, PageFacts
<1>5. PageOK'
  BY <1>1, <1>2, <1>4, DecidedKeeps
<1>6. QED
  BY <1>3, <1>5

LEMMA SettleFailsKeeps == ASSUME PageInv, SettleReceiptFails PROVE PageOK' /\ WalletInv'
<1>1. /\ UNCHANGED <<vars, seen, mintSeen, elapsed, blind, reserved, inherited, arg>>
      /\ GiveUp("settle") /\ hook["settle"] \in {"mining", "executed", "reverted"}
      /\ hook' = [hook EXCEPT !["settle"] = "lost"]
      /\ SettleDecided("lost")
  BY DEF SettleReceiptFails, GiveUp, cacheVars, tagSources
<1>2. WalletInv'
  BY <1>1, GiveUpWallet DEF PageInv, Hooks
<1>3. PageOK'
  BY <1>1, DecidedKeeps
<1>4. QED
  BY <1>2, <1>3

LEMMA RegisterFailsKeeps == ASSUME PageInv, RegisterReceiptFails PROVE PageOK' /\ WalletInv'
<1>1. /\ UNCHANGED <<vars, pageVars, arg>>
      /\ GiveUp("register") /\ hook["register"] \in {"mining", "executed", "reverted"}
      /\ hook' = [hook EXCEPT !["register"] = "lost"]
  BY DEF RegisterReceiptFails, GiveUp
<1>2. WalletInv'
  BY <1>1, GiveUpWallet DEF PageInv, Hooks
<1>3. hook'["register"] = "lost" /\ hook'["settle"] = hook["settle"]
  BY <1>1, PageFacts
<1>4. OwnTags' = OwnTags /\ UNCHANGED settledFAssetDeposits
  BY <1>1 DEF OwnTags, vars, tagVars, queueVars
<1>5. PageOK'
  BY <1>1, <1>3, <1>4
  DEF pageVars, tagSources, PageInv, PageOK, PageTypeOK, TagsKnown, KnownTags, ReceiptsTrue, StepsKept, CountdownKept
<1>6. QED
  BY <1>2, <1>5

\* The user answers a prompt: what was idle stays idle, what succeeded stays so.
LEMMA AnswerKeeps == ASSUME PageInv, WalletAnswers PROVE PageOK' /\ WalletInv'
<1>1. /\ UNCHANGED <<vars, seen, mintSeen, storage, elapsed, blind, reserved, inherited, arg>>
      /\ \E h \in {"register", "settle"}, s \in {"mining", "rejected"} :
           hook[h] = "prompt" /\ hook' = [hook EXCEPT ![h] = s]
      /\ page' \in {page, [page EXCEPT !.step = "READY_TO_SETTLE"]}
      /\ page' # page => page.step = "SETTLING"
  BY DEF WalletAnswers, Confirm, Reject, Rejected, cacheVars, tagSources
<1>2. WalletInv'
  <2>1. CASE \E h \in {"register", "settle"} : Confirm(h)
    BY <2>1, ConfirmWallet DEF PageInv, Hooks
  <2>2. CASE \E h \in {"register", "settle"} : Reject(h)
    <3>1. PICK h \in {"register", "settle"} :
            hook[h] = "prompt" /\ hook' = [hook EXCEPT ![h] = "rejected"] /\ UNCHANGED <<arg, txs>>
      BY <2>2 DEF Reject
    <3>2. "rejected" \in Statuses \ {"prompt"} /\ h \in Hooks
      BY DEF Statuses, Hooks
    <3>3. QED
      BY <3>1, <3>2, StatusWallet DEF PageInv
  <2>3. QED
    BY <2>1, <2>2 DEF WalletAnswers
<1>3. PICK h \in {"register", "settle"}, s \in {"mining", "rejected"} :
        hook[h] = "prompt" /\ hook' = [hook EXCEPT ![h] = s]
  BY <1>1
<1>4. /\ hook'[h] = s
      /\ h # "register" => hook'["register"] = hook["register"]
      /\ h # "settle" => hook'["settle"] = hook["settle"]
  BY <1>3, PageFacts
<1>5. OwnTags' = OwnTags /\ UNCHANGED settledFAssetDeposits
  BY <1>1 DEF OwnTags, vars, tagVars, queueVars
<1>6. ReceiptsTrue'
  BY <1>1, <1>3, <1>4, <1>5 DEF PageInv, PageOK, ReceiptsTrue
<1>7. /\ page'.tag = page.tag /\ page'.saved = page.saved /\ page'.clock = page.clock
      /\ page'.ready = page.ready /\ page'.on = page.on
      /\ page'.step # page.step => page.step = "SETTLING" /\ page'.step = "READY_TO_SETTLE"
  <2>1. CASE page' = page
    BY <2>1
  <2>2. CASE page.step = "SETTLING" /\ page' = [page EXCEPT !.step = "READY_TO_SETTLE"]
    <3>1. page \in Pages
      BY DEF PageInv, PageOK, PageTypeOK
    <3>2. QED
      BY <2>2, <3>1 DEF Pages
  <2>3. QED
    BY <1>1, <2>1, <2>2
<1>8. PageTypeOK'
  BY <1>1 DEF PageInv, PageOK, PageTypeOK, Pages, Steps
<1>9. TagsKnown' /\ CountdownKept'
  BY <1>1, <1>5, <1>7 DEF PageInv, PageOK, TagsKnown, KnownTags, CountdownKept
<1>10. StepsKept'
  BY <1>3, <1>4, <1>7 DEF PageInv, PageOK, StepsKept
<1>11. QED
  BY <1>2, <1>6, <1>8, <1>9, <1>10 DEF PageOK

\* A transaction is executed when what its receipt will say comes true.
LEMMA MineKeeps == ASSUME PageInv, Mine PROVE PageOK' /\ WalletInv'
<1>1. txs # <<>> /\ UNCHANGED <<page, seen, mintSeen, storage, elapsed, blind, reserved, inherited>>
  BY MineChain DEF pageVars, tagSources
<1>2. PICK s \in {"executed", "reverted"}, x \in Args :
        /\ Mined(s, x)
        /\ s = "executed" => \/ /\ Head(txs).hook = "register" /\ x \in Tags
                                /\ registerMintingTag(Adapter, User, x)
                             \/ /\ Head(txs).hook = "settle" /\ x \in DepositIds
                                /\ settleDirectMint(Adapter, x)
  BY MineChain DEF Args
<1>3. /\ WalletInv' /\ Head(txs) \in Txs
      /\ ~Head(txs).watched => UNCHANGED <<hook, arg>>
      /\ Head(txs).watched =>
           /\ hook[Head(txs).hook] = "mining"
           /\ hook' = [hook EXCEPT ![Head(txs).hook] = s]
           /\ arg' = [arg EXCEPT ![Head(txs).hook] = x]
  BY <1>1, <1>2, MinedWallet DEF PageInv
<1> DEFINE h == Head(txs).hook
<1>4. /\ h \in Hooks
      /\ \A g \in {"register", "settle"} :
           \/ hook'[g] = hook[g] /\ arg'[g] = arg[g]
           \/ g = h /\ hook[g] = "mining" /\ hook'[g] = s /\ arg'[g] = x
  BY <1>3, PageFacts DEF Txs
<1>5. settledFAssetDeposits \subseteq settledFAssetDeposits' /\ OwnTags \subseteq OwnTags'
  <2>1. [Next]_vars
    BY ChainStep DEF PageNext
  <2>2. QED
    BY <2>1, ChainGrows DEF PageInv
<1>6. s = "executed" => (h = "register" => x \in OwnTags')
                     /\ (h = "settle" => x \in settledFAssetDeposits')
  <2>1. ASSUME x \in Tags, registerMintingTag(Adapter, User, x) PROVE x \in OwnTags'
    BY <2>1, PageAssumption DEF registerMintingTag, OwnTags, PageInv, IInv, TypeOK
  <2>2. ASSUME settleDirectMint(Adapter, x) PROVE x \in settledFAssetDeposits'
    BY <2>2 DEF settleDirectMint, settleFAssetDeposit
  <2>3. QED
    BY <1>2, <2>1, <2>2
<1>7. ReceiptsTrue'
  <2>1. /\ hook["settle"] \in {"executed", "success"} => arg["settle"] \in settledFAssetDeposits
        /\ hook["register"] \in {"executed", "success"} => arg["register"] \in OwnTags
    BY DEF PageInv, PageOK, ReceiptsTrue
  <2>2. hook'["settle"] \in {"executed", "success"} => arg'["settle"] \in settledFAssetDeposits'
    BY <1>2, <1>4, <1>5, <1>6, <2>1
  <2>3. hook'["register"] \in {"executed", "success"} => arg'["register"] \in OwnTags'
    BY <1>2, <1>4, <1>5, <1>6, <2>1
  <2>4. QED
    BY <2>2, <2>3 DEF ReceiptsTrue
<1>8. PageTypeOK' /\ TagsKnown' /\ CountdownKept'
  BY <1>1, <1>5 DEF PageInv, PageOK, PageTypeOK, TagsKnown, KnownTags, CountdownKept
<1>9. StepsKept'
  BY <1>1, <1>2, <1>4 DEF PageInv, PageOK, StepsKept
<1>10. QED
  BY <1>3, <1>7, <1>8, <1>9 DEF PageOK

LEMMA OthersKeep == ASSUME PageInv, Others PROVE PageOK' /\ WalletInv'
<1>1. UNCHANGED <<page, seen, mintSeen, storage, elapsed, blind, reserved, inherited, hook, arg,
                  txs>>
  BY DEF Others, walletVars, pageVars, tagSources
<1>2. settledFAssetDeposits \subseteq settledFAssetDeposits' /\ OwnTags \subseteq OwnTags'
  <2>1. [Next]_vars
    BY ChainStep DEF PageNext
  <2>2. QED
    BY <2>1, ChainGrows DEF PageInv
<1>3. QED
  BY <1>1, <1>2
  DEF PageInv, PageOK, WalletInv, PageTypeOK, TagsKnown, KnownTags, ReceiptsTrue, StepsKept, CountdownKept

LEMMA ReserveAtManagerKeeps ==
  ASSUME PageInv, NEW t \in OthersTags, ReserveAtManager(t) PROVE PageOK' /\ WalletInv'
<1>1. /\ UNCHANGED <<vars, page, seen, mintSeen, storage, elapsed, blind, inherited, hook, arg, txs>>
      /\ reserved = None /\ reserved' = t /\ t \in Tags
  BY PageAssumption DEF ReserveAtManager, walletVars, cacheVars
<1>2. OwnTags' = OwnTags /\ UNCHANGED settledFAssetDeposits
  BY <1>1 DEF OwnTags, vars, tagVars, queueVars
<1>3. TagsKnown'
  BY <1>1, <1>2 DEF PageInv, PageOK, TagsKnown, KnownTags
<1>4. CountdownKept'
  BY <1>1 DEF PageInv, PageOK, CountdownKept
<1>5. PageTypeOK'
  BY <1>1 DEF PageInv, PageOK, PageTypeOK, Pages, TagOrNone
<1>6. QED
  BY <1>1, <1>2, <1>3, <1>4, <1>5 DEF PageInv, PageOK, WalletInv, ReceiptsTrue, StepsKept

\* The tag another session leaves behind is remembered as inherited.
LEMMA SessionKeeps == ASSUME PageInv, Session PROVE PageOK' /\ WalletInv'
<1>1. PICK a \in Adapters, u \in Users, t \in OthersTags : AnotherSession(a, u, t)
  BY DEF Session
<1>2. /\ ~page.on /\ inherited' = inherited \cup {t} /\ t \in Tags
      /\ storage' = [tag |-> t, step |-> "AWAITING_DEPOSIT", cooldown |-> TRUE]
      /\ \/ UNCHANGED page
         \/ page' = [Fresh EXCEPT !.on = TRUE, !.step = "AWAITING_DEPOSIT", !.tag = t, !.clock = t]
      /\ UNCHANGED <<hook, arg, txs, seen, mintSeen, elapsed, blind, reserved>>
  BY <1>1, PageAssumption DEF AnotherSession, walletVars, cacheVars
<1>3. settledFAssetDeposits \subseteq settledFAssetDeposits' /\ OwnTags \subseteq OwnTags'
  <2>1. [Next]_vars
    BY <1>1, ChainStep, PageAssumption, SupplyAssumption DEF AnotherSession, Next
  <2>2. QED
    BY <2>1, ChainGrows DEF PageInv
<1>4. WalletInv'
  BY <1>2 DEF PageInv, WalletInv
<1>5. ReceiptsTrue'
  BY <1>2, <1>3 DEF PageInv, PageOK, ReceiptsTrue
<1>6. PageTypeOK'
  <2>1. page' \in Pages
    BY <1>2 DEF PageInv, PageOK, PageTypeOK, Pages, Fresh, Steps, TagOrNone
  <2>2. storage' \in [tag : TagOrNone, step : Steps, cooldown : BOOLEAN]
    BY <1>2 DEF Steps, TagOrNone
  <2>3. QED
    BY <1>2, <2>1, <2>2 DEF PageInv, PageOK, PageTypeOK
<1>7. CASE UNCHANGED page
  BY <1>2, <1>3, <1>4, <1>5, <1>6, <1>7
  DEF PageInv, PageOK, TagsKnown, KnownTags, StepsKept, CountdownKept
<1>8. CASE page' = [Fresh EXCEPT !.on = TRUE, !.step = "AWAITING_DEPOSIT", !.tag = t, !.clock = t]
  <2>1. /\ page'.on /\ page'.tag = t /\ page'.clock = t /\ page'.saved = None
        /\ page'.ready = FALSE /\ page'.step = "AWAITING_DEPOSIT"
    BY <1>8 DEF Fresh
  <2>2. TagsKnown' /\ CountdownKept'
    BY <1>2, <2>1 DEF TagsKnown, KnownTags, CountdownKept
  <2>3. t # None
    BY <1>2, PageFacts
  <2>4. StepsKept'
    BY <1>2, <2>1, <2>3 DEF PageInv, PageOK, StepsKept
  <2>5. QED
    BY <1>4, <1>5, <1>6, <2>2, <2>4 DEF PageOK
<1>9. QED
  BY <1>2, <1>7, <1>8

LEMMA DeadlineKeeps ==
  ASSUME PageInv, NEW t \in Tags, DeadlinePasses(t) PROVE PageOK' /\ WalletInv'
<1>1. /\ UNCHANGED <<vars, page, seen, mintSeen, storage, blind, reserved, inherited, hook, arg, txs>>
      /\ elapsed' = elapsed \cup {t}
  BY DEF DeadlinePasses, walletVars, cacheVars, tagSources
<1>2. OwnTags' = OwnTags /\ UNCHANGED settledFAssetDeposits
  BY <1>1 DEF OwnTags, vars, tagVars, queueVars
<1>3. QED
  BY <1>1, <1>2
  DEF PageInv, PageOK, WalletInv, PageTypeOK, TagsKnown, KnownTags, ReceiptsTrue, StepsKept, CountdownKept

(***************************************************************************)
(* The invariant and what follows.                                         *)
(***************************************************************************)
LEMMA InitPage == PageInit => PageInv
<1> SUFFICES ASSUME PageInit PROVE PageInv
  OBVIOUS
<1>1. IInv
  BY InitInv DEF PageInit
<1>2. WalletInv
  BY DEF PageInit, WalletInit, WalletInv, Statuses, Args, Hooks
<1>3. PageTypeOK
  BY DEF PageInit, PageTypeOK, Pages, Fresh, Steps, TagOrNone
<1>4. TagsKnown /\ ReceiptsTrue /\ StepsKept /\ CountdownKept
  BY DEF PageInit, WalletInit, Fresh, Hooks, TagsKnown, KnownTags, ReceiptsTrue, StepsKept, CountdownKept
<1>5. ExecutorsKept
  BY DEF PageInit, Init, ExecutorsKept, BotsTag
<1>6. QED
  BY <1>1, <1>2, <1>3, <1>4, <1>5 DEF PageInv, PageOK

LEMMA PageStep == PageInv /\ [PageNext]_depositVars => PageInv'
<1> SUFFICES ASSUME PageInv, [PageNext]_depositVars PROVE PageInv'
  OBVIOUS
<1>1. IInv'
  BY ChainStep, InvStep DEF PageInv
<1>2. ExecutorsKept'
  BY ExecutorsStep
<1>3. PageOK' /\ WalletInv'
  <2>1. CASE UNCHANGED walletVars
    <3>1. WalletInv'
      BY <2>1 DEF PageInv, WalletInv, walletVars
    <3>2. CASE UNCHANGED depositVars
      BY <3>1, <3>2
      DEF depositVars, tagSources, vars, tagVars, queueVars, walletVars, pageVars, OwnTags, PageInv, PageOK,
          PageTypeOK, TagsKnown, KnownTags, ReceiptsTrue, StepsKept, CountdownKept
    <3>3. QED
      BY <2>1, <3>1, <3>2, OpenKeeps, SwitchKeeps, ReserveKeeps, BackKeeps, CountdownKeeps,
         PollKeeps, PollMintKeeps, CancelKeeps, SkipKeeps, NewDepositKeeps, OthersKeep,
         DeadlineKeeps, ReserveAtManagerKeeps, SessionKeeps, LeaveKeeps, SettleKeeps, RegisterReceiptKeeps, SettleReceiptKeeps,
         SettleFailsKeeps, RegisterFailsKeeps, AnswerKeeps, MineKeeps, PageAssumption
      DEF PageNext, Receipts, Session
  <2>2. CASE Leave
    BY <2>2, LeaveKeeps, UnmountWallet DEF Leave, PageInv
  <2>3. CASE handleReserveTag \/ handleSettle \/ WalletAnswers \/ Mine
    BY <2>3, ReserveKeeps, SettleKeeps, AnswerKeeps, MineKeeps
  <2>4. CASE Receipts \/ RegisterReceiptFails \/ SettleReceiptFails
    BY <2>4, RegisterReceiptKeeps, SettleReceiptKeeps, SettleFailsKeeps, RegisterFailsKeeps
    DEF Receipts
  <2>5. PageNext => \/ UNCHANGED walletVars \/ Leave
                    \/ handleReserveTag \/ handleSettle \/ WalletAnswers \/ Mine
                    \/ Receipts \/ RegisterReceiptFails \/ SettleReceiptFails
    BY DEF PageNext, Open, SwitchFlow, BackToSelect, Countdown, PollDeposit, Polled, PollMint,
       CancelSettling, handleSkipDeploy, handleNewDeposit, Others, DeadlinePasses,
       ReserveAtManager, AnotherSession
  <2>6. QED
    BY <2>1, <2>2, <2>3, <2>4, <2>5 DEF depositVars
<1>4. QED
  BY <1>1, <1>2, <1>3 DEF PageInv

LEMMA PageInvariance == PageSpec => []PageInv
<1>1. QED
  BY InitPage, PageStep, PTL DEF PageSpec

\* The page, its wallet and the others do nothing the bridge does not allow, so
\* every theorem about DirectMint holds with the page in use.
THEOREM PageTakesBridgeSteps == PageSpec => Spec
<1>1. PageInit => Init
  BY DEF PageInit
<1>2. PageInv /\ [PageNext]_depositVars => [Next]_vars
  BY ChainStep
<1>3. QED
  BY <1>1, <1>2, PageInvariance, PTL DEF PageSpec, Spec

\* However often a settlement is asked for on the page, each deposit is credited
\* in full once, to the user of its tag.
THEOREM PageImplementsLedger == PageSpec => LedgerSpec
BY PageTakesBridgeSteps, Refinement, PTL

\* The page reaches DEPLOY and COMPLETE only when the deposit it asked to settle
\* is settled: no receipt of something else takes it there.
THEOREM DeployAfterSettle == PageSpec => []SettledBeforeDeploy
<1>1. PageInv => SettledBeforeDeploy
  BY DEF PageInv, PageOK, StepsKept, ReceiptsTrue, SettledBeforeDeploy
<1>2. QED
  BY <1>1, PageInvariance, PTL

\* A tag of the adapter shown as ready has its executor, however often the page
\* was left and opened again and whoever used it before, unless the deadline was
\* lost from localStorage.
THEOREM ReadyIsActive == PageSpec => []ReadyMeansActive
<1>1. PageInv => ReadyMeansActive
  <2> SUFFICES ASSUME PageInv, page.step = "AWAITING_DEPOSIT", page.ready, ~blind,
                      tagUser[Adapter][page.tag] # None
               PROVE  allowedExecutor[page.tag] = Bot
    BY DEF ReadyMeansActive, StepAwaitingDeposit
  <2>1. page.tag \in Tags /\ page.tag \in elapsed \cup {reserved}
    BY DEF PageInv, PageOK, StepsKept, CountdownKept, PageTypeOK, Pages, TagOrNone
  <2>2. mintingRecipient[page.tag] = Adapter
    BY <2>1, PageAssumption DEF PageInv, IInv, TagOwner
  <2>3. page.tag # reserved
    BY <2>1, <2>2, PageAssumption, NoneAssumption DEF PageInv, ExecutorsKept
  <2>4. QED
    BY <2>1, <2>2, <2>3 DEF PageInv, ExecutorsKept, BotsTag
<1>2. QED
  BY <1>1, PageInvariance, PTL

\* The tag the user is asked to pay to is one the contracts credit to the user, or
\* it comes from the manager's list or from somebody else's session.
THEOREM AwaitedTagIsOwn == PageSpec => []AwaitsOwnTag
<1>1. PageInv => AwaitsOwnTag
  BY DEF PageInv, PageOK, StepsKept, TagsKnown, KnownTags, OwnTags, AwaitsOwnTag
<1>2. QED
  BY <1>1, PageInvariance, PTL
==============================================================================
