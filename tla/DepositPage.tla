----------------------------- MODULE DepositPage ------------------------------
(***************************************************************************)
(* The FAsset flow of the deposit page, composed with the contracts it     *)
(* talks to: one user reserves a minting tag, waits for the XRPL payment   *)
(* to be bridged, settles it and goes on to the strategy.                  *)
(*                                                                         *)
(* A step of the page is one React event with the effects it triggers.     *)
(* What outlives the component is the query cache of the app and           *)
(* localStorage; what outlives neither is the component's state, lost when *)
(* the user leaves the page.  The page knows its tag from the receipt,     *)
(* from localStorage, which knows no accounts and no adapters, or from     *)
(* reservedTagsForOwner(user).  That never lists a tag of the adapter: the *)
(* adapter owns those, and the user what he reserved at the manager        *)
(* himself.                                                                *)
(***************************************************************************)
EXTENDS DirectMint, WalletHooks

CONSTANTS
  Adapter, User, Bot,   \* the adapter of the app, its user, the executor
  OthersTags,           \* bound: tags the manager does not hand out to the user's page
  MaxEvents             \* bound: tags of others, and FAssets that arrive, together

ASSUME PageAssumption ==
  /\ Adapter \in Adapters /\ User \in Users /\ Bot \in Executors
  /\ None \notin Tags   \* null is no tag
  /\ OthersTags \subseteq Tags
  /\ MaxSupply >= 1

VARIABLES
  page,       \* state of the component
  seen,       \* query cache: pendingDepositForTag, for each tag
  mintSeen,   \* query cache: deposits whose pendingDirectMints entry was there
  storage,    \* localStorage["flux-deposit-state"]
  reserved,   \* reservedTagsForOwner(User)[0]
  elapsed,    \* tags whose TAG_COOLDOWN_SECONDS are over
  blind,      \* history: the page was opened when storage had lost a deadline
  inherited   \* history: tags this browser kept for another account or adapter

cacheVars == <<seen, mintSeen>>
tagSources == <<reserved, inherited>>
pageVars == <<page, seen, mintSeen, storage, elapsed, blind, tagSources>>
depositVars == <<vars, walletVars, pageVars>>

Fresh ==
  [on |-> FALSE, flow |-> "FASSET", step |-> "SELECT", tag |-> None, id |-> None,
   saved |-> None, clock |-> None, ready |-> FALSE, fetching |-> FALSE]

PageInit ==
  /\ Init /\ fAssetAdapter = Adapter /\ defaultDirectMintExecutor[Adapter] = Bot
  /\ WalletInit(None)
  /\ page = Fresh
  /\ seen = [t \in Tags |-> None] /\ mintSeen = {}
  /\ storage = [tag |-> None, step |-> "SELECT", cooldown |-> FALSE]
  /\ elapsed = {} /\ blind = FALSE
  /\ reserved = None /\ inherited = {}

Busy(h) == hook[h] \in {"prompt", "mining", "executed", "reverted"}

\* saveState: a new object, without the cooldown that was there before.
saveState(step, tag) ==
  storage' = [tag |-> tag, step |-> step, cooldown |-> FALSE]

(***************************************************************************)
(* Opening and leaving the page; the other flow has its own steps.         *)
(***************************************************************************)

LostDeadline == storage.tag # None /\ ~storage.cooldown /\ storage.tag \notin elapsed

\* Mutant of Open: a deadline that still runs counts as expired.
OpenReady ==
  /\ ~page.on
  /\ page' = [Fresh EXCEPT !.on = TRUE, !.saved = storage.tag,
                           !.ready = storage.cooldown
                                     \/ storage.step = "AWAITING_DEPOSIT"]
  /\ blind' = LostDeadline
  /\ UNCHANGED <<vars, walletVars, cacheVars, storage, elapsed, tagSources>>

Open ==
  LET running == storage.cooldown /\ storage.tag \notin elapsed IN
  /\ ~page.on
  /\ page' = [Fresh EXCEPT
       !.on = TRUE,
       !.saved = storage.tag,
       !.clock = IF running THEN storage.tag ELSE None,
       !.ready = ~running /\ storage.tag # None
                   /\ (storage.cooldown \/ storage.step = "AWAITING_DEPOSIT")]
  /\ blind' = LostDeadline
  /\ UNCHANGED <<vars, walletVars, cacheVars, storage, elapsed, tagSources>>

Leave ==
  /\ page.on
  /\ page' = Fresh
  /\ Unmount(None)
  /\ UNCHANGED <<vars, cacheVars, storage, elapsed, blind, tagSources>>

\* A poll of AWAITING_DEPOSIT may be under way when its step is left.
SwitchFlow(flow) ==
  /\ page.on
  /\ \E fetching \in {page.fetching, page.step = "AWAITING_DEPOSIT"} :
       page' = [page EXCEPT !.flow = flow, !.fetching = fetching,
                            !.step = IF flow = "FASSET" THEN "SELECT" ELSE "ERC4626_SELECT"]
  /\ UNCHANGED <<vars, walletVars, cacheVars, storage, elapsed, blind, tagSources>>

At(step) == page.on /\ page.flow = "FASSET" /\ page.step = step

\* The component of each step: when its button can be clicked.
StepSelectAsset == At("SELECT") /\ ~Busy("register")
StepReserving == At("RESERVE_TAG") /\ hook["register"] \in {"rejected", "lost"}
StepReadyToSettle == At("READY_TO_SETTLE") /\ page.id \in mintSeen /\ ~Busy("settle")
StepSettling == At("SETTLING")
StepComplete == At("COMPLETE")

\* StepAwaitingDeposit tells the user to send XRP; before, it counts down.
StepAwaitingDeposit == page.step = "AWAITING_DEPOSIT" /\ page.ready

(***************************************************************************)
(* The tag.                                                                *)
(***************************************************************************)

\* The effect on pendingDeposit fires when its value changes, also when it comes
\* from the cache for a tag that is new to the component.
AwaitDepositFor(t) ==
  IF t # page.tag /\ seen[t] # None
  THEN /\ page' = [page EXCEPT !.tag = t, !.id = seen[t], !.fetching = TRUE,
                               !.step = "READY_TO_SETTLE"]
       /\ saveState("READY_TO_SETTLE", t)
  ELSE /\ page' = [page EXCEPT !.tag = t, !.fetching = FALSE,
                               !.step = "AWAITING_DEPOSIT"]
       /\ saveState("AWAITING_DEPOSIT", t)

\* Until reservedTagsForOwner has answered, it counts as empty.
handleReserveTag ==
  /\ StepSelectAsset \/ StepReserving
  /\ \/ /\ reserved # None
        /\ AwaitDepositFor(reserved)
        /\ UNCHANGED walletVars
     \/ /\ page.saved # None
        /\ AwaitDepositFor(page.saved)
        /\ UNCHANGED walletVars
     \/ /\ page.saved = None
        /\ writeContract("register", None)
        /\ page' = [page EXCEPT !.step = "RESERVE_TAG"]
        /\ UNCHANGED storage
  /\ UNCHANGED <<vars, cacheVars, elapsed, blind, tagSources>>

BackToSelect ==
  /\ StepReserving
  /\ page' = [page EXCEPT !.step = "SELECT"]
  /\ UNCHANGED <<vars, walletVars, cacheVars, storage, elapsed, blind, tagSources>>

\* The receipt is read in step RESERVE_TAG only.
RegisterReceipt ==
  /\ Receipt("register")
  /\ IF hook["register"] = "executed" /\ page.step = "RESERVE_TAG"
     THEN /\ page' = [page EXCEPT !.tag = arg["register"], !.step = "AWAITING_DEPOSIT",
                                  !.clock = arg["register"], !.ready = FALSE,
                                  !.fetching = FALSE]
          /\ storage' = [tag |-> arg["register"], step |-> "AWAITING_DEPOSIT",
                         cooldown |-> TRUE]
     ELSE UNCHANGED <<page, storage>>
  /\ UNCHANGED <<vars, cacheVars, elapsed, blind, tagSources>>

\* The countdown of the page reaches zero.
Countdown ==
  /\ page.on /\ ~page.ready /\ page.clock \in elapsed
  /\ page' = [page EXCEPT !.ready = TRUE]
  /\ UNCHANGED <<vars, walletVars, cacheVars, storage, elapsed, blind, tagSources>>

(***************************************************************************)
(* The deposit.                                                            *)
(***************************************************************************)
Polling == page.on /\ page.tag # None /\ (page.step = "AWAITING_DEPOSIT" \/ page.fetching)

Polled ==
  LET d == pendingDepositForTag[Adapter][page.tag] IN
  /\ seen' = [seen EXCEPT ![page.tag] = d]
  /\ IF d # None /\ d # seen[page.tag]
     THEN /\ page' = [page EXCEPT !.id = d, !.step = "READY_TO_SETTLE", !.fetching = FALSE]
          /\ saveState("READY_TO_SETTLE", page.tag)
     ELSE /\ page' = [page EXCEPT !.fetching = FALSE]
          /\ UNCHANGED storage
  /\ UNCHANGED <<vars, walletVars, mintSeen, elapsed, blind, tagSources>>

\* Mutant of PollDeposit: polls only once the tag is shown as ready.
PollWhenReady == Polling /\ page.ready /\ Polled

PollDeposit == Polling /\ Polled

\* Every 3 s in READY_TO_SETTLE.
PollMint ==
  /\ page.on /\ page.step = "READY_TO_SETTLE" /\ page.id # None
  /\ mintSeen' = IF Pending(Adapter, page.id) THEN mintSeen \cup {page.id}
                 ELSE mintSeen \ {page.id}
  /\ UNCHANGED <<vars, walletVars, page, seen, storage, elapsed, blind, tagSources>>

handleSettle ==
  /\ StepReadyToSettle
  /\ writeContract("settle", page.id)
  /\ page' = [page EXCEPT !.step = "SETTLING"]
  /\ UNCHANGED <<vars, cacheVars, storage, elapsed, blind, tagSources>>

CancelSettling ==
  /\ StepSettling
  /\ page' = [page EXCEPT !.step = "READY_TO_SETTLE"]
  /\ UNCHANGED <<vars, walletVars, cacheVars, storage, elapsed, blind, tagSources>>

\* Mutant of SettleDecided: what is no longer loading has succeeded.
SettleAnyway(outcome) ==
  /\ page' = [page EXCEPT !.step = "DEPLOY"]
  /\ saveState("DEPLOY", page.tag)

\* The effect on the receipt: from whatever step, in whichever flow.
SettleDecided(outcome) ==
  IF outcome = "success"
  THEN /\ page' = [page EXCEPT !.step = "DEPLOY"]
       /\ saveState("DEPLOY", page.tag)
  ELSE /\ page' = [page EXCEPT !.step = "READY_TO_SETTLE"]
       /\ UNCHANGED storage

SettleReceipt ==
  /\ Receipt("settle")
  /\ SettleDecided(hook'["settle"])
  /\ UNCHANGED <<vars, cacheVars, elapsed, blind, tagSources>>

SettleReceiptFails ==
  /\ GiveUp("settle")
  /\ SettleDecided("lost")
  /\ UNCHANGED <<vars, cacheVars, elapsed, blind, tagSources>>

RegisterReceiptFails ==
  /\ GiveUp("register")
  /\ UNCHANGED <<vars, pageVars>>

handleSkipDeploy ==
  /\ At("DEPLOY")
  /\ page' = [page EXCEPT !.step = "COMPLETE"]
  /\ UNCHANGED <<vars, walletVars, cacheVars, storage, elapsed, blind, tagSources>>

\* Mutant of handleNewDeposit: starts over as handleReset does.
newDepositAfterReset ==
  /\ StepComplete
  /\ page' = [page EXCEPT !.id = None, !.tag = None, !.clock = None, !.ready = FALSE,
                          !.fetching = FALSE, !.step = "AWAITING_DEPOSIT"]
  /\ saveState("AWAITING_DEPOSIT", page.tag)
  /\ UNCHANGED <<vars, walletVars, cacheVars, elapsed, blind, tagSources>>

\* "Deposit Again (Same Tag)".
handleNewDeposit ==
  /\ StepComplete
  /\ page' = [page EXCEPT !.id = None, !.clock = None, !.ready = FALSE,
                          !.fetching = FALSE, !.step = "AWAITING_DEPOSIT"]
  /\ saveState("AWAITING_DEPOSIT", page.tag)
  /\ UNCHANGED <<vars, walletVars, cacheVars, elapsed, blind, tagSources>>

(***************************************************************************)
(* The wallet and the chain.                                               *)
(***************************************************************************)

\* Mutant of Rejected: nobody tells the page.
RejectedUnnoticed == UNCHANGED page

\* The effect that detects a rejection of settleDirectMint.
Rejected ==
  page' = IF page.step = "SETTLING" THEN [page EXCEPT !.step = "READY_TO_SETTLE"]
          ELSE page

WalletAnswers ==
  /\ \/ \E h \in {"register", "settle"} : Confirm(h) /\ UNCHANGED page
     \/ Reject("register") /\ UNCHANGED page
     \/ Reject("settle") /\ Rejected
  /\ UNCHANGED <<vars, cacheVars, storage, elapsed, blind, tagSources>>

Mine ==
  /\ txs # <<>>
  /\ \/ /\ Head(txs).hook = "register"
        /\ \/ \E t \in Tags \ OthersTags :
                registerMintingTag(Adapter, User, t) /\ Mined("executed", t)
           \/ Mined("reverted", None) /\ UNCHANGED vars
     \/ /\ Head(txs).hook = "settle"
        /\ LET d == Head(txs).arg IN
           \/ settleDirectMint(Adapter, d) /\ Mined("executed", d)
           \/ /\ ~ENABLED settleDirectMint(Adapter, d)
              /\ Mined("reverted", d) /\ UNCHANGED vars
  /\ UNCHANGED pageVars

Events == supply + Cardinality({reserved} \ {None}) + Cardinality(inherited)

\* Ids are hashes, so it does not matter which one the next payment has.
NextPayment ==
  LET unused == DepositIds \ processedDirectMints[Adapter] IN
  {d \in unused : d = CHOOSE x \in unused : TRUE}

\* What others do: the manager activates the executor, the executor bridges
\* payments, anybody settles.  The contracts stay unpaused and in place.
Others ==
  /\ \/ \E t \in Tags : ExecutorCooldownElapses(t)
     \/ Events < MaxEvents /\ FAssetsArrive(Adapter, 1)
     \/ \E t \in Tags, d \in NextPayment : processDirectMint(Adapter, Bot, t, d, 1)
     \/ \E d \in DepositIds : settleDirectMint(Adapter, d)
  /\ UNCHANGED <<walletVars, pageVars>>

\* The two minutes of the page are the estimate they are meant to be: they end
\* after the cooldown of the manager.
DeadlinePasses(t) ==
  /\ t \notin elapsed
  /\ allowedExecutor[t] # None
  /\ elapsed' = elapsed \cup {t}
  /\ UNCHANGED <<vars, walletVars, page, cacheVars, storage, blind, tagSources>>

\* Anybody can reserve a tag at the MintingTagManager itself; no adapter knows it.
ReserveAtManager(t) ==
  /\ reserved = None /\ mintingRecipient[t] = None /\ Events < MaxEvents
  /\ reserved' = t
  /\ UNCHANGED <<vars, walletVars, page, cacheVars, storage, elapsed, blind, inherited>>

\* Before the user, another account has registered a tag on this page, or an
\* account with an earlier adapter of the app.  Its state is still in localStorage,
\* and on the page too if the wallet was only switched to the user's account.
AnotherSession(a, u, t) ==
  /\ ~page.on /\ <<a, u>> # <<Adapter, User>> /\ t # reserved /\ Events < MaxEvents
  /\ registerMintingTag(a, u, t)
  /\ inherited' = inherited \cup {t}
  /\ storage' = [tag |-> t, step |-> "AWAITING_DEPOSIT", cooldown |-> TRUE]
  /\ \/ UNCHANGED page
     \/ /\ a = Adapter
        /\ page' = [Fresh EXCEPT !.on = TRUE, !.step = "AWAITING_DEPOSIT", !.tag = t,
                                 !.clock = t]
  /\ UNCHANGED <<walletVars, cacheVars, elapsed, blind, reserved>>

Receipts == RegisterReceipt \/ SettleReceipt

PageNext ==
  \/ Open \/ Leave
  \/ \E flow \in {"FASSET", "ERC4626"} : SwitchFlow(flow)
  \/ handleReserveTag \/ BackToSelect \/ Countdown
  \/ PollDeposit \/ PollMint
  \/ handleSettle \/ CancelSettling
  \/ handleSkipDeploy \/ handleNewDeposit
  \/ WalletAnswers \/ Mine
  \/ Receipts \/ RegisterReceiptFails \/ SettleReceiptFails
  \/ Others
  \/ \E t \in Tags : DeadlinePasses(t)
  \/ \E t \in OthersTags : ReserveAtManager(t)
  \/ \E t \in OthersTags : \/ \E u \in Users : AnotherSession(Adapter, u, t)
                           \/ \E a \in Adapters : AnotherSession(a, User, t)

\* The query client polls, a node answers, blocks are produced and the user
\* answers the wallet; nobody has to click anything in the page.
PageSpec ==
  /\ PageInit /\ [][PageNext]_depositVars
  /\ WF_depositVars(PollDeposit)
  /\ WF_depositVars(WalletAnswers) /\ WF_depositVars(Mine) /\ WF_depositVars(Receipts)

(***************************************************************************)
(* Properties.                                                             *)
(***************************************************************************)

\* The page offers to deploy capital only when the deposit it asked to settle
\* has been credited, although a receipt moves it there from any step, after
\* cancelling, switching flows, rejections and reverts.
SettledBeforeDeploy ==
  page.step \in {"DEPLOY", "COMPLETE"} => arg["settle"] \in settledFAssetDeposits

\* "Your tag is ready. Send XRP": the executor can process a payment to the tag
\* on display, if it is a tag of the adapter at all, through leaving and
\* reopening the page and changing between tags and accounts - unless the page
\* was opened after saveState had overwritten the deadline of the tag while it
\* ran.
ReadyMeansActive ==
  StepAwaitingDeposit /\ ~blind /\ tagUser[Adapter][page.tag] # None =>
    allowedExecutor[page.tag] = Bot

\* The tag the page asks to send XRP to is registered for its user, however
\* receipts, rejections and detours follow each other.  It is not in two cases
\* only: the user has reserved a tag at the manager, which the page takes first,
\* or localStorage held the tag of another account or of an earlier adapter.
AwaitsOwnTag ==
  page.step = "AWAITING_DEPOSIT" =>
    \/ page.tag \in Tags /\ tagUser[Adapter][page.tag] = User
    \/ page.tag # None /\ page.tag \in {reserved} \cup inherited

\* A bridged payment the page has not seen yet is noticed while the page waits
\* for it, whatever the countdown shows and whatever was cached before.
Waiting(d) ==
  page.step = "AWAITING_DEPOSIT" /\ pendingDepositForTag[Adapter][page.tag] = d
DepositNoticed ==
  \A d \in DepositIds : Waiting(d) /\ seen[page.tag] # d ~> page.id = d \/ ~Waiting(d)

\* The page does not stay in SETTLING: the user's rejection, a revert and a
\* receipt that never comes all take it on.
SettlingEnds == page.step = "SETTLING" ~> page.step # "SETTLING"
==============================================================================
