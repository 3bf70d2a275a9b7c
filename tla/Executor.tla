------------------------------ MODULE Executor -------------------------------
(***************************************************************************)
(* The executor bot, composed with the contracts of DirectMint: it watches *)
(* the XRPL account of the core vault, provisions FXRP to the adapter for  *)
(* every payment and calls processDirectMint.                              *)
(*                                                                         *)
(* The bot is one thread: a step here is what runs between two awaits of a *)
(* call to a node (XRPL or Flare).  Polls may overlap, since setInterval   *)
(* does not wait for the last one, and websocket events come in between.   *)
(* A crash loses everything but the store file and the transactions that   *)
(* the chain already has.                                                  *)
(***************************************************************************)
EXTENDS DirectMint, SequencesExt

CONSTANTS
  Adapter,      \* the FAssetAdapter the bot is configured with
  Bot,          \* its account
  PollSlots,    \* bound: polls that overlap
  PollLimit,    \* `limit` of account_tx
  NoTag,        \* the tag of a transaction the watcher skips
  MaxAmount,    \* bound: FXRP units of one payment
  MaxLedger,    \* bound: ledgers of XRPL
  Wallet,       \* FXRP the bot starts with
  MaxFaults     \* bound: crashes, failed requests and lost receipts

ASSUME BotAssumption == Adapter \in Adapters /\ Bot \in Executors
ASSUME TagAssumption == NoTag \notin Tags
ASSUME ExecutorBounds ==
  /\ PollLimit \in Nat \ {0} /\ MaxAmount \in Nat /\ MaxLedger \in Nat
  /\ Wallet \in Nat /\ MaxFaults \in Nat
  \* Deposit ids are the positions of the payments in the account's history.
  /\ IsFiniteSet(DepositIds) /\ DepositIds = 1 .. Cardinality(DepositIds)

VARIABLES
  xrpl,          \* validated transactions of the core vault account, in order
  events,        \* those whose websocket event is still to be delivered
  lastSeenLedger,
  polls,         \* the poll() calls that have not returned
  proc,          \* the payment between processing = true and = false
  store,         \* processedTxHashes, in memory and in the file
  wallet,        \* FXRP of the bot
  txs,           \* its transactions that are not mined yet, by nonce
  handed,        \* history: payments handed to the handler, taken or turned away
  short,         \* history: payments it took FXRP found on the adapter for
  faults

execVars == <<xrpl, events, lastSeenLedger, polls, proc, store, wallet, txs,
              handed, short, faults>>
allVars == <<vars, execVars>>

Idle == [pc |-> "idle"]
IdlePoll == [pc |-> "idle"]

ExecInit ==
  /\ Init
  /\ fAssetAdapter = Adapter
  /\ defaultDirectMintExecutor[Adapter] = Bot
  /\ xrpl = <<>>
  /\ events = {}
  /\ lastSeenLedger = 0     \* -1 in the code: before every ledger
  /\ polls = [s \in PollSlots |-> IdlePoll]
  /\ proc = Idle
  /\ store = {}
  /\ wallet = Wallet
  /\ txs = <<>>
  /\ handed = {} /\ short = {}
  /\ faults = 0

Fault ==
  /\ faults < MaxFaults
  /\ faults' = faults + 1

(***************************************************************************)
(* The watcher and the payment handler of main().                          *)
(***************************************************************************)
Unseen(lo, hi, stored) == {i \in lo .. hi : xrpl[i].tag # NoTag /\ i \notin stored}

\* processing = true: processPayment runs to its first await.
StartPayment(i, owner) ==
  proc' = [pc |-> "tagUser", payment |-> i, owner |-> owner,
           adapterBalance |-> None, totalPending |-> None, observed |-> None]

\* The cursor moves before the handler runs, past every entry it looks at.
AdvanceCursor(i) == lastSeenLedger' = Max({lastSeenLedger, xrpl[i].ledger})

\* The loop of poll() over entries lo .. hi while nothing is being processed:
\* up to the first payment that is not in the store, which it awaits.
ScanPage(slot, lo, hi, stored) ==
  \/ /\ Unseen(lo, hi, stored) # {}
     /\ LET i == Min(Unseen(lo, hi, stored)) IN
          /\ StartPayment(i, slot)
          /\ handed' = handed \cup {i}
          /\ AdvanceCursor(i)
          /\ polls' = [polls EXCEPT ![slot] = [pc |-> "blocked", lo |-> i + 1, hi |-> hi]]
  \/ /\ Unseen(lo, hi, stored) = {}
     /\ proc' = Idle /\ UNCHANGED handed
     /\ IF lo <= hi THEN AdvanceCursor(hi) ELSE UNCHANGED lastSeenLedger
     /\ polls' = [polls EXCEPT ![slot] = IdlePoll]

\* Mutant of PageStart: the entries of the last ledger seen are left out.
PageStartAfter(from) == Cardinality({i \in DOMAIN xrpl : xrpl[i].ledger <= from}) + 1

\* account_tx from `from`: the first PollLimit entries of that ledger and later.
PageStart(from) == Cardinality({i \in DOMAIN xrpl : xrpl[i].ledger < from}) + 1

PageEnd(from) == Min({Len(xrpl), PageStart(from) + PollLimit - 1})

StartPoll(slot) ==
  /\ polls[slot].pc = "idle"
  /\ polls' = [polls EXCEPT ![slot] = [pc |-> "requested", from |-> lastSeenLedger]]
  /\ UNCHANGED <<vars, xrpl, events, lastSeenLedger, proc, store, wallet, txs,
                 handed, short, faults>>

\* Mutant of PollResponse: the cursor excludes the last ledger it has seen.
PollResponseExclusive(slot) ==
  /\ polls[slot].pc = "requested"
  /\ LET lo == PageStart(polls[slot].from + 1)
         hi == PageEnd(polls[slot].from + 1) IN
       IF proc = Idle
       THEN ScanPage(slot, lo, hi, store)
       ELSE /\ UNCHANGED proc
            /\ IF lo <= hi THEN AdvanceCursor(hi) ELSE UNCHANGED lastSeenLedger
            /\ polls' = [polls EXCEPT ![slot] = IdlePoll]
            /\ handed' = handed \cup Unseen(lo, hi, store)
  /\ UNCHANGED <<vars, xrpl, events, store, wallet, txs, short, faults>>

PollResponse(slot) ==
  /\ polls[slot].pc = "requested"
  /\ LET lo == PageStart(polls[slot].from)
         hi == PageEnd(polls[slot].from) IN
       IF proc = Idle
       THEN ScanPage(slot, lo, hi, store)
       ELSE /\ UNCHANGED proc
            /\ IF lo <= hi THEN AdvanceCursor(hi) ELSE UNCHANGED lastSeenLedger
            /\ polls' = [polls EXCEPT ![slot] = IdlePoll]
            /\ handed' = handed \cup Unseen(lo, hi, store)
  /\ UNCHANGED <<vars, xrpl, events, store, wallet, txs, short, faults>>

PollFails(slot) ==
  /\ polls[slot].pc = "requested"
  /\ Fault
  /\ polls' = [polls EXCEPT ![slot] = IdlePoll]
  /\ UNCHANGED <<vars, xrpl, events, lastSeenLedger, proc, store, wallet, txs,
                 handed, short>>

\* handleTxEvent; an event never moves the cursor.
TxEvent(i) ==
  /\ i \in events
  /\ events' = events \ {i}
  /\ IF i \in store THEN UNCHANGED <<proc, handed>>
     ELSE /\ handed' = handed \cup {i}
          /\ IF proc # Idle THEN UNCHANGED proc ELSE StartPayment(i, None)
  /\ UNCHANGED <<vars, xrpl, lastSeenLedger, polls, store, wallet, txs, short, faults>>

EventLost(i) ==
  /\ i \in events
  /\ Fault
  /\ events' = events \ {i}
  /\ UNCHANGED <<vars, xrpl, lastSeenLedger, polls, proc, store, wallet, txs,
                 handed, short>>

(***************************************************************************)
(* processPayment.                                                         *)
(***************************************************************************)
watcherVars == <<xrpl, events>>

\* The `finally` of the handler; a poll that awaited it goes on with its page.
Finish(stored) ==
  IF proc.owner = None
  THEN proc' = Idle /\ UNCHANGED <<lastSeenLedger, polls, handed>>
  ELSE ScanPage(proc.owner, polls[proc.owner].lo, polls[proc.owner].hi,
                stored)

GoTo(next) ==
  /\ proc' = next
  /\ UNCHANGED <<lastSeenLedger, polls, handed>>

Payment == xrpl[proc.payment]
Running(pc) == proc # Idle /\ proc.pc = pc

ReadTagUser ==
  /\ Running("tagUser")
  /\ IF tagUser[Adapter][Payment.tag] = None
     THEN Finish(store)
     ELSE GoTo([proc EXCEPT !.pc = "pendingDeposit"])
  /\ UNCHANGED <<vars, watcherVars, store, wallet, txs, short, faults>>

ReadPendingDeposit ==
  /\ Running("pendingDeposit")
  /\ IF pendingDepositForTag[Adapter][Payment.tag] # None
     THEN Finish(store)
     ELSE GoTo([proc EXCEPT !.pc = "balances"])
  /\ UNCHANGED <<vars, watcherVars, store, wallet, txs, short, faults>>

\* Promise.all reads the balances in any order, the bot's own with the last one.
ReadAdapterBalance ==
  /\ Running("balances")
  /\ proc.adapterBalance = None
  /\ GoTo([proc EXCEPT !.adapterBalance = balance[Adapter]])
  /\ UNCHANGED <<vars, watcherVars, store, wallet, txs, short, faults>>

ReadTotalPending ==
  /\ Running("balances")
  /\ proc.totalPending = None
  /\ GoTo([proc EXCEPT !.totalPending = totalPendingFAssets[Adapter]])
  /\ UNCHANGED <<vars, watcherVars, store, wallet, txs, short, faults>>

BalancesRead ==
  /\ Running("balances")
  /\ proc.adapterBalance # None /\ proc.totalPending # None

\* Mutant of SubmitTransfer: a wallet that is short sends what it has.
SubmitWhatIsLeft ==
  /\ BalancesRead
  /\ wallet > 0
  /\ GoTo([proc EXCEPT !.pc = "transfer"])
  /\ txs' = Append(txs, [kind |-> "transfer",
                         amount |-> IF wallet < Payment.amount THEN wallet ELSE Payment.amount,
                         payment |-> proc.payment, awaited |-> TRUE])
  /\ UNCHANGED <<vars, watcherVars, store, wallet, short, faults>>

\* Transfers the FXRP of the payment, although the adapter may hold it already.
SubmitTransfer ==
  /\ BalancesRead
  /\ wallet >= Payment.amount
  /\ GoTo([proc EXCEPT !.pc = "transfer"])
  /\ txs' = Append(txs, [kind |-> "transfer", amount |-> Payment.amount,
                         payment |-> proc.payment, awaited |-> TRUE])
  /\ UNCHANGED <<vars, watcherVars, store, wallet, short, faults>>

UseExistingBalance ==
  /\ BalancesRead
  /\ wallet < Payment.amount
  /\ IF proc.adapterBalance >= proc.totalPending + Payment.amount
     THEN GoTo([proc EXCEPT !.pc = "finalBalance"]) /\ short' = short \cup {proc.payment}
     ELSE Finish(store) /\ UNCHANGED short
  /\ UNCHANGED <<vars, watcherVars, store, wallet, txs, faults>>

ReadFinalBalance ==
  /\ Running("finalBalance")
  /\ GoTo([proc EXCEPT !.pc = "finalTotal", !.adapterBalance = balance[Adapter]])
  /\ UNCHANGED <<vars, watcherVars, store, wallet, txs, short, faults>>

\* The two reads are of two blocks: a settlement may fall between them.
ReadFinalTotal ==
  /\ Running("finalTotal")
  /\ IF proc.adapterBalance <= totalPendingFAssets[Adapter]
     THEN Finish(store)
     ELSE GoTo([proc EXCEPT !.pc = "submit",
            !.observed = proc.adapterBalance - totalPendingFAssets[Adapter]])
  /\ UNCHANGED <<vars, watcherVars, store, wallet, txs, short, faults>>

DirectMintSucceeds(i, observed) ==
  ENABLED processDirectMint(Adapter, Bot, xrpl[i].tag, i, observed)

\* writeContract estimates the gas first and throws if the call would revert.
\* The ABI of the bot names no error, so the catch block recognises none of
\* them and the payment is not stored.
SubmitDirectMint ==
  /\ Running("submit")
  /\ IF DirectMintSucceeds(proc.payment, proc.observed)
     THEN /\ GoTo([proc EXCEPT !.pc = "mint"])
          /\ txs' = Append(txs, [kind |-> "mint", amount |-> proc.observed,
                                 payment |-> proc.payment, awaited |-> TRUE])
     ELSE Finish(store) /\ UNCHANGED txs
  /\ UNCHANGED <<vars, watcherVars, store, wallet, short, faults>>

\* Mutant of ReceiveMintReceipt: a reverted direct mint is stored as well.
StoreAnyReceipt(success) ==
  /\ store' = store \cup {proc.payment}
  /\ Finish(store \cup {proc.payment})

ReceiveMintReceipt(success) ==
  LET stored == IF success THEN store \cup {proc.payment} ELSE store IN
  /\ store' = stored
  /\ Finish(stored)

ReceiveTransferReceipt(success) ==
  /\ UNCHANGED store
  /\ IF success THEN GoTo([proc EXCEPT !.pc = "finalBalance"]) ELSE Finish(store)

\* The chain executes the bot's next transaction; if the bot still waits for
\* the receipt it goes on.
MineTransfer ==
  /\ txs # <<>> /\ Head(txs).kind = "transfer"
  /\ LET tx == Head(txs) success == wallet >= tx.amount IN
       /\ IF success
          THEN FAssetsArrive(Adapter, tx.amount) /\ wallet' = wallet - tx.amount
          ELSE UNCHANGED <<vars, wallet>>
       /\ IF tx.awaited THEN ReceiveTransferReceipt(success)
                        ELSE UNCHANGED <<proc, lastSeenLedger, polls, handed, store>>
  /\ txs' = Tail(txs)
  /\ UNCHANGED <<watcherVars, short, faults>>

MineDirectMint ==
  /\ txs # <<>> /\ Head(txs).kind = "mint"
  /\ LET tx == Head(txs) success == DirectMintSucceeds(tx.payment, tx.amount) IN
       /\ IF success
          THEN processDirectMint(Adapter, Bot, xrpl[tx.payment].tag, tx.payment, tx.amount)
          ELSE UNCHANGED vars
       /\ IF tx.awaited THEN ReceiveMintReceipt(success)
                        ELSE UNCHANGED <<proc, lastSeenLedger, polls, handed, store>>
  /\ txs' = Tail(txs)
  /\ UNCHANGED <<watcherVars, wallet, short, faults>>

Abandoned == [i \in DOMAIN txs |-> [txs[i] EXCEPT !.awaited = FALSE]]

\* A read fails, or waitForTransactionReceipt times out: processPayment throws
\* and the handler swallows it; a submitted transaction lives on.
RequestFails ==
  /\ proc # Idle
  /\ Fault
  /\ Finish(store)
  /\ txs' = Abandoned
  /\ UNCHANGED <<vars, watcherVars, store, wallet, short>>

\* The process restarts: only the store file survives.
Restart(stored) ==
  /\ Fault
  /\ events' = {}
  /\ lastSeenLedger' = 0
  /\ polls' = [s \in PollSlots |-> IdlePoll]
  /\ proc' = Idle
  /\ store' = stored
  /\ UNCHANGED <<xrpl, wallet, handed, short>>

Crash ==
  /\ Restart(store)
  /\ txs' = Abandoned
  /\ UNCHANGED vars

\* Killed while it writes the store after a direct mint: the file does not
\* parse and the next process starts with an empty store.
CrashWhileSaving ==
  /\ txs # <<>> /\ Head(txs).kind = "mint" /\ Head(txs).awaited
  /\ LET tx == Head(txs) IN
       processDirectMint(Adapter, Bot, xrpl[tx.payment].tag, tx.payment, tx.amount)
  /\ Restart({})
  /\ txs' = Tail(txs)

(***************************************************************************)
(* The environment: payments, and what others do with the contracts.  The  *)
(* adapter stays the vault's, and only the bot sends it FXRP.              *)
(***************************************************************************)
LastLedger == IF xrpl = <<>> THEN 1 ELSE Last(xrpl).ledger

PaymentValidated(ledger, tag, amount) ==
  /\ Len(xrpl) < Cardinality(DepositIds)
  /\ ledger >= LastLedger
  /\ xrpl' = Append(xrpl, [ledger |-> ledger, tag |-> tag, amount |-> amount])
  /\ events' = IF tag = NoTag THEN events ELSE events \cup {Len(xrpl) + 1}
  /\ UNCHANGED <<vars, lastSeenLedger, polls, proc, store, wallet, txs,
                 handed, short, faults>>

Contracts ==
  /\ \/ \E u \in Users, t \in Tags : registerMintingTag(Adapter, u, t)
     \/ \E t \in Tags : ExecutorCooldownElapses(t)
     \/ \E d \in DepositIds : settleDirectMint(Adapter, d)
     \/ pauseAdapter(Adapter)
     \/ unpauseAdapter(Adapter)
  /\ UNCHANGED execVars

Bridge ==
  \/ ReadTagUser \/ ReadPendingDeposit
  \/ ReadAdapterBalance \/ ReadTotalPending
  \/ SubmitTransfer \/ UseExistingBalance
  \/ ReadFinalBalance \/ ReadFinalTotal
  \/ SubmitDirectMint

Mine == MineTransfer \/ MineDirectMint

Watch == \E slot \in PollSlots : StartPoll(slot) \/ PollResponse(slot)

Faults ==
  \/ \E slot \in PollSlots : PollFails(slot)
  \/ \E i \in events : EventLost(i)
  \/ RequestFails
  \/ Crash \/ CrashWhileSaving

ExecNext ==
  \/ Watch
  \/ \E i \in events : TxEvent(i)
  \/ Bridge
  \/ Mine
  \/ Faults
  \/ \E ledger \in 1 .. MaxLedger, tag \in Tags \cup {NoTag}, amount \in 1 .. MaxAmount :
       PaymentValidated(ledger, tag, amount)
  \/ Contracts

ExecSpec == ExecInit /\ [][ExecNext]_allVars

\* setInterval keeps polling and a node answers; processPayment goes on at every
\* await; the chain mines; users settle their deposits.
ExecFairSpec ==
  /\ ExecSpec
  /\ \A slot \in PollSlots :
       WF_allVars(StartPoll(slot)) /\ WF_allVars(PollResponse(slot))
  /\ WF_allVars(Bridge)
  /\ WF_allVars(Mine)
  /\ WF_allVars((\E d \in DepositIds : settleDirectMint(Adapter, d)) /\ UNCHANGED execVars)

(***************************************************************************)
(* Properties.                                                             *)
(***************************************************************************)
Processed(i) == i \in processedDirectMints[Adapter]

\* Type invariant of the bot.
ExecTypeOK ==
  /\ xrpl \in Seq([ledger : 1 .. MaxLedger, tag : Tags \cup {NoTag}, amount : 1 .. MaxAmount])
  /\ events \subseteq DOMAIN xrpl
  /\ lastSeenLedger \in 0 .. MaxLedger
  /\ DOMAIN polls = PollSlots
  /\ proc # Idle => proc.payment \in DOMAIN xrpl /\ Payment.tag \in Tags
  /\ store \subseteq DOMAIN xrpl
  /\ wallet \in 0 .. Wallet
  /\ \A i \in DOMAIN txs : txs[i].amount \in Nat \ {0} /\ txs[i].payment \in DOMAIN xrpl
  /\ handed \subseteq DOMAIN xrpl /\ short \subseteq DOMAIN xrpl
  /\ faults \in 0 .. MaxFaults

\* The store never makes the bot skip a payment that is not on chain.
StoreSound == \A i \in store : Processed(i)

\* A deposit is recorded for the tag its payment named, with at least the
\* amount paid, unless the bot was short of FXRP when it processed the payment.
\* (It then relies on the adapter's unallocated balance, which it computes from
\* reads of two blocks, and may record less than was paid.)
NeverUnderCredited ==
  \A i \in DepositIds : Pending(Adapter, i) =>
    /\ i \in DOMAIN xrpl
    /\ pendingDirectMints[Adapter][i].tag = xrpl[i].tag
    /\ i \notin short => pendingDirectMints[Adapter][i].assets >= xrpl[i].amount

\* The newest payment is not lost, whatever overlaps, crashes and failures
\* happened: polls begin at the ledger last seen, so it stays in reach until
\* it is processed, provided that its tag, the adapter and the wallet are ready.
Ready(i) ==
  /\ i = Len(xrpl) /\ xrpl[i].tag \in Tags
  /\ tagUser[Adapter][xrpl[i].tag] # None
  /\ allowedExecutor[xrpl[i].tag] = Bot
  /\ Adapter \notin pausedAdapters
  /\ wallet >= xrpl[i].amount

NewestProcessed == \A i \in DepositIds : <>[](i \in DOMAIN xrpl /\ Ready(i)) => <>Processed(i)

\* The cursor passes no payment the handler was not handed, however polls, pages
\* and events overlap and fail: what it has not seen is in the next page that
\* can be asked for, in a page being awaited, or in a request under way.  (The
\* handler may still turn a payment away, and then no later poll returns it.)
NothingPassedOver ==
  \A i \in DOMAIN xrpl : xrpl[i].tag # NoTag /\ i \notin handed \cup store =>
    \/ i >= PageStart(lastSeenLedger)
    \/ \E s \in PollSlots : polls[s].pc = "blocked" /\ i \in polls[s].lo .. polls[s].hi
==============================================================================
