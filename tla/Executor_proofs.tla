--------------------------- MODULE Executor_proofs ---------------------------
(***************************************************************************)
(* Proofs about the programs of src/executor: the bot, for any wallet,     *)
(* payments, overlapping polls, page size and number of faults, and, at    *)
(* the end, the maintenance scripts.                                       *)
(*                                                                         *)
(* ExecInv is the inductive invariant of the bot: what it keeps in memory  *)
(* fits the history of the account, what it waits for is the last of its   *)
(* transactions, and between the transfer of a payment and its direct mint *)
(* nobody else touches the FXRP that the transfer brought.                 *)
(***************************************************************************)
EXTENDS Executor, RecoveryScripts, DirectMint_proofs, SequenceTheorems

Entries == [ledger : 1 .. MaxLedger, tag : Tags \cup {NoTag}, amount : 1 .. MaxAmount]

\* The payments of an account whose history is h.
PaymentsIn(h) == {i \in DOMAIN h : h[i].tag \in Tags}

HistoryKept == xrpl \in Seq(Entries) /\ Len(xrpl) <= Cardinality(DepositIds)

\* A poll whose page is interrupted by a payment remembers a part of the history.
PollsOver(length) ==
  {IdlePoll} \cup [pc : {"requested"}, from : 0 .. MaxLedger]
             \cup [pc : {"blocked"}, lo : Nat \ {0}, hi : 0 .. length]

WatcherKept ==
  /\ lastSeenLedger \in 0 .. MaxLedger
  /\ polls \in [PollSlots -> PollsOver(Len(xrpl))]
  /\ handed \subseteq PaymentsIn(xrpl)

Places == {"tagUser", "pendingDeposit", "balances", "transfer", "finalBalance",
           "finalTotal", "submit", "mint"}
Jobs == [pc : Places, payment : Nat, owner : PollSlots \cup {None},
         adapterBalance : Nat \cup {None}, totalPending : Nat \cup {None},
         observed : Nat \cup {None}]

\* The poll that awaits the handler stands still until it ends.
ProcKept ==
  proc # Idle =>
    /\ proc \in Jobs /\ proc.payment \in PaymentsIn(xrpl)
    /\ proc.owner # None => polls[proc.owner].pc = "blocked"
    /\ proc.pc = "finalTotal" => proc.adapterBalance \in Nat
    /\ proc.pc = "submit" => proc.observed \in Nat \ {0}

Txs == [kind : {"transfer", "mint"}, amount : Nat \ {0}, payment : Nat, awaited : BOOLEAN]

\* The transaction the bot waits for is its last.
TxsKept ==
  /\ txs \in Seq(Txs)
  /\ \A i \in DOMAIN txs :
       /\ txs[i].payment \in PaymentsIn(xrpl)
       /\ txs[i].kind = "transfer" => txs[i].amount = xrpl[txs[i].payment].amount
       /\ txs[i].awaited => /\ proc # Idle /\ proc.pc = txs[i].kind
                            /\ proc.payment = txs[i].payment /\ i = Len(txs)

CountersKept ==
  /\ events \subseteq PaymentsIn(xrpl) /\ store \subseteq PaymentsIn(xrpl)
  /\ short \subseteq PaymentsIn(xrpl)
  /\ wallet \in 0 .. Wallet /\ faults \in 0 .. MaxFaults

BotInv == HistoryKept /\ WatcherKept /\ ProcKept /\ TxsKept /\ CountersKept

\* Every FXRP an adapter holds has arrived there.
BridgeInv == IInv /\ \A a \in Adapters : balance[a] <= supply

\* The bot is between the transfer of a payment and its direct mint.
Provisioned == proc # Idle /\ proc.pc \in {"finalBalance", "finalTotal", "submit"}
                 /\ proc.payment \notin short

\* What is then unallocated on the adapter covers the payment, and so does what
\* the bot has computed from it.
Covered ==
  Provisioned =>
    /\ txs = <<>>
    /\ Unallocated(Adapter) >= Payment.amount
    /\ proc.pc = "finalTotal" =>
         proc.adapterBalance - totalPendingFAssets[Adapter] >= Payment.amount
    /\ proc.pc = "submit" => proc.observed >= Payment.amount

\* So does what it has asked the adapter to record.
MintsCovered ==
  \A i \in DOMAIN txs : txs[i].kind = "mint" /\ txs[i].payment \notin short =>
    txs[i].amount >= xrpl[txs[i].payment].amount

CoverInv == Covered /\ MintsCovered

ExecInv == BotInv /\ BridgeInv /\ CoverInv /\ StoreSound /\ NeverUnderCredited

(***************************************************************************)
(* Arithmetic of pages.                                                    *)
(***************************************************************************)
\* Min finds the first of a page, Max the later of two ledgers.
LEMMA MinInSet ==
  ASSUME NEW S \in SUBSET Nat, S # {}
  PROVE  Min(S) \in S /\ \A x \in S : Min(S) <= x
<1>1. \E m \in S : \A x \in S : m <= x
  BY LeastNat
<1>2. QED
  BY <1>1 DEF Min

LEMMA MaxOfTwo ==
  ASSUME NEW x \in Nat, NEW y \in Nat
  PROVE  /\ Max({x, y}) \in {x, y} /\ Max({x, y}) \in Nat
         /\ Max({x, y}) >= x /\ Max({x, y}) >= y
<1>1. \E m \in {x, y} : \A n \in {x, y} : m >= n
  OBVIOUS
<1>2. Max({x, y}) \in {x, y} /\ \A n \in {x, y} : Max({x, y}) >= n
  BY <1>1 DEF Max
<1>3. QED
  BY <1>2

LEMMA MinOfTwo ==
  ASSUME NEW x \in Nat, NEW y \in Nat
  PROVE  Min({x, y}) \in {x, y} /\ Min({x, y}) <= x
<1>1. \E m \in {x, y} : \A n \in {x, y} : m <= n
  OBVIOUS
<1>2. QED
  BY <1>1 DEF Min

\* A page lies within the history.
LEMMA PageBounds ==
  ASSUME HistoryKept, NEW from \in 0 .. MaxLedger
  PROVE  PageStart(from) \in Nat \ {0} /\ PageEnd(from) \in 0 .. Len(xrpl)
<1> DEFINE S == {i \in DOMAIN xrpl : xrpl[i].ledger < from}
<1>1. DOMAIN xrpl = 1 .. Len(xrpl) /\ Len(xrpl) \in Nat
  BY DEF HistoryKept
<1>2. IsFiniteSet(1 .. Len(xrpl))
  BY <1>1, FS_Interval
<1>3. Cardinality(S) \in Nat
  BY <1>1, <1>2, FS_Subset, FS_CardinalityType
<1>4. PageStart(from) \in Nat \ {0}
  BY <1>3 DEF PageStart
<1>5. PageStart(from) + PollLimit - 1 \in Nat
  BY <1>4, ExecutorBounds
<1>6. QED
  BY <1>1, <1>4, <1>5, MinOfTwo DEF PageEnd

(***************************************************************************)
(* The watcher.                                                            *)
(***************************************************************************)
LEMMA EntryType ==
  ASSUME HistoryKept, NEW i \in DOMAIN xrpl
  PROVE  /\ xrpl[i] \in Entries /\ i \in Nat \ {0} /\ i <= Len(xrpl)
         /\ xrpl[i].tag # NoTag => i \in PaymentsIn(xrpl)
<1>1. xrpl[i] \in Entries /\ i \in Nat \ {0} /\ i <= Len(xrpl)
  BY DEF HistoryKept
<1>2. xrpl[i].tag \in Tags \cup {NoTag}
  BY <1>1 DEF Entries
<1>3. QED
  BY <1>1, <1>2 DEF PaymentsIn

\* The cursor stays within the ledgers.
LEMMA CursorKept ==
  ASSUME HistoryKept, WatcherKept, NEW i \in DOMAIN xrpl, AdvanceCursor(i)
  PROVE  lastSeenLedger' \in 0 .. MaxLedger
<1>1. lastSeenLedger \in 0 .. MaxLedger /\ xrpl[i].ledger \in 1 .. MaxLedger
  BY EntryType DEF WatcherKept, Entries
<1>2. lastSeenLedger' \in {lastSeenLedger, xrpl[i].ledger}
  BY <1>1, MaxOfTwo, ExecutorBounds DEF AdvanceCursor
<1>3. QED
  BY <1>1, <1>2, ExecutorBounds

\* After a page is looked through nothing is being processed, or a payment that
\* the poll waits for has just been taken.
AtStart == proc # Idle => proc.pc = "tagUser"

LEMMA ScanKeeps ==
  ASSUME HistoryKept, WatcherKept, NEW slot \in PollSlots, NEW lo \in Nat \ {0},
         NEW hi \in 0 .. Len(xrpl), NEW stored, ScanPage(slot, lo, hi, stored),
         UNCHANGED xrpl
  PROVE  WatcherKept' /\ ProcKept' /\ AtStart'
<1>0. DOMAIN xrpl = 1 .. Len(xrpl) /\ Len(xrpl) \in Nat
  BY DEF HistoryKept
<1>1. CASE Unseen(lo, hi, stored) # {}
  <2> DEFINE i == Min(Unseen(lo, hi, stored))
  <2>1. Unseen(lo, hi, stored) \subseteq Nat
    BY DEF Unseen
  <2>2. i \in Unseen(lo, hi, stored)
    BY <1>1, <2>1, MinInSet
  <2> HIDE DEF i
  <2>3. i \in DOMAIN xrpl /\ i \in PaymentsIn(xrpl) /\ i \in Nat
    BY <1>0, <2>2, EntryType DEF Unseen
  <2>4. /\ StartPayment(i, slot) /\ handed' = handed \cup {i} /\ AdvanceCursor(i)
        /\ polls' = [polls EXCEPT ![slot] = [pc |-> "blocked", lo |-> i + 1, hi |-> hi]]
    BY <1>1 DEF ScanPage, i
  <2>5. lastSeenLedger' \in 0 .. MaxLedger
    BY <2>3, <2>4, CursorKept
  <2>6. [pc |-> "blocked", lo |-> i + 1, hi |-> hi] \in PollsOver(Len(xrpl))
    BY <2>3 DEF PollsOver
  <2>7. polls' \in [PollSlots -> PollsOver(Len(xrpl))]
    BY <2>4, <2>6 DEF WatcherKept
  <2>8. WatcherKept'
    BY <2>3, <2>4, <2>5, <2>7 DEF WatcherKept
  <2>9. polls'[slot].pc = "blocked"
    BY <2>4 DEF WatcherKept
  <2>10. /\ proc' \in Jobs /\ proc'.payment = i /\ proc'.owner = slot
         /\ proc'.pc = "tagUser"
    BY <2>3, <2>4 DEF StartPayment, Jobs, Places
  <2>11. QED
    BY <2>3, <2>8, <2>9, <2>10 DEF ProcKept, AtStart
<1>2. CASE Unseen(lo, hi, stored) = {}
  <2>1. proc' = Idle /\ handed' = handed /\ polls' = [polls EXCEPT ![slot] = IdlePoll]
    BY <1>2 DEF ScanPage
  <2>2. lastSeenLedger' \in 0 .. MaxLedger
    <3>1. CASE lo <= hi
      <4>1. AdvanceCursor(hi) /\ hi \in DOMAIN xrpl
        BY <1>0, <1>2, <3>1 DEF ScanPage
      <4>2. QED
        BY <4>1, CursorKept
    <3>2. CASE ~ (lo <= hi)
      BY <1>2, <3>2 DEF ScanPage, WatcherKept
    <3>3. QED
      BY <3>1, <3>2
  <2>3. polls' \in [PollSlots -> PollsOver(Len(xrpl))]
    BY <2>1 DEF WatcherKept, PollsOver
  <2>4. QED
    BY <2>1, <2>2, <2>3 DEF WatcherKept, ProcKept, AtStart
<1>3. QED
  BY <1>1, <1>2

\* When a payment ends, the poll that waited for it goes on with its page.
LEMMA FinishKeeps ==
  ASSUME HistoryKept, WatcherKept, ProcKept, proc # Idle, NEW stored, Finish(stored),
         UNCHANGED xrpl
  PROVE  WatcherKept' /\ ProcKept' /\ AtStart'
<1>1. CASE proc.owner = None
  BY <1>1 DEF Finish, WatcherKept, ProcKept, AtStart
<1>2. CASE proc.owner # None
  <2> DEFINE p == polls[proc.owner]
  <2>1. proc.owner \in PollSlots /\ p.pc = "blocked"
    BY <1>2 DEF ProcKept, Jobs
  <2>2. p \in PollsOver(Len(xrpl))
    BY <2>1 DEF WatcherKept
  <2>3. p.lo \in Nat \ {0} /\ p.hi \in 0 .. Len(xrpl)
    BY <2>1, <2>2 DEF PollsOver, IdlePoll
  <2>4. ScanPage(proc.owner, p.lo, p.hi, stored)
    BY <1>2 DEF Finish
  <2>5. QED
    BY <2>1, <2>3, <2>4, ScanKeeps
<1>3. QED
  BY <1>1, <1>2

(***************************************************************************)
(* Initial states.                                                         *)
(***************************************************************************)
LEMMA ExecInitInv == ExecInit => ExecInv
<1> SUFFICES ASSUME ExecInit PROVE ExecInv
  OBVIOUS
<1>1. Cardinality(DepositIds) \in Nat
  BY ExecutorBounds, FS_CardinalityType
<1>2. HistoryKept
  BY <1>1 DEF ExecInit, HistoryKept
<1>3. WatcherKept /\ ProcKept /\ CountersKept
  BY ExecutorBounds
  DEF ExecInit, WatcherKept, PollsOver, IdlePoll, ProcKept, CountersKept
<1>4. TxsKept /\ CoverInv
  BY DEF ExecInit, TxsKept, CoverInv, Covered, MintsCovered, Provisioned
<1>5. IInv /\ \A a \in Adapters : balance[a] <= supply
  BY InitInv DEF ExecInit, Init
<1>6. StoreSound
  BY DEF ExecInit, StoreSound
<1>7. NeverUnderCredited
  BY BotAssumption DEF ExecInit, Init, NeverUnderCredited, Pending
<1>8. QED
  BY <1>2, <1>3, <1>4, <1>5, <1>6, <1>7 DEF ExecInv, BotInv, BridgeInv

(***************************************************************************)
(* BotInv: steps of the watcher.                                           *)
(***************************************************************************)
LEMMA NoneAwaited ==
  ASSUME TxsKept, proc = Idle \/ proc.pc \notin {"transfer", "mint"}
  PROVE  \A i \in DOMAIN txs : ~ txs[i].awaited
<1> SUFFICES ASSUME NEW i \in DOMAIN txs, txs[i].awaited PROVE FALSE
  OBVIOUS
<1>1. txs[i] \in Txs
  BY DEF TxsKept
<1>2. txs[i].kind \in {"transfer", "mint"}
  BY <1>1 DEF Txs
<1>3. QED
  BY <1>2 DEF TxsKept

LEMMA TxsSame ==
  ASSUME TxsKept, UNCHANGED <<txs, xrpl>>,
         proc' = proc \/ proc = Idle \/ proc.pc \notin {"transfer", "mint"}
  PROVE  TxsKept'
<1>1. CASE proc' = proc
  BY <1>1 DEF TxsKept, PaymentsIn
<1>2. CASE proc = Idle \/ proc.pc \notin {"transfer", "mint"}
  <2>1. \A i \in DOMAIN txs : ~ txs[i].awaited
    BY <1>2, NoneAwaited
  <2>2. QED
    BY <2>1 DEF TxsKept, PaymentsIn
<1>3. QED
  BY <1>1, <1>2

\* A poll that does not belong to the payment in the handler may come and go.
LEMMA OtherPoll ==
  ASSUME BotInv, NEW slot \in PollSlots, polls[slot].pc # "blocked",
         NEW p \in PollsOver(Len(xrpl)), polls' = [polls EXCEPT ![slot] = p],
         UNCHANGED <<xrpl, proc>>
  PROVE  ProcKept' /\ polls' \in [PollSlots -> PollsOver(Len(xrpl))]
<1>1. polls' \in [PollSlots -> PollsOver(Len(xrpl))]
  BY DEF BotInv, WatcherKept
<1>2. ASSUME proc # Idle, proc.owner # None PROVE polls'[proc.owner].pc = "blocked"
  <2>1. proc.owner \in PollSlots /\ proc.owner # slot
    BY <1>2 DEF BotInv, ProcKept, Jobs
  <2>2. QED
    BY <1>2, <2>1 DEF BotInv, WatcherKept, ProcKept
<1>3. QED
  BY <1>1, <1>2 DEF BotInv, ProcKept

LEMMA StartPollKeeps ==
  ASSUME BotInv, NEW slot \in PollSlots, StartPoll(slot)
  PROVE  BotInv'
<1> DEFINE p == [pc |-> "requested", from |-> lastSeenLedger]
<1>1. p \in PollsOver(Len(xrpl))
  BY DEF BotInv, WatcherKept, PollsOver
<1>2. ProcKept' /\ polls' \in [PollSlots -> PollsOver(Len(xrpl))]
  BY <1>1, OtherPoll DEF StartPoll
<1>3. TxsKept'
  BY TxsSame DEF BotInv, StartPoll
<1>4. QED
  BY <1>2, <1>3 DEF BotInv, StartPoll, HistoryKept, WatcherKept, CountersKept

LEMMA PollFailsKeeps ==
  ASSUME BotInv, NEW slot \in PollSlots, PollFails(slot)
  PROVE  BotInv'
<1>1. IdlePoll \in PollsOver(Len(xrpl))
  BY DEF PollsOver
<1>2. ProcKept' /\ polls' \in [PollSlots -> PollsOver(Len(xrpl))]
  BY <1>1, OtherPoll DEF PollFails
<1>3. TxsKept'
  BY TxsSame DEF BotInv, PollFails
<1>4. faults' \in 0 .. MaxFaults
  BY ExecutorBounds DEF BotInv, CountersKept, PollFails, Fault
<1>5. QED
  BY <1>2, <1>3, <1>4 DEF BotInv, PollFails, HistoryKept, WatcherKept, CountersKept

LEMMA PollResponseKeeps ==
  ASSUME BotInv, NEW slot \in PollSlots, PollResponse(slot)
  PROVE  BotInv' /\ (proc' = proc \/ (proc = Idle /\ AtStart'))
<1> DEFINE lo == PageStart(polls[slot].from)
           hi == PageEnd(polls[slot].from)
<1>1. polls[slot] \in PollsOver(Len(xrpl)) /\ polls[slot].pc = "requested"
  BY DEF BotInv, WatcherKept, PollResponse
<1>2. polls[slot].from \in 0 .. MaxLedger
  BY <1>1 DEF PollsOver, IdlePoll
<1>3. lo \in Nat \ {0} /\ hi \in 0 .. Len(xrpl)
  BY <1>2, PageBounds DEF BotInv
<1>4. UNCHANGED <<xrpl, events, store, wallet, txs, short, faults>>
  BY DEF PollResponse
<1>5. CASE proc = Idle
  <2>1. ScanPage(slot, lo, hi, store)
    BY <1>5 DEF PollResponse
  <2>2. WatcherKept' /\ ProcKept' /\ AtStart'
    BY <1>3, <1>4, <2>1, ScanKeeps DEF BotInv
  <2>3. TxsKept'
    BY <1>4, <1>5, TxsSame DEF BotInv
  <2>4. QED
    BY <1>4, <1>5, <2>2, <2>3 DEF BotInv, HistoryKept, CountersKept
<1>6. CASE proc # Idle
  <2>1. /\ proc' = proc /\ polls' = [polls EXCEPT ![slot] = IdlePoll]
        /\ handed' = handed \cup Unseen(lo, hi, store)
        /\ IF lo <= hi THEN AdvanceCursor(hi) ELSE UNCHANGED lastSeenLedger
    BY <1>6 DEF PollResponse
  <2>2. DOMAIN xrpl = 1 .. Len(xrpl) /\ Len(xrpl) \in Nat
    BY DEF BotInv, HistoryKept
  <2>3. lastSeenLedger' \in 0 .. MaxLedger
    <3>1. CASE lo <= hi
      <4>1. AdvanceCursor(hi) /\ hi \in DOMAIN xrpl
        BY <1>3, <2>1, <2>2, <3>1
      <4>2. QED
        BY <4>1, CursorKept DEF BotInv
    <3>2. CASE ~ (lo <= hi)
      BY <2>1, <3>2 DEF BotInv, WatcherKept
    <3>3. QED
      BY <3>1, <3>2
  <2>4. Unseen(lo, hi, store) \subseteq PaymentsIn(xrpl)
    BY <1>3, <2>2, EntryType DEF Unseen, BotInv
  <2>5. IdlePoll \in PollsOver(Len(xrpl))
    BY DEF PollsOver
  <2>6. ProcKept' /\ polls' \in [PollSlots -> PollsOver(Len(xrpl))]
    BY <1>1, <1>4, <2>1, <2>5, OtherPoll
  <2>7. WatcherKept'
    BY <1>4, <2>1, <2>3, <2>4, <2>6 DEF BotInv, WatcherKept
  <2>8. TxsKept'
    BY <1>4, <2>1, TxsSame DEF BotInv
  <2>9. QED
    BY <1>4, <2>1, <2>6, <2>7, <2>8 DEF BotInv, HistoryKept, CountersKept
<1>7. QED
  BY <1>5, <1>6

LEMMA TxEventKeeps ==
  ASSUME BotInv, NEW i \in events, TxEvent(i)
  PROVE  BotInv' /\ (proc' = proc \/ (proc = Idle /\ AtStart'))
<1>1. i \in PaymentsIn(xrpl) /\ i \in DOMAIN xrpl
  BY DEF BotInv, CountersKept, PaymentsIn
<1>2. i \in Nat
  BY <1>1, EntryType DEF BotInv
<1>3. /\ handed' \subseteq handed \cup {i}
      /\ proc' = proc \/ (proc = Idle /\ StartPayment(i, None))
  BY DEF TxEvent
<1>4. UNCHANGED <<xrpl, lastSeenLedger, polls, store, wallet, txs, short, faults>>
      /\ events' \subseteq events
  BY DEF TxEvent
<1>5. ProcKept' /\ (proc' = proc \/ (proc = Idle /\ AtStart'))
  <2>1. CASE proc' = proc
    BY <1>4, <2>1 DEF BotInv, ProcKept, PaymentsIn
  <2>2. CASE proc = Idle /\ StartPayment(i, None)
    BY <1>1, <1>2, <1>4, <2>2 DEF StartPayment, ProcKept, Jobs, Places, PaymentsIn, AtStart
  <2>3. QED
    BY <1>3, <2>1, <2>2
<1>6. TxsKept'
  BY <1>4, <1>5, TxsSame DEF BotInv
<1>7. QED
  BY <1>1, <1>3, <1>4, <1>5, <1>6 DEF BotInv, HistoryKept, WatcherKept, CountersKept, PaymentsIn

LEMMA EventLostKeeps ==
  ASSUME BotInv, NEW i \in events, EventLost(i)
  PROVE  BotInv'
<1>1. TxsKept'
  BY TxsSame DEF BotInv, EventLost
<1>2. faults' \in 0 .. MaxFaults
  BY ExecutorBounds DEF BotInv, CountersKept, EventLost, Fault
<1>3. QED
  BY <1>1, <1>2
  DEF BotInv, EventLost, HistoryKept, WatcherKept, ProcKept, CountersKept, PaymentsIn

(***************************************************************************)
(* BotInv: steps of processPayment.                                        *)
(***************************************************************************)
LEMMA BalancesNat ==
  ASSUME TypeOK
  PROVE  balance[Adapter] \in Nat /\ totalPendingFAssets[Adapter] \in Nat
BY BotAssumption DEF TypeOK

\* The handler ends while it waits for no transaction.
LEMMA EndKeeps ==
  ASSUME BotInv, proc # Idle, proc.pc \notin {"transfer", "mint"}, Finish(store),
         UNCHANGED <<xrpl, events, store, wallet, txs, short, faults>>
  PROVE  BotInv' /\ AtStart'
<1>1. WatcherKept' /\ ProcKept' /\ AtStart'
  BY FinishKeeps DEF BotInv
<1>2. TxsKept'
  BY TxsSame DEF BotInv
<1>3. QED
  BY <1>1, <1>2 DEF BotInv, HistoryKept, CountersKept

\* The handler goes on with the same payment to its next await.
LEMMA GoOnKeeps ==
  ASSUME BotInv, proc # Idle, NEW next \in Jobs, GoTo(next),
         next.payment = proc.payment, next.owner = proc.owner,
         next.pc = "finalTotal" => next.adapterBalance \in Nat,
         next.pc = "submit" => next.observed \in Nat \ {0},
         UNCHANGED xrpl
  PROVE  ProcKept' /\ WatcherKept'
<1>1. /\ proc.payment \in PaymentsIn(xrpl)
      /\ proc.owner # None => polls[proc.owner].pc = "blocked"
  BY DEF BotInv, ProcKept
<1>2. proc' = next /\ UNCHANGED <<lastSeenLedger, polls, handed, xrpl>>
  BY DEF GoTo
<1>3. ProcKept'
  BY <1>1, <1>2 DEF ProcKept
<1>4. QED
  BY <1>2, <1>3 DEF BotInv, WatcherKept

LEMMA ReadKeeps ==
  ASSUME BotInv, TypeOK,
         \/ ReadTagUser \/ ReadPendingDeposit \/ ReadAdapterBalance \/ ReadTotalPending
         \/ ReadFinalBalance \/ ReadFinalTotal
  PROVE  BotInv'
<1> USE DEF Running
<1>1. /\ proc # Idle /\ proc.pc \notin {"transfer", "mint"}
      /\ UNCHANGED <<xrpl, events, store, wallet, txs, short, faults>>
  BY DEF ReadTagUser, ReadPendingDeposit, ReadAdapterBalance, ReadTotalPending,
         ReadFinalBalance, ReadFinalTotal, watcherVars
<1>2. CASE Finish(store)
  BY <1>1, <1>2, EndKeeps
<1>3. proc \in Jobs
  BY <1>1 DEF BotInv, ProcKept
<1>4. ASSUME NEW next \in Jobs, GoTo(next),
             next.payment = proc.payment, next.owner = proc.owner,
             next.pc = "finalTotal" => next.adapterBalance \in Nat,
             next.pc = "submit" => next.observed \in Nat \ {0}
      PROVE  BotInv'
  <2>1. ProcKept' /\ WatcherKept'
    BY <1>1, <1>4, GoOnKeeps
  <2>2. TxsKept'
    BY <1>1, TxsSame DEF BotInv
  <2>3. QED
    BY <1>1, <2>1, <2>2 DEF BotInv, HistoryKept, CountersKept
<1>5. CASE ReadTagUser
  <2> DEFINE next == [proc EXCEPT !.pc = "pendingDeposit"]
  <2>1. Finish(store) \/ GoTo(next)
    BY <1>5 DEF ReadTagUser
  <2>2. /\ next \in Jobs /\ next.payment = proc.payment /\ next.owner = proc.owner
        /\ next.pc = "pendingDeposit"
    BY <1>3 DEF Jobs, Places
  <2>3. QED
    BY <1>2, <1>4, <2>1, <2>2
<1>6. CASE ReadPendingDeposit
  <2> DEFINE next == [proc EXCEPT !.pc = "balances"]
  <2>1. Finish(store) \/ GoTo(next)
    BY <1>6 DEF ReadPendingDeposit
  <2>2. /\ next \in Jobs /\ next.payment = proc.payment /\ next.owner = proc.owner
        /\ next.pc = "balances"
    BY <1>3 DEF Jobs, Places
  <2>3. QED
    BY <1>2, <1>4, <2>1, <2>2
<1>7. CASE ReadAdapterBalance
  <2> DEFINE next == [proc EXCEPT !.adapterBalance = balance[Adapter]]
  <2>1. GoTo(next) /\ proc.pc = "balances"
    BY <1>7 DEF ReadAdapterBalance
  <2>2. /\ next \in Jobs /\ next.payment = proc.payment /\ next.owner = proc.owner
        /\ next.pc = "balances"
    BY <1>3, <2>1, BalancesNat DEF Jobs
  <2>3. QED
    BY <1>4, <2>1, <2>2
<1>8. CASE ReadTotalPending
  <2> DEFINE next == [proc EXCEPT !.totalPending = totalPendingFAssets[Adapter]]
  <2>1. GoTo(next) /\ proc.pc = "balances"
    BY <1>8 DEF ReadTotalPending
  <2>2. /\ next \in Jobs /\ next.payment = proc.payment /\ next.owner = proc.owner
        /\ next.pc = "balances"
    BY <1>3, <2>1, BalancesNat DEF Jobs
  <2>3. QED
    BY <1>4, <2>1, <2>2
<1>9. CASE ReadFinalBalance
  <2> DEFINE next == [proc EXCEPT !.pc = "finalTotal", !.adapterBalance = balance[Adapter]]
  <2>1. GoTo(next)
    BY <1>9 DEF ReadFinalBalance
  <2>2. /\ next \in Jobs /\ next.payment = proc.payment /\ next.owner = proc.owner
        /\ next.pc = "finalTotal" /\ next.adapterBalance \in Nat
    BY <1>3, BalancesNat DEF Jobs, Places
  <2>3. QED
    BY <1>4, <2>1, <2>2
<1>10. CASE ReadFinalTotal
  <2> DEFINE observed == proc.adapterBalance - totalPendingFAssets[Adapter]
             next == [proc EXCEPT !.pc = "submit", !.observed = observed]
  <2>1. Finish(store) \/ (GoTo(next) /\ ~ (proc.adapterBalance <= totalPendingFAssets[Adapter]))
    BY <1>10 DEF ReadFinalTotal
  <2>2. proc.adapterBalance \in Nat
    BY <1>10 DEF ReadFinalTotal, BotInv, ProcKept
  <2>3. CASE GoTo(next) /\ ~ (proc.adapterBalance <= totalPendingFAssets[Adapter])
    <3>1. observed \in Nat \ {0}
      BY <2>2, <2>3, BalancesNat
    <3> HIDE DEF observed
    <3>2. /\ next \in Jobs /\ next.payment = proc.payment /\ next.owner = proc.owner
          /\ next.pc = "submit" /\ next.observed \in Nat \ {0}
      BY <1>3, <3>1 DEF Jobs, Places
    <3>3. QED
      BY <1>4, <2>3, <3>2
  <2>4. QED
    BY <1>2, <2>1, <2>3
<1>11. QED
  BY <1>5, <1>6, <1>7, <1>8, <1>9, <1>10

LEMMA PaymentAmount ==
  ASSUME BotInv, proc # Idle
  PROVE  Payment.amount \in Nat \ {0}
<1>1. proc.payment \in DOMAIN xrpl
  BY DEF BotInv, ProcKept, PaymentsIn
<1>2. Payment \in Entries
  BY <1>1, EntryType DEF BotInv, Payment
<1>3. QED
  BY <1>2, ExecutorBounds DEF Entries

\* A transaction that is submitted becomes the one that is awaited.
LEMMA AppendKeeps ==
  ASSUME BotInv, proc # Idle, proc.pc \notin {"transfer", "mint"},
         NEW tx \in Txs, txs' = Append(txs, tx), tx.payment = proc.payment,
         tx.kind = "transfer" => tx.amount = Payment.amount,
         proc' # Idle, proc'.pc = tx.kind, proc'.payment = proc.payment,
         UNCHANGED xrpl
  PROVE  TxsKept'
<1>1. txs \in Seq(Txs) /\ txs' \in Seq(Txs)
  BY DEF BotInv, TxsKept
<1>2. /\ Len(txs') = Len(txs) + 1 /\ txs'[Len(txs) + 1] = tx
      /\ \A i \in DOMAIN txs : txs'[i] = txs[i]
      /\ DOMAIN txs' = DOMAIN txs \cup {Len(txs) + 1}
  BY <1>1
<1>3. \A i \in DOMAIN txs : ~ txs[i].awaited
  BY NoneAwaited DEF BotInv
<1>4. proc.payment \in PaymentsIn(xrpl)
  BY DEF BotInv, ProcKept
<1>5. ASSUME NEW i \in DOMAIN txs'
      PROVE  /\ txs'[i].payment \in PaymentsIn(xrpl')
             /\ txs'[i].kind = "transfer" => txs'[i].amount = xrpl'[txs'[i].payment].amount
             /\ txs'[i].awaited => /\ proc' # Idle /\ proc'.pc = txs'[i].kind
                                   /\ proc'.payment = txs'[i].payment /\ i = Len(txs')
  <2>1. CASE i \in DOMAIN txs
    BY <1>2, <1>3, <2>1 DEF BotInv, TxsKept
  <2>2. CASE i = Len(txs) + 1
    BY <1>2, <1>4, <2>2 DEF Payment
  <2>3. QED
    BY <1>2, <2>1, <2>2
<1>6. QED
  BY <1>1, <1>5 DEF TxsKept

\* Mining the next transaction: if it was awaited, none is left.
LEMMA TailKeeps ==
  ASSUME BotInv, txs # <<>>, txs' = Tail(txs), UNCHANGED xrpl,
         Head(txs).awaited \/ proc' = proc
  PROVE  TxsKept' /\ (Head(txs).awaited => txs' = <<>>)
<1>1. txs \in Seq(Txs) /\ txs' \in Seq(Txs) /\ Len(txs) \in Nat \ {0}
  BY DEF BotInv, TxsKept
<1>2. /\ Len(txs') = Len(txs) - 1 /\ DOMAIN txs = 1 .. Len(txs) /\ DOMAIN txs' = 1 .. Len(txs')
      /\ \A i \in 1 .. Len(txs) - 1 : txs'[i] = txs[i + 1]
      /\ Head(txs) = txs[1]
  BY <1>1
<1>3. Head(txs).awaited => txs' = <<>>
  <2>1. SUFFICES ASSUME Head(txs).awaited PROVE txs' = <<>>
    OBVIOUS
  <2>2. Len(txs) = 1
    BY <1>1, <1>2, <2>1 DEF BotInv, TxsKept
  <2>3. QED
    BY <1>1, <1>2, <2>2
<1>4. ASSUME NEW i \in DOMAIN txs'
      PROVE  /\ txs'[i].payment \in PaymentsIn(xrpl')
             /\ txs'[i].kind = "transfer" => txs'[i].amount = xrpl'[txs'[i].payment].amount
             /\ txs'[i].awaited => /\ proc' # Idle /\ proc'.pc = txs'[i].kind
                                   /\ proc'.payment = txs'[i].payment /\ i = Len(txs')
  <2>1. i + 1 \in DOMAIN txs /\ txs'[i] = txs[i + 1] /\ i \in Nat
    BY <1>1, <1>2
  <2>2. proc' = proc
    BY <1>2, <1>3
  <2>3. i + 1 = Len(txs) => i = Len(txs')
    BY <1>1, <1>2, <2>1
  <2>4. QED
    BY <2>1, <2>2, <2>3 DEF BotInv, TxsKept
<1>5. QED
  BY <1>1, <1>3, <1>4 DEF TxsKept

\* Transactions the bot gives up are as they were, but awaited by nobody.
LEMMA AbandonedKept ==
  ASSUME BotInv, txs' = Abandoned, UNCHANGED xrpl
  PROVE  /\ TxsKept' /\ DOMAIN txs' = DOMAIN txs
         /\ \A i \in DOMAIN txs : /\ txs'[i].kind = txs[i].kind
                                  /\ txs'[i].amount = txs[i].amount
                                  /\ txs'[i].payment = txs[i].payment
<1>1. txs \in Seq(Txs) /\ Len(txs) \in Nat /\ DOMAIN txs = 1 .. Len(txs)
  BY DEF BotInv, TxsKept
<1>2. ASSUME NEW i \in DOMAIN txs
      PROVE  /\ txs'[i] \in Txs /\ ~ txs'[i].awaited
             /\ txs'[i].kind = txs[i].kind /\ txs'[i].amount = txs[i].amount
             /\ txs'[i].payment = txs[i].payment
  <2>1. txs[i] \in Txs
    BY <1>1
  <2>2. txs'[i] = [txs[i] EXCEPT !.awaited = FALSE]
    BY DEF Abandoned
  <2>3. QED
    BY <2>1, <2>2 DEF Txs
<1>3. DOMAIN txs' = DOMAIN txs
  BY DEF Abandoned
<1>4. txs' \in [1 .. Len(txs) -> Txs]
  BY <1>1, <1>2 DEF Abandoned
<1>5. txs' \in Seq(Txs)
  BY <1>1, <1>4, SeqDef
<1>6. QED
  BY <1>2, <1>3, <1>5 DEF TxsKept, BotInv

LEMMA UseExistingKeeps ==
  ASSUME BotInv, UseExistingBalance
  PROVE  BotInv'
<1> DEFINE next == [proc EXCEPT !.pc = "finalBalance"]
<1>1. /\ proc # Idle /\ proc.pc = "balances"
      /\ UNCHANGED <<xrpl, events, store, wallet, txs, faults>>
      /\ \/ GoTo(next) /\ short' = short \cup {proc.payment}
         \/ Finish(store) /\ UNCHANGED short
  BY DEF UseExistingBalance, BalancesRead, Running, watcherVars
<1>2. CASE Finish(store) /\ UNCHANGED short
  BY <1>1, <1>2, EndKeeps
<1>3. CASE GoTo(next) /\ short' = short \cup {proc.payment}
  <2>1. /\ next \in Jobs /\ next.payment = proc.payment /\ next.owner = proc.owner
        /\ next.pc = "finalBalance"
    BY <1>1 DEF BotInv, ProcKept, Jobs, Places
  <2> HIDE DEF next
  <2>2. ProcKept' /\ WatcherKept'
    BY <1>1, <1>3, <2>1, GoOnKeeps
  <2>3. TxsKept'
    BY <1>1, TxsSame DEF BotInv
  <2>4. proc.payment \in PaymentsIn(xrpl)
    BY <1>1 DEF BotInv, ProcKept
  <2>5. QED
    BY <1>1, <1>3, <2>2, <2>3, <2>4 DEF BotInv, HistoryKept, CountersKept
<1>4. QED
  BY <1>1, <1>2, <1>3

LEMMA SubmitTransferKeeps ==
  ASSUME BotInv, SubmitTransfer
  PROVE  BotInv'
<1> DEFINE next == [proc EXCEPT !.pc = "transfer"]
           tx == [kind |-> "transfer", amount |-> Payment.amount,
                  payment |-> proc.payment, awaited |-> TRUE]
<1>1. /\ proc # Idle /\ proc.pc = "balances" /\ GoTo(next) /\ txs' = Append(txs, tx)
      /\ UNCHANGED <<xrpl, events, store, wallet, short, faults>>
  BY DEF SubmitTransfer, BalancesRead, Running, watcherVars
<1>2. proc \in Jobs
  BY <1>1 DEF BotInv, ProcKept
<1>3. /\ next \in Jobs /\ next.payment = proc.payment /\ next.owner = proc.owner
      /\ next.pc = "transfer"
  BY <1>2 DEF Jobs, Places
<1>4. tx \in Txs /\ tx.kind = "transfer" /\ tx.amount = Payment.amount
      /\ tx.payment = proc.payment
  BY <1>1, <1>2, PaymentAmount DEF Txs, Jobs
<1> HIDE DEF next, tx
<1>5. ProcKept' /\ WatcherKept'
  BY <1>1, <1>3, GoOnKeeps
<1>6. proc' = next /\ proc' # Idle
  BY <1>1, <1>3 DEF GoTo, Idle
<1>7. TxsKept'
  BY <1>1, <1>3, <1>4, <1>6, AppendKeeps
<1>8. QED
  BY <1>1, <1>5, <1>7 DEF BotInv, HistoryKept, CountersKept

LEMMA SubmitDirectMintKeeps ==
  ASSUME BotInv, SubmitDirectMint
  PROVE  BotInv'
<1> DEFINE next == [proc EXCEPT !.pc = "mint"]
           tx == [kind |-> "mint", amount |-> proc.observed,
                  payment |-> proc.payment, awaited |-> TRUE]
<1>1. /\ proc # Idle /\ proc.pc = "submit"
      /\ UNCHANGED <<xrpl, events, store, wallet, short, faults>>
      /\ \/ GoTo(next) /\ txs' = Append(txs, tx)
         \/ Finish(store) /\ UNCHANGED txs
  BY DEF SubmitDirectMint, Running, watcherVars
<1>2. CASE Finish(store) /\ UNCHANGED txs
  BY <1>1, <1>2, EndKeeps
<1>3. CASE GoTo(next) /\ txs' = Append(txs, tx)
  <2>1. proc \in Jobs /\ proc.observed \in Nat \ {0}
    BY <1>1 DEF BotInv, ProcKept
  <2>2. /\ next \in Jobs /\ next.payment = proc.payment /\ next.owner = proc.owner
        /\ next.pc = "mint"
    BY <2>1 DEF Jobs, Places
  <2>3. tx \in Txs /\ tx.kind = "mint" /\ tx.payment = proc.payment
    BY <2>1 DEF Txs, Jobs
  <2> HIDE DEF next, tx
  <2>4. ProcKept' /\ WatcherKept'
    BY <1>1, <1>3, <2>2, GoOnKeeps
  <2>5. proc' = next /\ proc' # Idle
    BY <1>3, <2>2 DEF GoTo, Idle
  <2>6. TxsKept'
    BY <1>1, <1>3, <2>2, <2>3, <2>5, AppendKeeps
  <2>7. QED
    BY <1>1, <2>4, <2>6 DEF BotInv, HistoryKept, CountersKept
<1>4. QED
  BY <1>1, <1>2, <1>3

(***************************************************************************)
(* BotInv: the chain, faults and the environment.                          *)
(***************************************************************************)
\* The transaction mined next, and the payment it is for.
LEMMA HeadType ==
  ASSUME BotInv, txs # <<>>
  PROVE  /\ Head(txs) = txs[1] /\ 1 \in DOMAIN txs
         /\ Head(txs) \in Txs /\ Head(txs).payment \in PaymentsIn(xrpl)
         /\ Head(txs).payment \in DepositIds
         /\ xrpl[Head(txs).payment].tag \in Tags
         /\ Head(txs).awaited => /\ proc # Idle /\ proc.pc = Head(txs).kind
                                 /\ proc.payment = Head(txs).payment
<1>1. Head(txs) = txs[1] /\ 1 \in DOMAIN txs /\ Head(txs) \in Txs
  BY DEF BotInv, TxsKept
<1>2. Head(txs).payment \in PaymentsIn(xrpl)
  BY <1>1 DEF BotInv, TxsKept
<1>3. PaymentsIn(xrpl) \subseteq DepositIds
  BY ExecutorBounds, FS_CardinalityType DEF BotInv, HistoryKept, PaymentsIn
<1>4. QED
  BY <1>1, <1>2, <1>3 DEF BotInv, TxsKept, PaymentsIn

LEMMA MineTransferKeeps ==
  ASSUME BotInv, MineTransfer
  PROVE  BotInv'
<1> DEFINE next == [proc EXCEPT !.pc = "finalBalance"]
<1>1. /\ txs # <<>> /\ txs' = Tail(txs) /\ UNCHANGED <<xrpl, events, store, short, faults>>
  BY DEF MineTransfer, watcherVars, ReceiveTransferReceipt
<1>2. wallet' \in 0 .. Wallet
  <2>1. Head(txs).amount \in Nat
    BY <1>1, HeadType DEF Txs
  <2>2. wallet \in 0 .. Wallet /\ (wallet' = wallet \/ (wallet >= Head(txs).amount
                                    /\ wallet' = wallet - Head(txs).amount))
    BY DEF MineTransfer, BotInv, CountersKept
  <2>3. QED
    BY <2>1, <2>2, ExecutorBounds
<1>3. CASE Head(txs).awaited
  <2>1. TxsKept'
    BY <1>1, <1>3, TailKeeps
  <2>2. proc # Idle /\ (Finish(store) \/ GoTo(next))
    BY <1>1, <1>3, HeadType DEF MineTransfer, ReceiveTransferReceipt
  <2>3. WatcherKept' /\ ProcKept'
    <3>1. CASE Finish(store)
      BY <1>1, <2>2, <3>1, FinishKeeps DEF BotInv
    <3>2. CASE GoTo(next)
      <4>1. /\ next \in Jobs /\ next.payment = proc.payment /\ next.owner = proc.owner
            /\ next.pc = "finalBalance"
        BY <2>2 DEF BotInv, ProcKept, Jobs, Places
      <4> HIDE DEF next
      <4>2. QED
        BY <1>1, <2>2, <3>2, <4>1, GoOnKeeps
    <3>3. QED
      BY <2>2, <3>1, <3>2
  <2>4. QED
    BY <1>1, <1>2, <2>1, <2>3 DEF BotInv, HistoryKept, CountersKept
<1>4. CASE ~ Head(txs).awaited
  <2>1. UNCHANGED <<proc, lastSeenLedger, polls, handed>>
    BY <1>4 DEF MineTransfer
  <2>2. TxsKept'
    BY <1>1, <2>1, TailKeeps
  <2>3. QED
    BY <1>1, <1>2, <2>1, <2>2
    DEF BotInv, HistoryKept, CountersKept, WatcherKept, ProcKept, PaymentsIn
<1>5. QED
  BY <1>3, <1>4

LEMMA MineDirectMintKeeps ==
  ASSUME BotInv, MineDirectMint
  PROVE  BotInv'
<1>1. /\ txs # <<>> /\ txs' = Tail(txs) /\ UNCHANGED <<xrpl, events, wallet, short, faults>>
  BY DEF MineDirectMint, watcherVars
<1>2. CASE Head(txs).awaited
  <2>1. TxsKept'
    BY <1>1, <1>2, TailKeeps
  <2>2. proc # Idle /\ proc.payment \in PaymentsIn(xrpl)
    BY <1>1, <1>2, HeadType
  <2>3. PICK stored \in {store, store \cup {proc.payment}} : store' = stored /\ Finish(stored)
    BY <1>2 DEF MineDirectMint, ReceiveMintReceipt
  <2>4. WatcherKept' /\ ProcKept'
    BY <1>1, <2>2, <2>3, FinishKeeps DEF BotInv
  <2>5. QED
    BY <1>1, <2>1, <2>2, <2>3, <2>4 DEF BotInv, HistoryKept, CountersKept
<1>3. CASE ~ Head(txs).awaited
  <2>1. UNCHANGED <<proc, lastSeenLedger, polls, handed, store>>
    BY <1>3 DEF MineDirectMint
  <2>2. TxsKept'
    BY <1>1, <2>1, TailKeeps
  <2>3. QED
    BY <1>1, <2>1, <2>2
    DEF BotInv, HistoryKept, CountersKept, WatcherKept, ProcKept, PaymentsIn
<1>4. QED
  BY <1>2, <1>3

LEMMA FaultCounted == ASSUME BotInv, Fault PROVE faults' \in 0 .. MaxFaults
BY ExecutorBounds DEF BotInv, CountersKept, Fault

LEMMA RequestFailsKeeps ==
  ASSUME BotInv, RequestFails
  PROVE  BotInv' /\ AtStart'
<1>1. /\ proc # Idle /\ Finish(store) /\ txs' = Abandoned /\ Fault
      /\ UNCHANGED <<xrpl, events, store, wallet, short>>
  BY DEF RequestFails, watcherVars
<1>2. WatcherKept' /\ ProcKept' /\ AtStart'
  BY <1>1, FinishKeeps DEF BotInv
<1>3. TxsKept'
  BY <1>1, AbandonedKept
<1>4. QED
  BY <1>1, <1>2, <1>3, FaultCounted DEF BotInv, HistoryKept, CountersKept

LEMMA RestartKeeps ==
  ASSUME BotInv, NEW stored \in SUBSET store, Restart(stored), TxsKept'
  PROVE  BotInv'
<1>1. WatcherKept' /\ ProcKept'
  BY ExecutorBounds DEF Restart, BotInv, WatcherKept, ProcKept, PollsOver
<1>2. QED
  BY <1>1, FaultCounted DEF Restart, BotInv, HistoryKept, CountersKept

LEMMA CrashKeeps ==
  ASSUME BotInv, Crash
  PROVE  BotInv'
<1>1. Restart(store) /\ TxsKept'
  BY AbandonedKept DEF Crash, Restart
<1>2. QED
  BY <1>1, RestartKeeps

LEMMA CrashWhileSavingKeeps ==
  ASSUME BotInv, CrashWhileSaving
  PROVE  BotInv'
<1>1. Restart({}) /\ txs # <<>> /\ Head(txs).awaited /\ txs' = Tail(txs) /\ UNCHANGED xrpl
  BY DEF CrashWhileSaving, Restart
<1>2. TxsKept'
  BY <1>1, TailKeeps
<1>3. QED
  BY <1>1, <1>2, RestartKeeps

LEMMA PaymentKeeps ==
  ASSUME BotInv, NEW ledger \in 1 .. MaxLedger, NEW tag \in Tags \cup {NoTag},
         NEW amount \in 1 .. MaxAmount, PaymentValidated(ledger, tag, amount)
  PROVE  BotInv' /\ \A i \in DOMAIN xrpl : i \in DOMAIN xrpl' /\ xrpl'[i] = xrpl[i]
<1> DEFINE e == [ledger |-> ledger, tag |-> tag, amount |-> amount]
<1>1. /\ xrpl' = Append(xrpl, e) /\ Len(xrpl) < Cardinality(DepositIds)
      /\ UNCHANGED <<lastSeenLedger, polls, proc, store, wallet, txs, handed, short, faults>>
  BY DEF PaymentValidated
<1>2. e \in Entries
  BY DEF Entries
<1>3. xrpl \in Seq(Entries) /\ Len(xrpl) \in Nat /\ Cardinality(DepositIds) \in Nat
  BY ExecutorBounds, FS_CardinalityType DEF BotInv, HistoryKept
<1> HIDE DEF e
<1>4. /\ xrpl' \in Seq(Entries) /\ Len(xrpl') = Len(xrpl) + 1
      /\ DOMAIN xrpl' = 1 .. Len(xrpl) + 1 /\ DOMAIN xrpl = 1 .. Len(xrpl)
      /\ xrpl'[Len(xrpl) + 1] = e
      /\ \A i \in DOMAIN xrpl : xrpl'[i] = xrpl[i]
  BY <1>1, <1>2, <1>3
<1>5. HistoryKept'
  BY <1>1, <1>3, <1>4 DEF HistoryKept
<1>6. \A i \in DOMAIN xrpl : i \in DOMAIN xrpl' /\ xrpl'[i] = xrpl[i]
  BY <1>3, <1>4
<1>7. PaymentsIn(xrpl) \subseteq PaymentsIn(xrpl')
  BY <1>6 DEF PaymentsIn
<1>8. PollsOver(Len(xrpl)) \subseteq PollsOver(Len(xrpl'))
  BY <1>3, <1>4 DEF PollsOver
<1>9. WatcherKept' /\ ProcKept'
  BY <1>1, <1>7, <1>8 DEF BotInv, WatcherKept, ProcKept
<1>10. TxsKept'
  BY <1>1, <1>6, <1>7 DEF BotInv, TxsKept, PaymentsIn
<1>11. events' \subseteq PaymentsIn(xrpl')
  <2>1. CASE tag = NoTag
    BY <1>7, <2>1 DEF PaymentValidated, BotInv, CountersKept
  <2>2. CASE tag # NoTag
    <3>1. Len(xrpl) + 1 \in PaymentsIn(xrpl')
      BY <1>3, <1>4, <2>2 DEF PaymentsIn, e
    <3>2. QED
      BY <1>7, <2>2, <3>1 DEF PaymentValidated, BotInv, CountersKept
  <2>3. QED
    BY <2>1, <2>2
<1>12. QED
  BY <1>1, <1>5, <1>6, <1>7, <1>9, <1>10, <1>11 DEF BotInv, CountersKept

LEMMA FrameKeeps ==
  ASSUME BotInv, UNCHANGED execVars
  PROVE  BotInv'
BY DEF BotInv, HistoryKept, WatcherKept, ProcKept, TxsKept, CountersKept, PaymentsIn, execVars

\* Every step keeps what the bot remembers in order.
LEMMA BotStep == BotInv /\ TypeOK /\ [ExecNext]_allVars => BotInv'
<1> SUFFICES ASSUME BotInv, TypeOK, [ExecNext]_allVars PROVE BotInv'
  OBVIOUS
<1>1. CASE Watch
  BY <1>1, StartPollKeeps, PollResponseKeeps DEF Watch
<1>2. CASE \E i \in events : TxEvent(i)
  BY <1>2, TxEventKeeps
<1>3. CASE Bridge
  BY <1>3, ReadKeeps, UseExistingKeeps, SubmitTransferKeeps, SubmitDirectMintKeeps DEF Bridge
<1>4. CASE Mine
  BY <1>4, MineTransferKeeps, MineDirectMintKeeps DEF Mine
<1>5. CASE Faults
  BY <1>5, PollFailsKeeps, EventLostKeeps, RequestFailsKeeps, CrashKeeps,
     CrashWhileSavingKeeps DEF Faults
<1>6. CASE \E ledger \in 1 .. MaxLedger, tag \in Tags \cup {NoTag}, amount \in 1 .. MaxAmount :
             PaymentValidated(ledger, tag, amount)
  BY <1>6, PaymentKeeps
<1>7. CASE Contracts
  BY <1>7, FrameKeeps DEF Contracts
<1>8. CASE UNCHANGED allVars
  BY <1>8, FrameKeeps DEF allVars
<1>9. QED
  BY <1>1, <1>2, <1>3, <1>4, <1>5, <1>6, <1>7, <1>8 DEF ExecNext

(***************************************************************************)
(* The bridge under the bot: every step of the composition is a step of    *)
(* DirectMint or leaves it alone.                                          *)
(***************************************************************************)
\* FXRP reach an adapter from outside or move from it to the vault, so no
\* adapter ever holds more than has arrived.
LEMMA BalanceBounded ==
  ASSUME BridgeInv, [Next]_vars
  PROVE  BridgeInv'
<1>0. IInv' /\ TypeOK
  BY InvStep DEF BridgeInv, IInv
<1> USE DEF managerVars, tagVars, mintVars, tokenVars, queueVars, adminVars
<1>1. ASSUME NEW b \in Adapters, NEW x \in 1 .. MaxSupply, FAssetsArrive(b, x)
      PROVE  \A a \in Adapters : balance'[a] <= supply'
  <2>1. /\ supply' = supply + x /\ supply \in Nat /\ x \in Nat
        /\ balance' = [balance EXCEPT ![b] = @ + x]
    BY <1>1, SupplyAssumption DEF FAssetsArrive, BridgeInv, IInv, TypeOK
  <2>2. \A a \in Adapters : balance[a] \in Nat /\ a \in DOMAIN balance
    BY <1>0 DEF TypeOK
  <2>3. QED
    BY <2>1, <2>2 DEF BridgeInv
<1>2. ASSUME NEW b \in Adapters, NEW d \in DepositIds, settleDirectMint(b, d)
      PROVE  \A a \in Adapters : balance'[a] <= supply'
  <2>1. pendingDirectMints[b][d].assets \in Nat
    BY <1>0 DEF TypeOK, Mints, NoMint
  <2>2. /\ balance[b] \in Nat /\ balance[b] >= pendingDirectMints[b][d].assets
        /\ balance' = [balance EXCEPT ![b] = @ - pendingDirectMints[b][d].assets,
                                      ![Vault] = @ + pendingDirectMints[b][d].assets]
    BY <1>0, <1>2 DEF TypeOK, settleDirectMint, settleFAssetDeposit
  <2>3. ASSUME NEW a \in Adapters PROVE balance'[a] <= balance[a] /\ balance'[a] \in Nat
    <3>1. a # Vault /\ a \in DOMAIN balance /\ balance[a] \in Nat
      BY <1>0, VaultAssumption DEF TypeOK
    <3>2. balance'[a] = IF a = b THEN balance[b] - pendingDirectMints[b][d].assets
                                 ELSE balance[a]
      BY <2>2, <3>1
    <3>3. QED
      BY <2>1, <2>2, <3>1, <3>2
  <2>4. supply' = supply /\ supply \in Nat /\ \A a \in Adapters : balance[a] \in Nat
    BY <1>0, <1>2, SupplyAssumption DEF TypeOK, settleDirectMint
  <2>5. QED
    BY <2>3, <2>4 DEF BridgeInv
<1>3. CASE UNCHANGED <<balance, supply>>
  BY <1>0, <1>3 DEF BridgeInv
<1>4. \/ UNCHANGED <<balance, supply>>
      \/ \E b \in Adapters, x \in 1 .. MaxSupply : FAssetsArrive(b, x)
      \/ \E b \in Adapters, d \in DepositIds : settleDirectMint(b, d)
  <2>1. CASE UNCHANGED vars
    BY <2>1 DEF vars
  <2>2. CASE Administration
    BY <2>2 DEF Administration, pauseAdapter, unpauseAdapter, pauseVault, unpauseVault,
                setFAssetAdapter, setDefaultDirectMintExecutor
  <2>3. QED
    BY <2>1, <2>2 DEF Next, registerMintingTag, processDirectMint, setTagExecutor,
                      ExecutorCooldownElapses
<1>5. QED
  BY <1>0, <1>1, <1>2, <1>3, <1>4 DEF BridgeInv

\* The bot's transfers and direct mints, as calls of the bridge.
LEMMA TransferIsArrival ==
  ASSUME BotInv, BridgeInv, txs # <<>>, FAssetsArrive(Adapter, Head(txs).amount)
  PROVE  Next
<1>1. Head(txs).amount \in Nat \ {0}
  BY HeadType DEF Txs
<1>2. Head(txs).amount \in 1 .. MaxSupply
  BY <1>1, SupplyAssumption DEF FAssetsArrive, BridgeInv, IInv, TypeOK
<1>3. QED
  BY <1>2, BotAssumption DEF Next

LEMMA MintIsProcess ==
  ASSUME BotInv, BridgeInv, txs # <<>>,
         processDirectMint(Adapter, Bot, xrpl[Head(txs).payment].tag,
                           Head(txs).payment, Head(txs).amount)
  PROVE  Next
<1> DEFINE tx == Head(txs)
<1>1. tx.payment \in DepositIds /\ xrpl[tx.payment].tag \in Tags /\ tx.amount \in Nat \ {0}
  BY HeadType DEF Txs
<1>2. tx.amount = Unallocated(Adapter)
  BY DEF processDirectMint
<1>3. /\ balance[Adapter] \in Nat /\ totalPendingFAssets[Adapter] \in Nat
      /\ balance[Adapter] <= supply /\ supply \in 0 .. MaxSupply
  BY BotAssumption DEF BridgeInv, IInv, TypeOK
<1>4. tx.amount \in 1 .. MaxSupply
  BY <1>1, <1>2, <1>3, SupplyAssumption DEF Unallocated
<1>5. QED
  BY <1>1, <1>4, BotAssumption DEF Next

LEMMA StepIsBridge ==
  ASSUME BotInv, BridgeInv, [ExecNext]_allVars
  PROVE  [Next]_vars
<1>1. CASE Watch
  BY <1>1 DEF Watch, StartPoll, PollResponse
<1>2. CASE \E i \in events : TxEvent(i)
  BY <1>2 DEF TxEvent
<1>3. CASE Bridge
  BY <1>3 DEF Bridge, ReadTagUser, ReadPendingDeposit, ReadAdapterBalance, ReadTotalPending,
              SubmitTransfer, UseExistingBalance, ReadFinalBalance, ReadFinalTotal,
              SubmitDirectMint
<1>4. CASE MineTransfer
  BY <1>4, TransferIsArrival DEF MineTransfer
<1>5. CASE MineDirectMint
  BY <1>5, MintIsProcess DEF MineDirectMint
<1>6. CASE Faults
  BY <1>6, MintIsProcess
  DEF Faults, PollFails, EventLost, RequestFails, Crash, CrashWhileSaving
<1>7. CASE \E ledger \in 1 .. MaxLedger, tag \in Tags \cup {NoTag}, amount \in 1 .. MaxAmount :
             PaymentValidated(ledger, tag, amount)
  BY <1>7 DEF PaymentValidated
<1>8. CASE Contracts
  BY <1>8, BotAssumption DEF Contracts, Next, Administration
<1>9. CASE UNCHANGED allVars
  BY <1>9 DEF allVars
<1>10. QED
  BY <1>1, <1>2, <1>3, <1>4, <1>5, <1>6, <1>7, <1>8, <1>9 DEF ExecNext, Mine

(***************************************************************************)
(* The store and the records of the adapter.                               *)
(***************************************************************************)
\* A processed deposit stays processed.
LEMMA ProcessedStays ==
  ASSUME TypeOK, [Next]_vars
  PROVE  \A i : Processed(i) => i \in processedDirectMints'[Adapter]
<1>1. ASSUME NEW a \in Adapters, NEW e \in Executors, NEW t \in Tags, NEW d \in DepositIds,
             NEW x \in 1 .. MaxSupply, processDirectMint(a, e, t, d, x)
      PROVE  \A i : Processed(i) => i \in processedDirectMints'[Adapter]
  <2>1. processedDirectMints' = [processedDirectMints EXCEPT ![a] = @ \cup {d}]
    BY <1>1 DEF processDirectMint, recordDirectMint
  <2>2. QED
    BY <2>1, BotAssumption DEF TypeOK, Processed
<1>2. ASSUME UNCHANGED processedDirectMints
      PROVE  \A i : Processed(i) => i \in processedDirectMints'[Adapter]
  BY <1>2 DEF Processed
<1>3. CASE UNCHANGED vars
  BY <1>2, <1>3 DEF vars, mintVars
<1>4. CASE Administration
  BY <1>2, <1>4
  DEF Administration, mintVars, pauseAdapter, unpauseAdapter, pauseVault, unpauseVault,
      setFAssetAdapter, setDefaultDirectMintExecutor
<1>5. QED
  BY <1>1, <1>2, <1>3, <1>4
  DEF Next, mintVars, registerMintingTag, settleDirectMint, setTagExecutor,
      ExecutorCooldownElapses, FAssetsArrive

\* What the bot's direct mint leaves on the adapter.
LEMMA MintRecords ==
  ASSUME TypeOK, NEW t \in Tags, NEW i \in DepositIds, NEW x,
         processDirectMint(Adapter, Bot, t, i, x)
  PROVE  /\ i \in processedDirectMints'[Adapter]
         /\ pendingDirectMints'[Adapter][i].tag = t
         /\ pendingDirectMints'[Adapter][i].assets = x
         /\ \A j \in DepositIds \ {i} :
              pendingDirectMints'[Adapter][j] = pendingDirectMints[Adapter][j]
<1> DEFINE m == [receiver |-> tagUser[Adapter][t], tag |-> t, assets |-> Unallocated(Adapter)]
<1>1. /\ pendingDirectMints' = [pendingDirectMints EXCEPT ![Adapter][i] = m]
      /\ processedDirectMints' = [processedDirectMints EXCEPT ![Adapter] = @ \cup {i}]
      /\ Unallocated(Adapter) = x
  BY DEF processDirectMint, recordDirectMint
<1>2. m.tag = t /\ m.assets = x
  BY <1>1
<1> HIDE DEF m
<1>3. QED
  BY <1>1, <1>2, BotAssumption DEF TypeOK

\* A step of the composition calls processDirectMint only when it mines the
\* bot's next transaction; otherwise no direct mint is recorded.
LEMMA NothingRecorded ==
  ASSUME TypeOK, [ExecNext]_allVars
  PROVE  \/ \A i \in DepositIds : pendingDirectMints'[Adapter][i] # NoMint =>
              pendingDirectMints'[Adapter][i] = pendingDirectMints[Adapter][i]
         \/ /\ txs # <<>> /\ Head(txs).kind = "mint" /\ UNCHANGED <<xrpl, short>>
            /\ processDirectMint(Adapter, Bot, xrpl[Head(txs).payment].tag,
                                 Head(txs).payment, Head(txs).amount)
<1> DEFINE NothingNew == \A i \in DepositIds : pendingDirectMints'[Adapter][i] # NoMint =>
                           pendingDirectMints'[Adapter][i] = pendingDirectMints[Adapter][i]
<1>1. ASSUME UNCHANGED pendingDirectMints PROVE NothingNew
  BY <1>1
<1>2. ASSUME NEW d \in DepositIds, settleDirectMint(Adapter, d) PROVE NothingNew
  <2>1. pendingDirectMints' = [pendingDirectMints EXCEPT ![Adapter][d] = NoMint]
    BY <1>2 DEF settleDirectMint, releaseDirectMint
  <2>2. QED
    BY <2>1, BotAssumption DEF TypeOK
<1> HIDE DEF NothingNew
<1> SUFFICES \/ NothingNew
             \/ /\ txs # <<>> /\ Head(txs).kind = "mint" /\ UNCHANGED <<xrpl, short>>
                /\ processDirectMint(Adapter, Bot, xrpl[Head(txs).payment].tag,
                                     Head(txs).payment, Head(txs).amount)
  BY DEF NothingNew
<1>3. CASE Watch
  BY <1>1, <1>3 DEF Watch, StartPoll, PollResponse, vars, mintVars
<1>4. CASE \E i \in events : TxEvent(i)
  BY <1>1, <1>4 DEF TxEvent, vars, mintVars
<1>5. CASE Bridge
  BY <1>1, <1>5
  DEF Bridge, ReadTagUser, ReadPendingDeposit, ReadAdapterBalance, ReadTotalPending,
      SubmitTransfer, UseExistingBalance, ReadFinalBalance, ReadFinalTotal,
      SubmitDirectMint, vars, mintVars
<1>6. CASE MineTransfer
  BY <1>1, <1>6 DEF MineTransfer, FAssetsArrive, vars, mintVars
<1>7. CASE MineDirectMint
  BY <1>1, <1>7 DEF MineDirectMint, watcherVars, vars, mintVars
<1>8. CASE Faults
  BY <1>1, <1>8 DEF Faults, PollFails, EventLost, RequestFails, Crash, CrashWhileSaving,
                    Restart, vars, mintVars
<1>9. CASE \E ledger \in 1 .. MaxLedger, tag \in Tags \cup {NoTag}, amount \in 1 .. MaxAmount :
             PaymentValidated(ledger, tag, amount)
  BY <1>1, <1>9 DEF PaymentValidated, vars, mintVars
<1>10. CASE Contracts
  BY <1>1, <1>2, <1>10
  DEF Contracts, registerMintingTag, ExecutorCooldownElapses, pauseAdapter, unpauseAdapter,
      mintVars
<1>11. CASE UNCHANGED allVars
  BY <1>1, <1>11 DEF allVars, vars, mintVars
<1>12. QED
  BY <1>3, <1>4, <1>5, <1>6, <1>7, <1>8, <1>9, <1>10, <1>11 DEF ExecNext, Mine

\* A payment is stored only with the receipt of its direct mint.
LEMMA StoreSoundStep ==
  ASSUME BotInv, BridgeInv, StoreSound, [ExecNext]_allVars
  PROVE  StoreSound'
<1>1. \A i : Processed(i) => i \in processedDirectMints'[Adapter]
  BY StepIsBridge, ProcessedStays DEF BridgeInv, IInv
<1>2. ASSUME store' \subseteq store PROVE StoreSound'
  BY <1>1, <1>2 DEF StoreSound, Processed
<1>3. CASE MineDirectMint
  <2>1. CASE store' \subseteq store
    BY <1>2, <2>1
  <2>2. CASE ~ (store' \subseteq store)
    <3>1. /\ Head(txs).awaited /\ txs # <<>> /\ store' = store \cup {proc.payment}
          /\ processDirectMint(Adapter, Bot, xrpl[Head(txs).payment].tag,
                               Head(txs).payment, Head(txs).amount)
      BY <1>3, <2>2 DEF MineDirectMint, ReceiveMintReceipt
    <3>2. Head(txs).payment = proc.payment /\ proc.payment \in DepositIds
          /\ xrpl[proc.payment].tag \in Tags
      BY <3>1, HeadType
    <3>3. proc.payment \in processedDirectMints'[Adapter]
      BY <3>1, <3>2, MintRecords DEF BridgeInv, IInv
    <3>4. QED
      BY <1>1, <3>1, <3>3 DEF StoreSound, Processed
  <2>3. QED
    BY <2>1, <2>2
<1>4. CASE Watch
  BY <1>2, <1>4 DEF Watch, StartPoll, PollResponse
<1>5. CASE \E i \in events : TxEvent(i)
  BY <1>2, <1>5 DEF TxEvent
<1>6. CASE Bridge
  BY <1>2, <1>6
  DEF Bridge, ReadTagUser, ReadPendingDeposit, ReadAdapterBalance, ReadTotalPending,
      SubmitTransfer, UseExistingBalance, ReadFinalBalance, ReadFinalTotal, SubmitDirectMint
<1>7. CASE MineTransfer
  BY <1>2, <1>7 DEF MineTransfer, ReceiveTransferReceipt
<1>8. CASE Faults
  BY <1>2, <1>8
  DEF Faults, PollFails, EventLost, RequestFails, Crash, CrashWhileSaving, Restart
<1>9. CASE \E ledger \in 1 .. MaxLedger, tag \in Tags \cup {NoTag}, amount \in 1 .. MaxAmount :
             PaymentValidated(ledger, tag, amount)
  BY <1>2, <1>9 DEF PaymentValidated
<1>10. CASE Contracts \/ UNCHANGED allVars
  BY <1>2, <1>10 DEF Contracts, allVars, execVars
<1>11. QED
  BY <1>3, <1>4, <1>5, <1>6, <1>7, <1>8, <1>9, <1>10 DEF ExecNext, Mine

(***************************************************************************)
(* What the bot's transfer brings covers its direct mint.                  *)
(***************************************************************************)
\* The history of the account and the payments the bot was short for only grow.
LEMMA HistoryGrows ==
  ASSUME BotInv, [ExecNext]_allVars
  PROVE  /\ \A i \in DOMAIN xrpl : i \in DOMAIN xrpl' /\ xrpl'[i] = xrpl[i]
         /\ short \subseteq short'
<1>1. ASSUME UNCHANGED xrpl, short \subseteq short'
      PROVE  /\ \A i \in DOMAIN xrpl : i \in DOMAIN xrpl' /\ xrpl'[i] = xrpl[i]
             /\ short \subseteq short'
  BY <1>1
<1>2. CASE \E ledger \in 1 .. MaxLedger, tag \in Tags \cup {NoTag}, amount \in 1 .. MaxAmount :
             PaymentValidated(ledger, tag, amount)
  BY <1>2, PaymentKeeps DEF PaymentValidated
<1>3. CASE Watch
  BY <1>1, <1>3 DEF Watch, StartPoll, PollResponse
<1>4. CASE \E i \in events : TxEvent(i)
  BY <1>1, <1>4 DEF TxEvent
<1>5. CASE Bridge
  BY <1>1, <1>5
  DEF Bridge, watcherVars, ReadTagUser, ReadPendingDeposit, ReadAdapterBalance,
      ReadTotalPending, SubmitTransfer, UseExistingBalance, ReadFinalBalance,
      ReadFinalTotal, SubmitDirectMint
<1>6. CASE Mine
  BY <1>1, <1>6 DEF Mine, MineTransfer, MineDirectMint, watcherVars
<1>7. CASE Faults
  BY <1>1, <1>7
  DEF Faults, watcherVars, PollFails, EventLost, RequestFails, Crash, CrashWhileSaving, Restart
<1>8. CASE Contracts \/ UNCHANGED allVars
  BY <1>1, <1>8 DEF Contracts, allVars, execVars
<1>9. QED
  BY <1>2, <1>3, <1>4, <1>5, <1>6, <1>7, <1>8 DEF ExecNext

Pooled == Unallocated(Adapter)
OwedNow == totalPendingFAssets[Adapter]

LEMMA PoolType ==
  ASSUME BridgeInv
  PROVE  /\ Pooled \in Nat /\ OwedNow \in Nat /\ balance[Adapter] \in Nat
         /\ Pooled = balance[Adapter] - OwedNow
BY BotAssumption DEF BridgeInv, IInv, TypeOK, Solvent, Pooled, OwedNow, Unallocated

\* Transactions that are mined, abandoned or left alone keep their cover.
LEMMA MintsFrame ==
  ASSUME BotInv, MintsCovered,
         \A i \in DOMAIN xrpl : i \in DOMAIN xrpl' /\ xrpl'[i] = xrpl[i],
         short \subseteq short',
         \A i \in DOMAIN txs' : txs'[i].kind = "mint" =>
           \E j \in DOMAIN txs : /\ txs[j].kind = "mint" /\ txs[j].amount = txs'[i].amount
                                 /\ txs[j].payment = txs'[i].payment
  PROVE  MintsCovered'
<1>1. ASSUME NEW i \in DOMAIN txs', txs'[i].kind = "mint", txs'[i].payment \notin short'
      PROVE  txs'[i].amount >= xrpl'[txs'[i].payment].amount
  <2>1. PICK j \in DOMAIN txs : /\ txs[j].kind = "mint" /\ txs[j].amount = txs'[i].amount
                                /\ txs[j].payment = txs'[i].payment
    BY <1>1
  <2>2. txs[j].payment \in DOMAIN xrpl
    BY DEF BotInv, TxsKept, PaymentsIn
  <2>3. txs[j].amount >= xrpl[txs[j].payment].amount
    BY <1>1, <2>1 DEF MintsCovered
  <2>4. QED
    BY <2>1, <2>2, <2>3
<1>2. QED
  BY <1>1 DEF MintsCovered

\* A provisioned payment that stands still stays covered, if the step leaves
\* what is unallocated and lets go of no debt but by paying it.
LEMMA CoverFrame ==
  ASSUME BotInv, BridgeInv, BridgeInv', Covered,
         \A i \in DOMAIN xrpl : i \in DOMAIN xrpl' /\ xrpl'[i] = xrpl[i],
         short \subseteq short',
         Provisioned' => /\ proc' = proc /\ txs' = txs
                         /\ Pooled' >= Pooled /\ OwedNow' <= OwedNow
  PROVE  Covered'
<1>1. SUFFICES ASSUME Provisioned'
      PROVE  /\ txs' = <<>>
             /\ Pooled' >= Payment'.amount
             /\ proc'.pc = "finalTotal" => proc'.adapterBalance - OwedNow' >= Payment'.amount
             /\ proc'.pc = "submit" => proc'.observed >= Payment'.amount
  BY DEF Covered, Pooled, OwedNow
<1>2. proc' = proc /\ txs' = txs /\ Pooled' >= Pooled /\ OwedNow' <= OwedNow
  BY <1>1
<1>3. Provisioned
  BY <1>1, <1>2 DEF Provisioned
<1>4. proc.payment \in DOMAIN xrpl
  BY <1>3 DEF Provisioned, BotInv, ProcKept, PaymentsIn
<1>5. Payment' = Payment
  BY <1>2, <1>4 DEF Payment
<1>6. Payment.amount \in Nat
  BY <1>4, EntryType DEF BotInv, Payment, Entries
<1>7. /\ txs = <<>> /\ Pooled >= Payment.amount
      /\ proc.pc = "finalTotal" => proc.adapterBalance - OwedNow >= Payment.amount
      /\ proc.pc = "submit" => proc.observed >= Payment.amount
  BY <1>3 DEF Covered, Pooled, OwedNow
<1>8. Pooled \in Nat /\ OwedNow \in Nat /\ Pooled' \in Nat /\ OwedNow' \in Nat
  BY PoolType, BotAssumption
  DEF BridgeInv, IInv, TypeOK, Solvent, Pooled, OwedNow, Unallocated
<1>9. proc.pc = "finalTotal" => proc.adapterBalance \in Nat
  BY <1>3 DEF Provisioned, BotInv, ProcKept
<1>10. QED
  BY <1>2, <1>5, <1>6, <1>7, <1>8, <1>9

\* A payment that ends, or that has just been taken, is not provisioned.
LEMMA NotProvisioned ==
  AtStart' => ~ Provisioned'
BY DEF AtStart, Provisioned

\* Reading the adapter keeps the cover: a settlement between the two reads only
\* lowers what is owed.
LEMMA ReadCover ==
  ASSUME BotInv, BridgeInv, Covered,
         \/ ReadTagUser \/ ReadPendingDeposit \/ ReadAdapterBalance \/ ReadTotalPending
         \/ ReadFinalBalance \/ ReadFinalTotal
  PROVE  Covered'
<1> USE DEF Running
<1>1. /\ proc # Idle /\ proc.pc \notin {"transfer", "mint"}
      /\ UNCHANGED <<vars, xrpl, events, store, wallet, txs, short, faults>>
  BY DEF ReadTagUser, ReadPendingDeposit, ReadAdapterBalance, ReadTotalPending,
         ReadFinalBalance, ReadFinalTotal, watcherVars
<1>2. UNCHANGED <<balance, totalPendingFAssets>>
  BY <1>1 DEF vars, tokenVars, mintVars
<1>3. proc \in Jobs
  BY <1>1 DEF BotInv, ProcKept
<1>4. CASE ~ Provisioned'
  BY <1>4 DEF Covered
<1>5. CASE Finish(store)
  <2>1. AtStart'
    BY <1>1, <1>5, EndKeeps
  <2>2. QED
    BY <1>4, <2>1, NotProvisioned
<1>6. CASE ReadTagUser \/ ReadPendingDeposit \/ ReadAdapterBalance \/ ReadTotalPending
  <2>1. Finish(store) \/ proc'.pc \in {"pendingDeposit", "balances"}
    BY <1>3, <1>6 DEF ReadTagUser, ReadPendingDeposit, ReadAdapterBalance, ReadTotalPending,
                      GoTo, Jobs
  <2>2. QED
    BY <1>4, <1>5, <2>1 DEF Provisioned
<1>7. CASE ReadFinalBalance \/ (ReadFinalTotal /\ ~ Finish(store))
  <2>1. /\ proc'.payment = proc.payment
        /\ proc.pc \in {"finalBalance", "finalTotal"}
        /\ proc.pc = "finalBalance" => /\ proc'.pc = "finalTotal"
                                       /\ proc'.adapterBalance = balance[Adapter]
        /\ proc.pc = "finalTotal" => /\ proc'.pc = "submit"
                                     /\ proc'.observed = proc.adapterBalance - OwedNow
    BY <1>3, <1>7 DEF ReadFinalBalance, ReadFinalTotal, GoTo, Jobs, OwedNow
  <2>2. SUFFICES ASSUME Provisioned' PROVE Covered'
    BY <1>4
  <2>3. Provisioned
    BY <1>1, <2>1, <2>2 DEF Provisioned
  <2>4. Payment' = Payment
    BY <1>1, <2>1 DEF Payment
  <2>5. /\ txs = <<>> /\ Pooled >= Payment.amount
        /\ proc.pc = "finalTotal" => proc.adapterBalance - OwedNow >= Payment.amount
    BY <2>3 DEF Covered, Pooled, OwedNow
  <2>6. Pooled' = Pooled /\ OwedNow' = OwedNow
    BY <1>2 DEF Pooled, OwedNow, Unallocated
  <2>7. proc'.pc = "finalTotal" => proc'.adapterBalance - OwedNow' >= Payment'.amount
    BY <2>1, <2>4, <2>5, <2>6, PoolType
  <2>8. proc'.pc = "submit" => proc'.observed >= Payment'.amount
    BY <2>1, <2>4, <2>5
  <2>9. QED
    BY <1>1, <2>4, <2>5, <2>6, <2>7, <2>8 DEF Covered, Pooled, OwedNow
<1>8. QED
  BY <1>5, <1>6, <1>7

\* The handler awaits the receipt of its transfer after every older transaction,
\* so with it the FXRP of the payment are there and nothing is left to mine.
LEMMA TransferCover ==
  ASSUME BotInv, BridgeInv, Covered, MineTransfer
  PROVE  Covered'
<1> DEFINE tx == Head(txs)
<1>1. txs # <<>> /\ txs' = Tail(txs) /\ UNCHANGED <<xrpl, short>>
  BY DEF MineTransfer, watcherVars
<1>2. SUFFICES ASSUME Provisioned' PROVE Covered'
  BY DEF Covered
<1>3. tx.awaited
  <2>1. SUFFICES ASSUME ~ tx.awaited PROVE FALSE
    OBVIOUS
  <2>2. proc' = proc
    BY <2>1 DEF MineTransfer
  <2>3. Provisioned
    BY <1>1, <1>2, <2>2 DEF Provisioned
  <2>4. QED
    BY <1>1, <2>3 DEF Covered
<1>4. txs' = <<>> /\ proc # Idle /\ proc.payment = tx.payment /\ tx.payment \in DOMAIN xrpl
  BY <1>1, <1>3, TailKeeps, HeadType DEF PaymentsIn
<1>5. ~ Finish(store)
  <2>1. Finish(store) => AtStart'
    BY <1>1, <1>4, FinishKeeps DEF BotInv
  <2>2. QED
    BY <1>2, <2>1, NotProvisioned
<1>6. /\ FAssetsArrive(Adapter, tx.amount)
      /\ GoTo([proc EXCEPT !.pc = "finalBalance"])
  BY <1>3, <1>5 DEF MineTransfer, ReceiveTransferReceipt
<1>7. tx.amount = Payment.amount /\ tx.amount \in Nat
  <2>1. tx.kind = "transfer" /\ tx \in Txs /\ tx = txs[1] /\ 1 \in DOMAIN txs
    BY <1>1, HeadType DEF MineTransfer
  <2>2. QED
    BY <1>4, <2>1 DEF BotInv, TxsKept, Payment, Txs
<1>8. /\ balance'[Adapter] = balance[Adapter] + tx.amount
      /\ totalPendingFAssets' = totalPendingFAssets
  BY <1>6, BotAssumption DEF FAssetsArrive, mintVars, BridgeInv, IInv, TypeOK
<1>9. Pooled' >= Payment.amount
  BY <1>7, <1>8, PoolType DEF Pooled, OwedNow, Unallocated
<1>10. proc'.pc = "finalBalance" /\ proc'.payment = proc.payment
  BY <1>4, <1>6 DEF GoTo, BotInv, ProcKept, Jobs
<1>11. Payment' = Payment
  BY <1>1, <1>10 DEF Payment
<1>12. QED
  BY <1>4, <1>9, <1>10, <1>11 DEF Covered, Pooled

\* What others do with the contracts takes nothing that is unallocated.
LEMMA ContractsPool ==
  ASSUME BridgeInv, Contracts
  PROVE  Pooled' >= Pooled /\ OwedNow' <= OwedNow
<1>1. CASE UNCHANGED <<balance, totalPendingFAssets>>
  BY <1>1, PoolType DEF Pooled, OwedNow, Unallocated
<1>2. ASSUME NEW d \in DepositIds, settleDirectMint(Adapter, d)
      PROVE  Pooled' >= Pooled /\ OwedNow' <= OwedNow
  <2> DEFINE x == pendingDirectMints[Adapter][d].assets
  <2>1. x \in Nat
    BY BotAssumption DEF BridgeInv, IInv, TypeOK, Mints, NoMint
  <2>2. totalPendingFAssets' = [totalPendingFAssets EXCEPT ![Adapter] = @ - x]
    BY <1>2 DEF settleDirectMint, releaseDirectMint
  <2>3. balance' = [balance EXCEPT ![Adapter] = @ - x, ![Vault] = @ + x]
    BY <1>2 DEF settleDirectMint, settleFAssetDeposit
  <2> HIDE DEF x
  <2>4. totalPendingFAssets'[Adapter] = totalPendingFAssets[Adapter] - x
    BY <2>2, BotAssumption DEF BridgeInv, IInv, TypeOK
  <2>5. balance'[Adapter] = balance[Adapter] - x
    <3>1. Adapter # Vault /\ Adapter \in DOMAIN balance
      BY BotAssumption, VaultAssumption DEF BridgeInv, IInv, TypeOK
    <3>2. QED
      BY <2>3, <3>1
  <2>6. QED
    BY <2>1, <2>4, <2>5, PoolType DEF Pooled, OwedNow, Unallocated
<1>3. QED
  BY <1>1, <1>2
  DEF Contracts, registerMintingTag, ExecutorCooldownElapses, pauseAdapter, unpauseAdapter,
      tokenVars, mintVars

LEMMA CoveredStep ==
  ASSUME BotInv, BridgeInv, Covered, [ExecNext]_allVars
  PROVE  Covered'
<1>1. /\ \A i \in DOMAIN xrpl : i \in DOMAIN xrpl' /\ xrpl'[i] = xrpl[i]
      /\ short \subseteq short' /\ BridgeInv'
  BY HistoryGrows, StepIsBridge, BalanceBounded
<1>2. CASE ~ Provisioned'
  BY <1>2 DEF Covered
<1>3. CASE AtStart'
  BY <1>2, <1>3, NotProvisioned
<1>4. CASE proc' = proc /\ txs' = txs /\ UNCHANGED vars
  <2>1. Pooled' >= Pooled /\ OwedNow' <= OwedNow
    BY <1>4, PoolType DEF Pooled, OwedNow, Unallocated, vars, tokenVars, mintVars
  <2>2. QED
    BY <1>1, <1>4, <2>1, CoverFrame
<1>5. CASE Watch
  BY <1>3, <1>4, <1>5, PollResponseKeeps DEF Watch, StartPoll, PollResponse
<1>6. CASE \E i \in events : TxEvent(i)
  BY <1>3, <1>4, <1>6, TxEventKeeps DEF TxEvent
<1>7. CASE SubmitTransfer \/ UseExistingBalance \/ SubmitDirectMint
  <2>1. proc # Idle /\ proc \in Jobs /\ proc.pc \in {"balances", "submit"}
    BY <1>7 DEF SubmitTransfer, UseExistingBalance, SubmitDirectMint, BalancesRead, Running,
                BotInv, ProcKept
  <2>2. CASE Finish(store)
    <3>1. UNCHANGED xrpl
      BY <1>7 DEF SubmitTransfer, UseExistingBalance, SubmitDirectMint, watcherVars
    <3>2. QED
      BY <1>3, <2>1, <2>2, <3>1, FinishKeeps DEF BotInv
  <2>3. CASE ~ Finish(store)
    <3>1. \/ proc'.pc \in {"transfer", "mint"}
          \/ proc'.payment = proc.payment /\ proc.payment \in short'
      BY <1>7, <2>1, <2>3
      DEF SubmitTransfer, UseExistingBalance, SubmitDirectMint, GoTo, Jobs
    <3>2. QED
      BY <1>2, <3>1 DEF Provisioned
  <2>4. QED
    BY <2>2, <2>3
<1>8. CASE Bridge
  BY <1>7, <1>8, ReadCover DEF Bridge
<1>9. CASE MineTransfer
  BY <1>9, TransferCover
<1>10. CASE MineDirectMint
  <2>1. CASE Head(txs).awaited
    <3>1. txs # <<>> /\ UNCHANGED xrpl /\ \E stored : Finish(stored)
      BY <1>10, <2>1 DEF MineDirectMint, ReceiveMintReceipt, watcherVars
    <3>2. QED
      BY <1>3, <2>1, <3>1, HeadType, FinishKeeps DEF BotInv
  <2>2. CASE ~ Head(txs).awaited
    <3>1. txs # <<>> /\ proc' = proc /\ short' = short
      BY <1>10, <2>2 DEF MineDirectMint
    <3>2. ~ Provisioned'
      BY <3>1 DEF Covered, Provisioned
    <3>3. QED
      BY <1>2, <3>2
  <2>3. QED
    BY <2>1, <2>2
<1>11. CASE Faults
  <2>1. CASE (\E slot \in PollSlots : PollFails(slot)) \/ (\E i \in events : EventLost(i))
    BY <1>4, <2>1 DEF PollFails, EventLost
  <2>2. CASE RequestFails
    BY <1>3, <2>2, RequestFailsKeeps
  <2>3. CASE Crash \/ CrashWhileSaving
    BY <1>2, <2>3 DEF Crash, CrashWhileSaving, Restart, Provisioned
  <2>4. QED
    BY <1>11, <2>1, <2>2, <2>3 DEF Faults
<1>12. CASE \E ledger \in 1 .. MaxLedger, tag \in Tags \cup {NoTag}, amount \in 1 .. MaxAmount :
              PaymentValidated(ledger, tag, amount)
  BY <1>4, <1>12 DEF PaymentValidated
<1>13. CASE Contracts
  BY <1>1, <1>13, ContractsPool, CoverFrame DEF Contracts, execVars
<1>14. CASE UNCHANGED allVars
  BY <1>4, <1>14 DEF allVars, execVars
<1>15. QED
  BY <1>5, <1>6, <1>8, <1>9, <1>10, <1>11, <1>12, <1>13, <1>14 DEF ExecNext, Mine

\* The bot asks the adapter for what it has computed.
LEMMA SubmitMints ==
  ASSUME BotInv, Covered, MintsCovered, SubmitDirectMint
  PROVE  MintsCovered'
<1> DEFINE tx == [kind |-> "mint", amount |-> proc.observed,
                  payment |-> proc.payment, awaited |-> TRUE]
<1>1. /\ proc # Idle /\ proc.pc = "submit" /\ UNCHANGED <<xrpl, short>>
      /\ txs' = Append(txs, tx) \/ txs' = txs
  BY DEF SubmitDirectMint, Running, watcherVars
<1>2. CASE txs' = txs
  BY <1>1, <1>2 DEF MintsCovered
<1>3. CASE txs' = Append(txs, tx)
  <2>1. proc.payment \notin short => proc.observed >= Payment.amount
    BY <1>1 DEF Covered, Provisioned
  <2>2. txs \in Seq(Txs)
    BY DEF BotInv, TxsKept
  <2>3. tx.amount = proc.observed /\ tx.payment = proc.payment
    OBVIOUS
  <2> HIDE DEF tx
  <2>4. \A i \in DOMAIN txs' : txs'[i] = tx \/ (i \in DOMAIN txs /\ txs'[i] = txs[i])
    BY <1>3, <2>2
  <2>5. QED
    BY <1>1, <2>1, <2>3, <2>4 DEF MintsCovered, Payment
<1>4. QED
  BY <1>1, <1>2, <1>3

LEMMA MintsCoveredStep ==
  ASSUME BotInv, Covered, MintsCovered, [ExecNext]_allVars
  PROVE  MintsCovered'
<1>1. /\ \A i \in DOMAIN xrpl : i \in DOMAIN xrpl' /\ xrpl'[i] = xrpl[i]
      /\ short \subseteq short'
  BY HistoryGrows
<1>2. CASE txs' = txs
  BY <1>1, <1>2, MintsFrame
<1>3. CASE txs # <<>> /\ txs' = Tail(txs)
  <2>1. txs \in Seq(Txs)
    BY DEF BotInv, TxsKept
  <2>2. \A i \in DOMAIN txs' : i + 1 \in DOMAIN txs /\ txs'[i] = txs[i + 1]
    BY <1>3, <2>1
  <2>3. QED
    BY <1>1, <2>2, MintsFrame
<1>4. CASE txs' = Abandoned
  <2>1. txs \in Seq(Txs) /\ DOMAIN txs' = DOMAIN txs
    BY <1>4 DEF BotInv, TxsKept, Abandoned
  <2>2. \A i \in DOMAIN txs : /\ txs'[i].kind = txs[i].kind
                              /\ txs'[i].amount = txs[i].amount
                              /\ txs'[i].payment = txs[i].payment
    <3>1. ASSUME NEW i \in DOMAIN txs
          PROVE  txs[i] \in Txs /\ txs'[i] = [txs[i] EXCEPT !.awaited = FALSE]
      BY <1>4, <2>1 DEF Abandoned
    <3>2. QED
      BY <3>1 DEF Txs
  <2>3. QED
    BY <1>1, <2>1, <2>2, MintsFrame
<1>5. CASE SubmitTransfer
  <2>1. txs \in Seq(Txs)
    BY DEF BotInv, TxsKept
  <2>2. PICK tx : txs' = Append(txs, tx) /\ tx.kind = "transfer"
    BY <1>5 DEF SubmitTransfer
  <2>3. \A i \in DOMAIN txs' : txs'[i] = tx \/ (i \in DOMAIN txs /\ txs'[i] = txs[i])
    BY <2>1, <2>2
  <2>4. QED
    BY <1>1, <2>2, <2>3, MintsFrame
<1>6. CASE Bridge
  BY <1>2, <1>5, <1>6, SubmitMints
  DEF Bridge, ReadTagUser, ReadPendingDeposit, ReadAdapterBalance, ReadTotalPending,
      UseExistingBalance, ReadFinalBalance, ReadFinalTotal
<1>7. CASE Mine
  BY <1>3, <1>7 DEF Mine, MineTransfer, MineDirectMint
<1>8. CASE Faults
  BY <1>2, <1>3, <1>4, <1>8
  DEF Faults, PollFails, EventLost, RequestFails, Crash, CrashWhileSaving
<1>9. CASE \/ Watch \/ (\E i \in events : TxEvent(i)) \/ Contracts
           \/ \E ledger \in 1 .. MaxLedger, tag \in Tags \cup {NoTag}, amount \in 1 .. MaxAmount :
                PaymentValidated(ledger, tag, amount)
  BY <1>2, <1>9
  DEF Watch, StartPoll, PollResponse, TxEvent, Contracts, execVars, PaymentValidated
<1>10. CASE UNCHANGED allVars
  BY <1>2, <1>10 DEF allVars, execVars
<1>11. QED
  BY <1>6, <1>7, <1>8, <1>9, <1>10 DEF ExecNext

\* What is recorded is what the bot asked for when its direct mint is mined.
LEMMA CreditedStep ==
  ASSUME BotInv, BridgeInv, MintsCovered, NeverUnderCredited, [ExecNext]_allVars
  PROVE  NeverUnderCredited'
<1>1. /\ \A i \in DOMAIN xrpl : i \in DOMAIN xrpl' /\ xrpl'[i] = xrpl[i]
      /\ short \subseteq short'
  BY HistoryGrows
<1>2. SUFFICES ASSUME NEW i \in DepositIds, pendingDirectMints'[Adapter][i] # NoMint
      PROVE  /\ i \in DOMAIN xrpl'
             /\ pendingDirectMints'[Adapter][i].tag = xrpl'[i].tag
             /\ i \notin short' => pendingDirectMints'[Adapter][i].assets >= xrpl'[i].amount
  BY DEF NeverUnderCredited, Pending
<1>3. CASE pendingDirectMints'[Adapter][i] = pendingDirectMints[Adapter][i]
  BY <1>1, <1>2, <1>3 DEF NeverUnderCredited, Pending
<1>4. CASE pendingDirectMints'[Adapter][i] # pendingDirectMints[Adapter][i]
  <2> DEFINE tx == Head(txs)
  <2>1. /\ txs # <<>> /\ tx.kind = "mint" /\ UNCHANGED <<xrpl, short>>
        /\ processDirectMint(Adapter, Bot, xrpl[tx.payment].tag, tx.payment, tx.amount)
    BY <1>2, <1>4, NothingRecorded DEF BridgeInv, IInv
  <2>2. /\ tx.payment \in DOMAIN xrpl /\ tx.payment \in DepositIds
        /\ xrpl[tx.payment].tag \in Tags /\ tx = txs[1] /\ 1 \in DOMAIN txs
    BY <2>1, HeadType DEF PaymentsIn
  <2>3. /\ pendingDirectMints'[Adapter][tx.payment].tag = xrpl[tx.payment].tag
        /\ pendingDirectMints'[Adapter][tx.payment].assets = tx.amount
        /\ \A j \in DepositIds \ {tx.payment} :
             pendingDirectMints'[Adapter][j] = pendingDirectMints[Adapter][j]
    BY <2>1, <2>2, MintRecords DEF BridgeInv, IInv
  <2>4. i = tx.payment
    BY <1>2, <1>4, <2>3
  <2>5. tx.payment \notin short => tx.amount >= xrpl[tx.payment].amount
    BY <2>1, <2>2 DEF MintsCovered
  <2>6. QED
    BY <2>1, <2>2, <2>3, <2>4, <2>5
<1>5. QED
  BY <1>3, <1>4

(***************************************************************************)
(* The theorems.                                                           *)
(***************************************************************************)
LEMMA ExecInvStep == ExecInv /\ [ExecNext]_allVars => ExecInv' /\ [Next]_vars
<1> SUFFICES ASSUME ExecInv, [ExecNext]_allVars PROVE ExecInv' /\ [Next]_vars
  OBVIOUS
<1>1. BotInv /\ BridgeInv /\ Covered /\ MintsCovered /\ StoreSound /\ NeverUnderCredited
      /\ TypeOK
  BY DEF ExecInv, CoverInv, BridgeInv, IInv
<1>2. [Next]_vars /\ BridgeInv'
  BY <1>1, StepIsBridge, BalanceBounded
<1>3. BotInv'
  BY <1>1, BotStep
<1>4. Covered' /\ MintsCovered'
  BY <1>1, CoveredStep, MintsCoveredStep
<1>5. StoreSound' /\ NeverUnderCredited'
  BY <1>1, StoreSoundStep, CreditedStep
<1>6. QED
  BY <1>2, <1>3, <1>4, <1>5 DEF ExecInv, CoverInv

LEMMA ExecInvariance == ExecSpec => []ExecInv
BY ExecInitInv, ExecInvStep, PTL DEF ExecSpec

LEMMA BotTypes == BotInv => ExecTypeOK
<1> SUFFICES ASSUME BotInv PROVE ExecTypeOK
  OBVIOUS
<1>1. PaymentsIn(xrpl) \subseteq DOMAIN xrpl
  BY DEF PaymentsIn
<1>2. proc # Idle => proc.payment \in DOMAIN xrpl /\ Payment.tag \in Tags
  BY DEF BotInv, ProcKept, PaymentsIn, Payment
<1>3. \A i \in DOMAIN txs : txs[i].amount \in Nat \ {0} /\ txs[i].payment \in DOMAIN xrpl
  <2>1. ASSUME NEW i \in DOMAIN txs PROVE txs[i] \in Txs /\ txs[i].payment \in PaymentsIn(xrpl)
    BY DEF BotInv, TxsKept
  <2>2. QED
    BY <1>1, <2>1 DEF Txs
<1>4. QED
  BY <1>1, <1>2, <1>3
  DEF ExecTypeOK, BotInv, HistoryKept, Entries, WatcherKept, CountersKept

\* The bot's memory, its store and its transactions keep their types and name
\* payments of the account, for any payments, overlapping polls and faults.
THEOREM BotTypeCorrect == ExecSpec => []ExecTypeOK
<1>1. ExecInv => ExecTypeOK
  BY BotTypes DEF ExecInv
<1>2. QED
  BY <1>1, ExecInvariance, PTL

\* processedTxHashes never makes the bot skip a payment that is not on chain,
\* whatever requests fail and wherever the process dies.
THEOREM StoreOnlyProcessed == ExecSpec => []StoreSound
<1>1. ExecInv => StoreSound
  BY DEF ExecInv
<1>2. QED
  BY <1>1, ExecInvariance, PTL

\* A payment the bot transferred FXRP for is recorded for its own tag with at
\* least the amount paid, for any wallet and number of faults: transactions an
\* earlier attempt left in the mempool are mined before the bot looks at the
\* adapter, and a settlement between its reads only lowers what is owed.
THEOREM PaymentsInFull == ExecSpec => []NeverUnderCredited
<1>1. ExecInv => NeverUnderCredited
  BY DEF ExecInv
<1>2. QED
  BY <1>1, ExecInvariance, PTL

\* The bot only ever does to the contracts what the bridge allows anyone in its
\* place, so every theorem about DirectMint holds with the bot running.
THEOREM BotTakesBridgeSteps == ExecSpec => Spec
<1>1. ExecInit => Init
  BY DEF ExecInit
<1>2. ExecInv /\ [ExecNext]_allVars => [Next]_vars
  BY ExecInvStep
<1>3. QED
  BY <1>1, <1>2, ExecInvariance, PTL DEF ExecSpec, Spec

\* Whatever the bot retries, forgets or sends twice, each payment it bridges is
\* claimed by one user, credited in full once, and then closed.
THEOREM BotImplementsLedger == ExecSpec => LedgerSpec
BY BotTakesBridgeSteps, Refinement, PTL

(***************************************************************************)
(* The cursor of the watcher passes over no payment.  ReachInv is the      *)
(* inductive invariant: ledgers only grow along the history, and what the  *)
(* handler was not handed is at or past the cursor, or in the rest of a    *)
(* page that an interrupted poll still has in hand.                        *)
(***************************************************************************)
Unhanded == {i \in DOMAIN xrpl : xrpl[i].tag # NoTag /\ i \notin handed \cup store}

Sorted == \A i, j \in DOMAIN xrpl : i <= j => xrpl[i].ledger <= xrpl[j].ledger

\* No payment that is left before entry lo would be returned by another poll.
Behind(lo) == \A i \in Unhanded : i < lo => xrpl[i].ledger < lastSeenLedger

InHand(s, i) == polls[s].pc = "blocked" /\ i \in polls[s].lo .. polls[s].hi

CursorSeen == lastSeenLedger = 0 \/ \E i \in DOMAIN xrpl : lastSeenLedger <= xrpl[i].ledger

PollReach(s) ==
  /\ polls[s].pc = "requested" => polls[s].from <= lastSeenLedger
  /\ polls[s].pc = "blocked" => polls[s].lo <= Len(xrpl) + 1 /\ Behind(polls[s].lo)

InReach ==
  \A i \in Unhanded : xrpl[i].ledger >= lastSeenLedger \/ \E s \in PollSlots : InHand(s, i)

ReachInv == Sorted /\ CursorSeen /\ (\A s \in PollSlots : PollReach(s)) /\ InReach

(***************************************************************************)
(* Pages of a sorted history.                                              *)
(***************************************************************************)
\* A set of positions with everything that precedes its members is a prefix.
LEMMA PrefixCount ==
  ASSUME NEW n \in Nat, NEW S \in SUBSET (1 .. n),
         \A i \in S, j \in 1 .. n : j <= i => j \in S
  PROVE  Cardinality(S) \in Nat /\ \A i \in 1 .. n : i \in S <=> i <= Cardinality(S)
<1>1. CASE S = 1 .. n
  <2>1. Cardinality(S) = n
    BY <1>1, FS_Interval
  <2>2. QED
    BY <1>1, <2>1
<1>2. CASE S # 1 .. n
  <2> DEFINE C == (1 .. n) \ S
             m == Min(C)
  <2>1. C \in SUBSET Nat /\ C # {}
    <3>1. PICK x \in 1 .. n : x \notin S
      BY <1>2
    <3>2. QED
      BY <3>1
  <2>2. m \in C /\ \A x \in C : m <= x
    BY <2>1, MinInSet
  <2> HIDE DEF m
  <2>3. S = 1 .. m - 1
    <3>1. ASSUME NEW i \in S PROVE i \in 1 .. m - 1
      <4>1. ~ (m <= i)
        BY <2>2
      <4>2. QED
        BY <2>2, <4>1
    <3>2. ASSUME NEW i \in 1 .. m - 1 PROVE i \in S
      <4>1. i \in 1 .. n /\ ~ (m <= i)
        BY <2>2
      <4>2. QED
        BY <2>2, <4>1
    <3>3. QED
      BY <3>1, <3>2
  <2>4. Cardinality(S) = m - 1
    <3>1. m - 1 \in Nat
      BY <2>2
    <3>2. Cardinality(1 .. m - 1) = m - 1
      BY <3>1, FS_Interval
    <3>3. QED
      BY <2>3, <3>2
  <2>5. QED
    BY <2>2, <2>3, <2>4
<1>3. QED
  BY <1>1, <1>2

\* account_tx from a ledger starts at its first entry.
LEMMA PageStartsAt ==
  ASSUME HistoryKept, Sorted, NEW from \in 0 .. MaxLedger, NEW i \in DOMAIN xrpl
  PROVE  i >= PageStart(from) <=> xrpl[i].ledger >= from
<1> DEFINE S == {j \in DOMAIN xrpl : xrpl[j].ledger < from}
<1>1. /\ DOMAIN xrpl = 1 .. Len(xrpl) /\ Len(xrpl) \in Nat /\ from \in Nat
      /\ \A j \in DOMAIN xrpl : xrpl[j].ledger \in Nat
  <2>1. \A j \in DOMAIN xrpl : xrpl[j] \in Entries
    BY EntryType
  <2>2. QED
    BY <2>1, ExecutorBounds DEF HistoryKept, Entries
<1>2. S \in SUBSET (1 .. Len(xrpl))
  BY <1>1
<1>3. \A k \in S, j \in 1 .. Len(xrpl) : j <= k => j \in S
  BY <1>1 DEF Sorted
<1>4. PageStart(from) = Cardinality(S) + 1
  BY DEF PageStart
<1>5. i \in S <=> ~ (xrpl[i].ledger >= from)
  BY <1>1
<1> HIDE DEF S
<1>6. Cardinality(S) \in Nat /\ \A k \in 1 .. Len(xrpl) : k \in S <=> k <= Cardinality(S)
  BY <1>1, <1>2, <1>3, PrefixCount
<1>7. QED
  BY <1>1, <1>4, <1>5, <1>6

(***************************************************************************)
(* The cursor.                                                             *)
(***************************************************************************)
LEMMA LedgerNat ==
  ASSUME HistoryKept, WatcherKept
  PROVE  lastSeenLedger \in Nat /\ \A i \in DOMAIN xrpl : xrpl[i].ledger \in Nat
<1>1. \A j \in DOMAIN xrpl : xrpl[j] \in Entries
  BY EntryType
<1>2. QED
  BY <1>1, ExecutorBounds DEF Entries, WatcherKept

\* Moving the cursor past entry i leaves nothing between the old and the new
\* cursor that is not before i.
LEMMA CursorMoves ==
  ASSUME HistoryKept, WatcherKept, Sorted, CursorSeen, NEW i \in DOMAIN xrpl,
         AdvanceCursor(i), UNCHANGED xrpl
  PROVE  /\ lastSeenLedger' \in Nat /\ lastSeenLedger' >= lastSeenLedger /\ CursorSeen'
         /\ \A j \in DOMAIN xrpl : xrpl[j].ledger >= lastSeenLedger =>
              xrpl[j].ledger >= lastSeenLedger' \/ j < i
<1>1. /\ lastSeenLedger \in Nat /\ \A j \in DOMAIN xrpl : xrpl[j].ledger \in Nat
      /\ \A j \in DOMAIN xrpl : j \in Nat
  BY LedgerNat, EntryType
<1>2. /\ lastSeenLedger' \in {lastSeenLedger, xrpl[i].ledger}
      /\ lastSeenLedger' >= lastSeenLedger /\ lastSeenLedger' >= xrpl[i].ledger
  BY <1>1, MaxOfTwo DEF AdvanceCursor
<1>3. lastSeenLedger' <= xrpl[i].ledger \/ lastSeenLedger' = lastSeenLedger
  BY <1>1, <1>2
<1>4. lastSeenLedger' \in Nat
  BY <1>1, <1>2
<1>5. ASSUME NEW j \in DOMAIN xrpl, xrpl[j].ledger >= lastSeenLedger, ~ (j < i)
      PROVE  xrpl[j].ledger >= lastSeenLedger'
  <2>1. xrpl[i].ledger <= xrpl[j].ledger
    BY <1>1, <1>5 DEF Sorted
  <2>2. QED
    BY <1>1, <1>2, <1>5, <2>1
<1>6. CursorSeen'
  BY <1>1, <1>2 DEF CursorSeen
<1>7. QED
  BY <1>1, <1>2, <1>4, <1>5, <1>6

(***************************************************************************)
(* Steps of the watcher.                                                   *)
(***************************************************************************)
\* Only more payments are handed over or stored, and the cursor only moves on.
LEMMA BehindStays ==
  ASSUME NEW lo, Behind(lo), Unhanded' \subseteq Unhanded, UNCHANGED xrpl,
         lastSeenLedger \in Nat, lastSeenLedger' \in Nat, lastSeenLedger' >= lastSeenLedger,
         \A i \in DOMAIN xrpl : xrpl[i].ledger \in Nat
  PROVE  Behind(lo)'
<1>1. ASSUME NEW i \in Unhanded', i < lo PROVE xrpl'[i].ledger < lastSeenLedger'
  <2>1. i \in Unhanded /\ i \in DOMAIN xrpl /\ xrpl'[i] = xrpl[i]
    BY <1>1 DEF Unhanded
  <2>2. xrpl[i].ledger < lastSeenLedger /\ xrpl[i].ledger \in Nat
    BY <1>1, <2>1 DEF Behind
  <2>3. QED
    BY <2>1, <2>2
<1>2. QED
  BY <1>1 DEF Behind

\* A poll looks at entries lo .. hi, of which those up to `last` are dealt with:
\* handed over, in the store or without a tag.  The rest stays in its hand.
LEMMA LookKeeps ==
  ASSUME HistoryKept, WatcherKept, Sorted, CursorSeen, UNCHANGED xrpl,
         NEW slot \in PollSlots, NEW lo \in Nat \ {0}, NEW hi \in 0 .. Len(xrpl),
         Behind(lo),
         \A s \in PollSlots \ {slot} : PollReach(s),
         \A i \in Unhanded : \/ xrpl[i].ledger >= lastSeenLedger
                             \/ i \in lo .. hi
                             \/ \E s \in PollSlots \ {slot} : InHand(s, i),
         NEW last \in Nat,
         lo <= hi => last \in lo .. hi /\ AdvanceCursor(last),
         lo > hi => UNCHANGED lastSeenLedger,
         Unhanded' \subseteq Unhanded,
         \A i \in lo .. hi : i <= last => i \notin Unhanded',
         \/ /\ polls' = [polls EXCEPT ![slot] = IdlePoll]
            /\ lo <= hi => last = hi
         \/ /\ polls' = [polls EXCEPT ![slot] = [pc |-> "blocked", lo |-> last + 1, hi |-> hi]]
            /\ lo <= hi
  PROVE  ReachInv'
<1>1. /\ DOMAIN xrpl = 1 .. Len(xrpl) /\ Len(xrpl) \in Nat
      /\ lastSeenLedger \in Nat /\ \A j \in DOMAIN xrpl : xrpl[j].ledger \in Nat
      /\ DOMAIN polls = PollSlots
  BY LedgerNat DEF HistoryKept, WatcherKept
<1>2. /\ lastSeenLedger' \in Nat /\ lastSeenLedger' >= lastSeenLedger /\ CursorSeen'
      /\ \A j \in DOMAIN xrpl : xrpl[j].ledger >= lastSeenLedger =>
           xrpl[j].ledger >= lastSeenLedger' \/ (lo <= hi /\ j < last)
  <2>1. CASE lo <= hi
    <3>1. last \in DOMAIN xrpl /\ AdvanceCursor(last)
      BY <1>1, <2>1
    <3>2. QED
      BY <2>1, <3>1, CursorMoves
  <2>2. CASE lo > hi
    BY <1>1, <2>2 DEF CursorSeen
  <2>3. QED
    BY <1>1, <2>1, <2>2
<1>3. \A i \in Unhanded' : i \in Unhanded /\ i \in DOMAIN xrpl /\ i \in Nat
  BY <1>1 DEF Unhanded
<1>4. Sorted'
  BY DEF Sorted
<1>5. \A s \in PollSlots \ {slot} : polls'[s] = polls[s]
  BY <1>1
<1>6. \A i \in Unhanded' : (lo <= hi /\ i <= last) => i < lo
  BY <1>1, <1>3
<1>7. \A i \in Unhanded' : i < lo => xrpl[i].ledger < lastSeenLedger
  BY <1>3 DEF Behind
<1>8. ASSUME NEW i \in Unhanded', ~ (xrpl'[i].ledger >= lastSeenLedger')
      PROVE  \E s \in PollSlots : InHand(s, i)'
  <2>1. ~ (xrpl[i].ledger >= lastSeenLedger)
    <3>1. SUFFICES ASSUME xrpl[i].ledger >= lastSeenLedger PROVE FALSE
      OBVIOUS
    <3>2. lo <= hi /\ i < last /\ last \in Nat /\ i \in Nat
      BY <1>2, <1>3, <1>8, <3>1
    <3>3. xrpl[i].ledger < lastSeenLedger
      BY <1>6, <1>7, <3>2
    <3>4. QED
      BY <1>1, <1>3, <3>1, <3>3
  <2>2. CASE i \in lo .. hi
    <3>1. lo <= hi /\ ~ (i <= last) /\ i \in Nat /\ last \in lo .. hi
      BY <1>3, <2>2
    <3>2. polls' = [polls EXCEPT ![slot] = [pc |-> "blocked", lo |-> last + 1, hi |-> hi]]
      BY <2>2, <3>1
    <3>3. InHand(slot, i)'
      BY <1>1, <2>2, <3>1, <3>2 DEF InHand
    <3>4. QED
      BY <3>3
  <2>3. CASE \E s \in PollSlots \ {slot} : InHand(s, i)
    BY <1>5, <2>3 DEF InHand
  <2>4. QED
    BY <1>3, <2>1, <2>2, <2>3
<1>9. ASSUME NEW s \in PollSlots PROVE PollReach(s)'
  <2>1. CASE s # slot
    <3>1. PollReach(s) /\ polls'[s] = polls[s]
      BY <1>5, <2>1
    <3>2. polls[s].pc = "requested" => polls[s].from \in Nat
      <4>1. polls[s] \in PollsOver(Len(xrpl))
        BY DEF WatcherKept
      <4>2. QED
        BY <4>1, ExecutorBounds DEF PollsOver, IdlePoll
    <3>3. polls[s].pc = "blocked" => Behind(polls[s].lo)'
      BY <1>1, <1>2, <3>1, BehindStays DEF PollReach
    <3>4. polls'[s].pc = "blocked" => Behind(polls[s].lo)' /\ polls'[s].lo <= Len(xrpl') + 1
      BY <3>1, <3>3 DEF PollReach
    <3>5. polls'[s].pc = "requested" => polls'[s].from <= lastSeenLedger'
      BY <1>1, <1>2, <3>1, <3>2 DEF PollReach
    <3>6. QED
      BY <3>1, <3>4, <3>5 DEF PollReach, Behind
  <2>2. CASE s = slot
    <3>1. CASE polls' = [polls EXCEPT ![slot] = IdlePoll]
      BY <1>1, <2>2, <3>1 DEF PollReach, IdlePoll
    <3>2. CASE /\ polls' = [polls EXCEPT ![slot] = [pc |-> "blocked", lo |-> last + 1, hi |-> hi]]
               /\ lo <= hi
      <4>1. polls'[s].pc = "blocked" /\ polls'[s].lo = last + 1
        BY <1>1, <2>2, <3>2
      <4>2. last + 1 <= Len(xrpl') + 1
        BY <1>1, <3>2
      <4>3. ASSUME NEW i \in Unhanded', i < last + 1
            PROVE  xrpl'[i].ledger < lastSeenLedger'
        <5>1. i < lo
          BY <1>3, <1>6, <3>2, <4>3
        <5>2. QED
          BY <1>1, <1>2, <1>3, <1>7, <5>1
      <4>4. QED
        BY <4>1, <4>2, <4>3 DEF PollReach, Behind
    <3>3. QED
      BY <3>1, <3>2
  <2>3. QED
    BY <2>1, <2>2
<1>10. QED
  BY <1>2, <1>4, <1>8, <1>9 DEF ReachInv, InReach

LEMMA ScanReach ==
  ASSUME HistoryKept, WatcherKept, Sorted, CursorSeen, UNCHANGED xrpl,
         NEW slot \in PollSlots, NEW lo \in Nat \ {0}, NEW hi \in 0 .. Len(xrpl),
         Behind(lo),
         \A s \in PollSlots \ {slot} : PollReach(s),
         \A i \in Unhanded : \/ xrpl[i].ledger >= lastSeenLedger
                             \/ i \in lo .. hi
                             \/ \E s \in PollSlots \ {slot} : InHand(s, i),
         store \subseteq store', ScanPage(slot, lo, hi, store')
  PROVE  ReachInv'
<1>1. CASE Unseen(lo, hi, store') # {}
  <2> DEFINE i == Min(Unseen(lo, hi, store'))
  <2>1. Unseen(lo, hi, store') \subseteq Nat
    BY DEF Unseen
  <2>2. i \in Unseen(lo, hi, store') /\ \A k \in Unseen(lo, hi, store') : i <= k
    BY <1>1, <2>1, MinInSet
  <2>3. /\ handed' = handed \cup {i} /\ AdvanceCursor(i)
        /\ polls' = [polls EXCEPT ![slot] = [pc |-> "blocked", lo |-> i + 1, hi |-> hi]]
    BY <1>1 DEF ScanPage
  <2> HIDE DEF i
  <2>4. i \in lo .. hi /\ i \in Nat /\ lo <= hi
    BY <2>1, <2>2 DEF Unseen
  <2>5. Unhanded' \subseteq Unhanded
    BY <2>3 DEF Unhanded
  <2>6. ASSUME NEW k \in lo .. hi, k <= i PROVE k \notin Unhanded'
    <3>1. CASE k = i
      BY <2>3, <3>1 DEF Unhanded
    <3>2. CASE k # i
      <4>1. k \notin Unseen(lo, hi, store')
        BY <2>2, <2>4, <2>6, <3>2
      <4>2. QED
        BY <4>1 DEF Unseen, Unhanded
    <3>3. QED
      BY <3>1, <3>2
  <2>7. ~ (lo > hi)
    BY <2>4
  <2>8. QED
    BY <2>3, <2>4, <2>5, <2>6, <2>7, LookKeeps
<1>2. CASE Unseen(lo, hi, store') = {}
  <2>1. /\ handed' = handed /\ polls' = [polls EXCEPT ![slot] = IdlePoll]
        /\ IF lo <= hi THEN AdvanceCursor(hi) ELSE UNCHANGED lastSeenLedger
    BY <1>2 DEF ScanPage
  <2>2. Unhanded' \subseteq Unhanded
    BY <2>1 DEF Unhanded
  <2>3. \A k \in lo .. hi : k <= hi => k \notin Unhanded'
    BY <1>2 DEF Unseen, Unhanded
  <2>4. hi \in Nat /\ (lo <= hi => hi \in lo .. hi) /\ (lo > hi => ~ (lo <= hi))
    BY DEF HistoryKept
  <2>5. QED
    BY <2>1, <2>2, <2>3, <2>4, LookKeeps
<1>3. QED
  BY <1>1, <1>2

LEMMA ResponseReach ==
  ASSUME BotInv, ReachInv, NEW slot \in PollSlots, PollResponse(slot)
  PROVE  ReachInv'
<1> DEFINE from == polls[slot].from
           lo == PageStart(from)
           hi == PageEnd(from)
<1>1. polls[slot] \in PollsOver(Len(xrpl)) /\ polls[slot].pc = "requested"
  BY DEF BotInv, WatcherKept, PollResponse
<1>2. from \in 0 .. MaxLedger
  BY <1>1 DEF PollsOver, IdlePoll
<1>3. UNCHANGED <<xrpl, store>>
  BY DEF PollResponse
<1>4. from <= lastSeenLedger
  BY <1>1 DEF ReachInv, PollReach
<1>5. /\ HistoryKept /\ WatcherKept /\ Sorted /\ CursorSeen
      /\ \A s \in PollSlots \ {slot} : PollReach(s)
  BY DEF BotInv, ReachInv
<1>6. lo \in Nat \ {0} /\ hi \in 0 .. Len(xrpl)
  BY <1>2, <1>5, PageBounds
<1>7. /\ lastSeenLedger \in Nat /\ \A j \in DOMAIN xrpl : xrpl[j].ledger \in Nat
      /\ from \in Nat /\ DOMAIN xrpl = 1 .. Len(xrpl) /\ Len(xrpl) \in Nat
  BY <1>2, <1>5, LedgerNat, ExecutorBounds DEF HistoryKept
<1>8. \A i \in DOMAIN xrpl : i >= lo <=> xrpl[i].ledger >= from
  BY <1>2, <1>5, PageStartsAt
<1>9. CASE proc = Idle
  <2>1. ScanPage(slot, lo, hi, store')
    BY <1>3, <1>9 DEF PollResponse
  <2> HIDE DEF lo, hi, from
  <2>2. Behind(lo)
    BY <1>4, <1>6, <1>7, <1>8 DEF Behind, Unhanded
  <2>3. \A i \in Unhanded : \/ xrpl[i].ledger >= lastSeenLedger
                            \/ \E s \in PollSlots \ {slot} : InHand(s, i)
    BY <1>1 DEF ReachInv, InReach, InHand
  <2>4. QED
    BY <1>3, <1>5, <1>6, <2>1, <2>2, <2>3, ScanReach
<1>10. CASE proc # Idle
  <2>1. /\ handed' = handed \cup Unseen(lo, hi, store)
        /\ polls' = [polls EXCEPT ![slot] = IdlePoll]
        /\ IF lo <= hi THEN AdvanceCursor(hi) ELSE UNCHANGED lastSeenLedger
    BY <1>10 DEF PollResponse
  <2> HIDE DEF lo, hi, from
  <2>2. Behind(lo)
    BY <1>4, <1>6, <1>7, <1>8 DEF Behind, Unhanded
  <2>3. \A i \in Unhanded : \/ xrpl[i].ledger >= lastSeenLedger
                            \/ \E s \in PollSlots \ {slot} : InHand(s, i)
    BY <1>1 DEF ReachInv, InReach, InHand
  <2>4. Unhanded' \subseteq Unhanded
    BY <1>3, <2>1 DEF Unhanded
  <2>5. \A k \in lo .. hi : k <= hi => k \notin Unhanded'
    BY <1>3, <2>1 DEF Unseen, Unhanded
  <2>6. hi \in Nat /\ (lo <= hi => hi \in lo .. hi) /\ (lo > hi => ~ (lo <= hi))
    BY <1>6, <1>7
  <2>7. QED
    BY <1>3, <1>5, <1>6, <2>1, <2>2, <2>3, <2>4, <2>5, <2>6, LookKeeps
<1>11. QED
  BY <1>9, <1>10

LEMMA FinishReach ==
  ASSUME BotInv, ReachInv, proc # Idle, Finish(store'), store \subseteq store',
         UNCHANGED xrpl
  PROVE  ReachInv'
<1>1. /\ HistoryKept /\ WatcherKept /\ Sorted /\ CursorSeen
      /\ \A s \in PollSlots : PollReach(s)
  BY DEF BotInv, ReachInv
<1>2. CASE proc.owner = None
  <2>1. UNCHANGED <<lastSeenLedger, polls, handed>>
    BY <1>2 DEF Finish
  <2>2. Unhanded' \subseteq Unhanded
    BY <2>1 DEF Unhanded
  <2>3. QED
    BY <2>1, <2>2
    DEF ReachInv, Sorted, CursorSeen, PollReach, Behind, InReach, InHand, Unhanded
<1>3. CASE proc.owner # None
  <2> DEFINE slot == proc.owner
             lo == polls[slot].lo
             hi == polls[slot].hi
  <2>1. slot \in PollSlots /\ polls[slot].pc = "blocked"
    BY <1>3 DEF BotInv, ProcKept, Jobs
  <2>2. polls[slot] \in PollsOver(Len(xrpl))
    BY <1>1, <2>1 DEF WatcherKept
  <2>3. lo \in Nat \ {0} /\ hi \in 0 .. Len(xrpl)
    BY <2>1, <2>2 DEF PollsOver, IdlePoll
  <2>4. Behind(lo)
    BY <1>1, <2>1 DEF PollReach
  <2>5. ScanPage(slot, lo, hi, store')
    BY <1>3 DEF Finish
  <2>6. \A i \in Unhanded : \/ xrpl[i].ledger >= lastSeenLedger
                            \/ i \in lo .. hi
                            \/ \E s \in PollSlots \ {slot} : InHand(s, i)
    BY DEF ReachInv, InReach, InHand
  <2> HIDE DEF slot, lo, hi
  <2>7. QED
    BY <1>1, <2>1, <2>3, <2>4, <2>5, <2>6, ScanReach
<1>4. QED
  BY <1>2, <1>3

\* Steps that leave the watcher alone.
LEMMA ReachFrame ==
  ASSUME ReachInv, UNCHANGED <<xrpl, lastSeenLedger, polls>>,
         handed \subseteq handed', store \subseteq store'
  PROVE  ReachInv'
<1>1. Unhanded' \subseteq Unhanded
  BY DEF Unhanded
<1>2. QED
  BY <1>1 DEF ReachInv, Sorted, CursorSeen, PollReach, Behind, InReach, InHand, Unhanded

\* A poll is sent from the ledger last seen; one that fails has looked at nothing.
LEMMA OtherReach ==
  ASSUME BotInv, ReachInv, NEW slot \in PollSlots, polls[slot].pc # "blocked", NEW p,
         polls' = [polls EXCEPT ![slot] = p], p.pc # "blocked",
         p.pc = "requested" => p.from = lastSeenLedger,
         UNCHANGED <<xrpl, lastSeenLedger, handed, store>>
  PROVE  ReachInv'
<1>1. DOMAIN polls = PollSlots /\ lastSeenLedger \in Nat
  BY LedgerNat DEF BotInv, WatcherKept
<1>2. polls'[slot] = p /\ \A s \in PollSlots \ {slot} : polls'[s] = polls[s]
  BY <1>1
<1>3. Unhanded' = Unhanded /\ Sorted' /\ CursorSeen' /\ \A lo : Behind(lo) => Behind(lo)'
  BY DEF Unhanded, ReachInv, Sorted, CursorSeen, Behind
<1>4. ASSUME NEW s \in PollSlots PROVE PollReach(s)'
  <2>1. CASE s = slot
    BY <1>1, <1>2, <2>1 DEF PollReach
  <2>2. CASE s # slot
    <3>1. PollReach(s) /\ polls'[s] = polls[s]
      BY <1>2, <2>2 DEF ReachInv
    <3>2. QED
      BY <3>1 DEF PollReach, Behind, Unhanded
  <2>3. QED
    BY <2>1, <2>2
<1>5. InReach'
  <2>1. \A s \in PollSlots, i \in Unhanded : InHand(s, i) => InHand(s, i)'
    BY <1>2 DEF InHand
  <2>2. QED
    BY <1>3, <2>1 DEF ReachInv, InReach
<1>6. QED
  BY <1>3, <1>4, <1>5 DEF ReachInv

\* A new process reads the whole history again.
LEMMA RestartReach ==
  ASSUME BotInv, ReachInv, NEW stored, Restart(stored)
  PROVE  ReachInv'
<1>1. /\ lastSeenLedger' = 0 /\ xrpl' = xrpl /\ polls' = [s \in PollSlots |-> IdlePoll]
  BY DEF Restart
<1>2. \A i \in DOMAIN xrpl : xrpl[i].ledger >= 0
  BY LedgerNat DEF BotInv
<1>3. Sorted' /\ CursorSeen'
  BY <1>1 DEF ReachInv, Sorted, CursorSeen
<1>4. InReach'
  BY <1>1, <1>2 DEF InReach, Unhanded
<1>5. QED
  BY <1>1, <1>3, <1>4 DEF ReachInv, PollReach, IdlePoll

\* A new payment is in no ledger before the last, so it is at or past the cursor.
LEMMA PaymentReach ==
  ASSUME BotInv, ReachInv, NEW ledger \in 1 .. MaxLedger, NEW tag \in Tags \cup {NoTag},
         NEW amount \in 1 .. MaxAmount, PaymentValidated(ledger, tag, amount)
  PROVE  ReachInv'
<1> DEFINE e == [ledger |-> ledger, tag |-> tag, amount |-> amount]
<1>1. /\ xrpl' = Append(xrpl, e) /\ ledger >= LastLedger
      /\ UNCHANGED <<lastSeenLedger, polls, store, handed>>
  BY DEF PaymentValidated
<1>2. /\ xrpl \in Seq(Entries) /\ Len(xrpl) \in Nat /\ DOMAIN xrpl = 1 .. Len(xrpl)
      /\ e.ledger = ledger /\ ledger \in Nat /\ lastSeenLedger \in Nat
      /\ \A i \in DOMAIN xrpl : xrpl[i].ledger \in Nat
  BY LedgerNat, ExecutorBounds DEF BotInv, HistoryKept
<1> HIDE DEF e
<1>3. /\ Len(xrpl') = Len(xrpl) + 1 /\ DOMAIN xrpl' = 1 .. Len(xrpl) + 1
      /\ xrpl'[Len(xrpl) + 1] = e /\ \A i \in DOMAIN xrpl : xrpl'[i] = xrpl[i]
  BY <1>1, <1>2
<1>4. \A i \in DOMAIN xrpl : xrpl[i].ledger <= ledger
  <2>1. SUFFICES ASSUME NEW i \in DOMAIN xrpl PROVE xrpl[i].ledger <= ledger
    OBVIOUS
  <2>2. Len(xrpl) \in DOMAIN xrpl /\ i <= Len(xrpl) /\ xrpl # <<>>
    BY <1>2
  <2>3. LastLedger = xrpl[Len(xrpl)].ledger
    BY <2>2 DEF LastLedger, Last
  <2>4. xrpl[i].ledger <= xrpl[Len(xrpl)].ledger
    BY <2>2 DEF ReachInv, Sorted
  <2>5. QED
    BY <1>1, <1>2, <2>2, <2>3, <2>4
<1>5. Sorted'
  BY <1>2, <1>3, <1>4 DEF ReachInv, Sorted
<1>6. lastSeenLedger <= ledger /\ CursorSeen'
  <2>1. CASE lastSeenLedger = 0
    BY <1>1, <1>2, <2>1 DEF CursorSeen
  <2>2. CASE lastSeenLedger # 0
    <3>1. PICK i \in DOMAIN xrpl : lastSeenLedger <= xrpl[i].ledger
      BY <2>2 DEF ReachInv, CursorSeen
    <3>2. i \in DOMAIN xrpl' /\ lastSeenLedger' <= xrpl'[i].ledger
      BY <1>1, <1>2, <1>3, <3>1
    <3>3. lastSeenLedger <= ledger
      BY <1>2, <1>4, <3>1
    <3>4. QED
      BY <3>2, <3>3 DEF CursorSeen
  <2>3. QED
    BY <2>1, <2>2
<1>7. \A i \in Unhanded' : i \in Unhanded \/ i = Len(xrpl) + 1
  BY <1>1, <1>2, <1>3 DEF Unhanded
<1>8. InReach'
  <2>1. SUFFICES ASSUME NEW i \in Unhanded'
                 PROVE  xrpl'[i].ledger >= lastSeenLedger' \/ \E s \in PollSlots : InHand(s, i)'
    BY DEF InReach
  <2>2. CASE i = Len(xrpl) + 1
    BY <1>1, <1>2, <1>3, <1>6, <2>2
  <2>3. CASE i \in Unhanded
    <3>1. xrpl'[i] = xrpl[i]
      BY <1>3, <2>3 DEF Unhanded
    <3>2. \A s \in PollSlots : InHand(s, i) => InHand(s, i)'
      BY <1>1 DEF InHand
    <3>3. QED
      BY <1>1, <2>3, <3>1, <3>2 DEF ReachInv, InReach
  <2>4. QED
    BY <1>7, <2>2, <2>3
<1>9. ASSUME NEW s \in PollSlots PROVE PollReach(s)'
  <2>1. PollReach(s) /\ polls'[s] = polls[s]
    BY <1>1 DEF ReachInv
  <2>2. CASE polls[s].pc = "blocked"
    <3>1. polls[s] \in PollsOver(Len(xrpl)) /\ polls[s].lo <= Len(xrpl) + 1
          /\ Behind(polls[s].lo)
      BY <2>1, <2>2 DEF PollReach, BotInv, WatcherKept
    <3>2. polls[s].lo \in Nat
      BY <2>2, <3>1 DEF PollsOver, IdlePoll
    <3>3. ASSUME NEW i \in Unhanded', i < polls[s].lo
          PROVE  xrpl'[i].ledger < lastSeenLedger'
      <4>1. i \in Unhanded
        BY <1>2, <1>7, <3>1, <3>2, <3>3
      <4>2. xrpl'[i] = xrpl[i]
        BY <1>3, <4>1 DEF Unhanded
      <4>3. QED
        BY <1>1, <3>1, <3>3, <4>1, <4>2 DEF Behind
    <3>4. Behind(polls[s].lo)'
      BY <1>1, <2>1, <3>3 DEF Behind
    <3>5. QED
      BY <1>2, <1>3, <2>1, <2>2, <3>1, <3>2, <3>4 DEF PollReach
  <2>3. CASE polls[s].pc # "blocked"
    BY <1>1, <2>1, <2>3 DEF PollReach
  <2>4. QED
    BY <2>2, <2>3
<1>10. QED
  BY <1>5, <1>6, <1>8, <1>9 DEF ReachInv

(***************************************************************************)
(* The theorem.                                                            *)
(***************************************************************************)
LEMMA ReachInit == ExecInit => ReachInv
BY DEF ExecInit, ReachInv, Sorted, CursorSeen, PollReach, IdlePoll, InReach, Unhanded

LEMMA ReachStep ==
  ASSUME BotInv, ReachInv, [ExecNext]_allVars
  PROVE  ReachInv'
<1>1. ASSUME proc # Idle, Finish(store'), store \subseteq store', UNCHANGED xrpl
      PROVE  ReachInv'
  BY <1>1, FinishReach
<1>2. CASE UNCHANGED <<xrpl, lastSeenLedger, polls>> /\ handed \subseteq handed'
           /\ store \subseteq store'
  BY <1>2, ReachFrame
<1>3. ASSUME NEW slot \in PollSlots, StartPoll(slot) PROVE ReachInv'
  <2> DEFINE p == [pc |-> "requested", from |-> lastSeenLedger]
  <2>1. p.pc = "requested" /\ p.from = lastSeenLedger
    OBVIOUS
  <2>2. polls' = [polls EXCEPT ![slot] = p] /\ polls[slot].pc # "blocked"
        /\ UNCHANGED <<xrpl, lastSeenLedger, handed, store>>
    BY <1>3 DEF StartPoll
  <2> HIDE DEF p
  <2>3. QED
    BY <2>1, <2>2, OtherReach
<1>4. ASSUME NEW slot \in PollSlots, PollFails(slot) PROVE ReachInv'
  <2>1. polls' = [polls EXCEPT ![slot] = IdlePoll] /\ polls[slot].pc # "blocked"
        /\ UNCHANGED <<xrpl, lastSeenLedger, handed, store>>
    BY <1>4 DEF PollFails
  <2>2. IdlePoll.pc = "idle"
    BY DEF IdlePoll
  <2>3. QED
    BY <2>1, <2>2, OtherReach
<1>5. CASE Watch
  BY <1>3, <1>5, ResponseReach DEF Watch
<1>6. CASE \E i \in events : TxEvent(i)
  BY <1>2, <1>6 DEF TxEvent
<1>7. CASE Bridge
  <2>1. UNCHANGED <<xrpl, store>> /\ proc # Idle
    BY <1>7
    DEF Bridge, ReadTagUser, ReadPendingDeposit, ReadAdapterBalance, ReadTotalPending,
        SubmitTransfer, UseExistingBalance, ReadFinalBalance, ReadFinalTotal,
        SubmitDirectMint, watcherVars, BalancesRead, Running
  <2>2. Finish(store) \/ UNCHANGED <<lastSeenLedger, polls, handed>>
    BY <1>7
    DEF Bridge, ReadTagUser, ReadPendingDeposit, ReadAdapterBalance, ReadTotalPending,
        SubmitTransfer, UseExistingBalance, ReadFinalBalance, ReadFinalTotal,
        SubmitDirectMint, GoTo
  <2>3. QED
    BY <1>1, <1>2, <2>1, <2>2
<1>8. CASE MineTransfer
  <2>1. txs # <<>> /\ UNCHANGED <<xrpl, store>>
    BY <1>8 DEF MineTransfer, ReceiveTransferReceipt, watcherVars
  <2>2. \/ Head(txs).awaited /\ Finish(store)
        \/ UNCHANGED <<lastSeenLedger, polls, handed>>
    BY <1>8 DEF MineTransfer, ReceiveTransferReceipt, GoTo
  <2>3. QED
    BY <1>1, <1>2, <2>1, <2>2, HeadType
<1>9. CASE MineDirectMint
  <2>1. txs # <<>> /\ UNCHANGED xrpl /\ store \subseteq store'
    BY <1>9 DEF MineDirectMint, ReceiveMintReceipt, watcherVars
  <2>2. \/ Head(txs).awaited /\ Finish(store')
        \/ UNCHANGED <<lastSeenLedger, polls, handed>>
    BY <1>9 DEF MineDirectMint, ReceiveMintReceipt
  <2>3. QED
    BY <1>1, <1>2, <2>1, <2>2, HeadType
<1>10. CASE Faults
  <2>1. CASE \E i \in events : EventLost(i)
    BY <1>2, <2>1 DEF EventLost
  <2>2. CASE RequestFails
    BY <1>1, <2>2 DEF RequestFails, watcherVars
  <2>3. CASE Crash \/ CrashWhileSaving
    BY <2>3, RestartReach DEF Crash, CrashWhileSaving
  <2>4. QED
    BY <1>4, <1>10, <2>1, <2>2, <2>3 DEF Faults
<1>11. CASE \E ledger \in 1 .. MaxLedger, tag \in Tags \cup {NoTag}, amount \in 1 .. MaxAmount :
              PaymentValidated(ledger, tag, amount)
  BY <1>11, PaymentReach
<1>12. CASE Contracts \/ UNCHANGED allVars
  BY <1>2, <1>12 DEF Contracts, allVars, execVars
<1>13. QED
  BY <1>5, <1>6, <1>7, <1>8, <1>9, <1>10, <1>11, <1>12 DEF ExecNext, Mine

\* Whatever polls, pages and events overlap and fail, and wherever the process
\* restarts, the cursor passes over no payment: one that the handler was not
\* handed is returned by a later poll or is left in a page in hand.
THEOREM NonePassedOver == ExecSpec => []NothingPassedOver
<1>1. BotInv /\ ReachInv => NothingPassedOver
  <2>1. SUFFICES ASSUME BotInv, ReachInv, NEW i \in DOMAIN xrpl, xrpl[i].tag # NoTag,
                        i \notin handed \cup store
                 PROVE  \/ i >= PageStart(lastSeenLedger)
                        \/ \E s \in PollSlots : InHand(s, i)
    BY DEF NothingPassedOver, InHand
  <2>2. xrpl[i].ledger >= lastSeenLedger \/ \E s \in PollSlots : InHand(s, i)
    BY <2>1 DEF ReachInv, InReach, Unhanded
  <2>3. HistoryKept /\ Sorted /\ lastSeenLedger \in 0 .. MaxLedger
    BY <2>1 DEF BotInv, ReachInv, WatcherKept
  <2>4. QED
    BY <2>1, <2>2, <2>3, PageStartsAt
<1>2. ExecInit => BotInv /\ ReachInv
  BY ExecInitInv, ReachInit DEF ExecInv
<1>3. ExecInv /\ ReachInv /\ [ExecNext]_allVars => ReachInv'
  BY ReachStep DEF ExecInv
<1>4. ExecInv => BotInv
  BY DEF ExecInv
<1>5. QED
  BY <1>1, <1>2, <1>3, <1>4, ExecInvariance, PTL DEF ExecSpec

(***************************************************************************)
(* The operator's maintenance scripts, for any deposits, users and tags,   *)
(* and any number of runs, each of them stopped anywhere.  The invariant   *)
(* of the bridge, IInv, does not hold here: the stuck deposit is one the   *)
(* adapter has and the vault's queue has not, and the scripts queue it     *)
(* once more.  ScriptsInv has what is left of it.                          *)
(***************************************************************************)
\* The current adapter is the only one that records direct mints, each once and
\* for the user of its tag.
OnlyCurrentMints ==
  \A a \in Adapters, d \in DepositIds : Pending(a, d) =>
    /\ a = Current /\ d \in processedDirectMints[Current]
    /\ pendingDirectMints[a][d].receiver = tagUser[a][pendingDirectMints[a][d].tag]

\* What the adapter has the vault expects for the same user; only the stuck deposit
\* may still be missing, or be expected for somebody who queued it himself.
QueuedForUser ==
  \A d \in DepositIds : Pending(Current, d) =>
    \/ pendingDepositReceiver[d] = pendingDirectMints[Current][d].receiver
    \/ d = Stuck /\ (requeued \/ pendingDepositReceiver[d] = None)

\* The stuck deposit stays with the adapter until it is settled.
StuckWaits ==
  Stuck \notin settledFAssetDeposits =>
    Pending(Current, Stuck) /\ pendingDirectMints[Current][Stuck].receiver = Receiver

ScriptsInv ==
  /\ TypeOK
  /\ TagOwner
  /\ OnlyCurrentMints
  /\ QueuedForUser
  /\ StuckWaits
  /\ SettledIsClosed

\* A run that finds the vault at a recovery adapter does not end before it has
\* pointed it back, unless it is cut short.
OutageKnown ==
  fAssetAdapter \in {Assembled, Recovery} =>
    \/ at \in {"readAdapter", "deploy", "point", "requeue", "restore"}
    \/ at = "readReceiver" /\ saw \in {Assembled, Recovery}
    \/ at = "idle" /\ outcome \in {"interrupted", "reverted", "not deployed"}

(***************************************************************************)
(* The bridge.                                                             *)
(***************************************************************************)
LEMMA InitBridge == StuckInit => ScriptsInv
<1> SUFFICES ASSUME StuckInit PROVE ScriptsInv
  OBVIOUS
<1> DEFINE stuckMint == [receiver |-> Receiver, tag |-> StuckTag, assets |-> 1]
<1>1. stuckMint \in Mints /\ stuckMint # NoMint
  BY RecoveryAssumption, NoneAssumption DEF Mints, NoMint
<1>2. /\ \A a \in Adapters, d \in DepositIds :
           pendingDirectMints[a][d] =
             IF a = Current /\ d = Stuck THEN stuckMint ELSE NoMint
      /\ Current \in Adapters /\ Stuck \in DepositIds /\ StuckTag \in Tags
      /\ Receiver \in Users /\ Operator \in Executors /\ Old \in Adapters
  BY RecoveryAssumption DEF StuckInit
<1>3. \A a \in Adapters, d \in DepositIds : Pending(a, d) <=> a = Current /\ d = Stuck
  BY <1>1, <1>2 DEF Pending
<1>4. pendingDirectMints \in [Adapters -> [DepositIds -> Mints \cup {NoMint}]]
  BY <1>1 DEF StuckInit
<1>5. /\ mintingRecipient \in [Tags -> Adapters \cup {None}]
      /\ allowedExecutor \in [Tags -> Executors \cup {None}]
      /\ scheduledExecutor \in [Tags -> Executors \cup {None}]
      /\ tagUser \in [Adapters -> [Tags -> Users \cup {None}]]
      /\ tagExecutor \in [Adapters -> [Tags -> Executors \cup {None}]]
      /\ defaultDirectMintExecutor \in [Adapters -> Executors]
  BY <1>2 DEF StuckInit
<1>6. /\ pendingDepositForTag \in [Adapters -> [Tags -> DepositIds \cup {None}]]
      /\ processedDirectMints \in [Adapters -> SUBSET DepositIds]
      /\ totalPendingFAssets \in [Adapters -> Nat]
      /\ balance \in [Adapters \cup {Vault} -> Nat]
      /\ supply \in 0 .. MaxSupply
      /\ credited \in [Users -> Nat]
  BY <1>2, RecoveryAssumption, SupplyAssumption DEF StuckInit
<1>7. TypeOK
  BY <1>2, <1>4, <1>5, <1>6 DEF StuckInit, TypeOK
<1>8. TagOwner
  BY DEF StuckInit, TagOwner
<1>9. OnlyCurrentMints /\ StuckWaits
  BY <1>2, <1>3 DEF StuckInit, OnlyCurrentMints, StuckWaits
<1>10. QueuedForUser /\ SettledIsClosed
  BY <1>2, <1>3 DEF StuckInit, QueuedForUser, SettledIsClosed
<1>11. QED
  BY <1>7, <1>8, <1>9, <1>10 DEF ScriptsInv

\* What the bridge does while the scripts run is what DirectMint allows.
LEMMA MeanwhileIsNext == Meanwhile => Next
<1>1. Current \in Adapters /\ Old \in Adapters /\ Operator \in Executors
      /\ 1 \in 1 .. MaxSupply
  BY RecoveryAssumption, SupplyAssumption
<1>2. QED
  BY <1>1 DEF Meanwhile, Next, Administration

\* Steps that leave the mints, the queue and the tags alone.
LEMMA BridgeFrame ==
  ASSUME ScriptsInv, TypeOK', UNCHANGED <<mintVars, queueVars, tagUser, mintingRecipient>>,
         UNCHANGED requeued
  PROVE  ScriptsInv'
BY DEF ScriptsInv, TagOwner, OnlyCurrentMints, QueuedForUser, StuckWaits,
   SettledIsClosed, Pending, mintVars, queueVars

\* A registered tag is a fresh one, so no pending mint has it.
LEMMA BridgeRegister ==
  ASSUME ScriptsInv, TypeOK', NEW u \in Users, NEW t \in Tags,
         registerMintingTag(Current, u, t), UNCHANGED requeued
  PROVE  ScriptsInv'
<1>0. Current \in Adapters
  BY RecoveryAssumption
<1>1. UNCHANGED <<mintVars, queueVars>>
  BY DEF registerMintingTag
<1>2. /\ mintingRecipient[t] = None
      /\ mintingRecipient' = [mintingRecipient EXCEPT ![t] = Current]
      /\ tagUser' = [tagUser EXCEPT ![Current][t] = u]
  BY DEF registerMintingTag
<1>3. \A a \in Adapters : tagUser[a][t] = None
  BY <1>2, NoneAssumption DEF ScriptsInv, TagOwner
<1>4. TagOwner'
  BY <1>0, <1>2, <1>3 DEF ScriptsInv, TypeOK, TagOwner
<1>5. OnlyCurrentMints'
  <2> SUFFICES ASSUME NEW a \in Adapters, NEW d \in DepositIds, Pending(a, d)'
               PROVE  /\ a = Current /\ d \in processedDirectMints'[Current]
                      /\ pendingDirectMints'[a][d].receiver
                           = tagUser'[a][pendingDirectMints'[a][d].tag]
    BY DEF OnlyCurrentMints
  <2>1. /\ pendingDirectMints' = pendingDirectMints
        /\ processedDirectMints' = processedDirectMints
    BY <1>1 DEF mintVars
  <2>2. Pending(a, d)
    BY <2>1 DEF Pending
  <2>3. pendingDirectMints[a][d] \in Mints
    BY <2>2, MintHasReceiver DEF ScriptsInv, TypeOK, Pending
  <2>4. /\ pendingDirectMints[a][d].tag \in Tags
        /\ pendingDirectMints[a][d].receiver # None
    BY <2>3, NoneAssumption DEF Mints
  <2>5. /\ a = Current /\ d \in processedDirectMints[Current]
        /\ pendingDirectMints[a][d].receiver = tagUser[a][pendingDirectMints[a][d].tag]
    BY <2>2 DEF ScriptsInv, OnlyCurrentMints
  <2>6. pendingDirectMints[a][d].tag # t
    BY <1>3, <2>4, <2>5
  <2>7. tagUser'[a][pendingDirectMints[a][d].tag] = tagUser[a][pendingDirectMints[a][d].tag]
    BY <1>0, <1>2, <2>4, <2>6 DEF ScriptsInv, TypeOK
  <2>8. QED
    BY <2>1, <2>5, <2>7
<1>6. QueuedForUser' /\ StuckWaits' /\ SettledIsClosed'
  BY <1>1 DEF ScriptsInv, QueuedForUser, StuckWaits, SettledIsClosed, Pending,
     mintVars, queueVars
<1>7. QED
  BY <1>4, <1>5, <1>6 DEF ScriptsInv

\* A direct mint is recorded once, so it is not one that is already pending.
LEMMA BridgeProcess ==
  ASSUME ScriptsInv, TypeOK', NEW t \in Tags, NEW d \in DepositIds, NEW x,
         processDirectMint(Current, Operator, t, d, x), UNCHANGED requeued
  PROVE  ScriptsInv'
<1>0. Current \in Adapters
  BY RecoveryAssumption
<1> DEFINE m == [receiver |-> tagUser[Current][t], tag |-> t, assets |-> Unallocated(Current)]
<1>1. /\ d \notin processedDirectMints[Current]
      /\ processedDirectMints' = [processedDirectMints EXCEPT ![Current] = @ \cup {d}]
      /\ pendingDirectMints' = [pendingDirectMints EXCEPT ![Current][d] = m]
      /\ pendingDepositReceiver' = [pendingDepositReceiver EXCEPT ![d] = m.receiver]
      /\ m.receiver = tagUser[Current][t] /\ m.tag = t /\ m # NoMint
      /\ d \notin settledFAssetDeposits /\ UNCHANGED settledFAssetDeposits
      /\ UNCHANGED <<tagUser, mintingRecipient>>
  BY DEF processDirectMint, recordDirectMint, queueFAssetDeposit, NoMint, tagVars, managerVars
<1> HIDE DEF m
<1>2. /\ pendingDirectMints'[Current][d] = m
      /\ \A a \in Adapters, c \in DepositIds : (a # Current \/ c # d) =>
           pendingDirectMints'[a][c] = pendingDirectMints[a][c]
      /\ pendingDepositReceiver'[d] = m.receiver
      /\ \A c \in DepositIds \ {d} : pendingDepositReceiver'[c] = pendingDepositReceiver[c]
      /\ processedDirectMints'[Current] = processedDirectMints[Current] \cup {d}
  BY <1>0, <1>1 DEF ScriptsInv, TypeOK
<1>3. ~Pending(Current, d)
  BY <1>0, <1>1 DEF ScriptsInv, OnlyCurrentMints
<1>4. \A a \in Adapters, c \in DepositIds :
        Pending(a, c)' <=> Pending(a, c) \/ (a = Current /\ c = d)
  BY <1>0, <1>1, <1>2 DEF Pending
<1>5. TagOwner'
  BY <1>1 DEF ScriptsInv, TagOwner
<1>6. OnlyCurrentMints'
  BY <1>1, <1>2, <1>4 DEF ScriptsInv, OnlyCurrentMints
<1>7. QueuedForUser'
  BY <1>0, <1>1, <1>2, <1>4 DEF ScriptsInv, QueuedForUser
<1>8. StuckWaits' /\ d # Stuck
  <2>1. d # Stuck
    BY <1>1, <1>3 DEF ScriptsInv, StuckWaits
  <2>2. QED
    BY <1>0, <1>1, <1>2, <1>4, <2>1, RecoveryAssumption DEF ScriptsInv, StuckWaits
<1>9. SettledIsClosed'
  BY <1>1, <1>2, <1>4 DEF ScriptsInv, TypeOK, SettledIsClosed
<1>10. QED
  BY <1>5, <1>6, <1>7, <1>8, <1>9 DEF ScriptsInv

\* Settling closes a deposit in the adapter and in the vault.
LEMMA BridgeSettle ==
  ASSUME ScriptsInv, TypeOK', NEW d \in DepositIds, settleDirectMint(Current, d),
         UNCHANGED requeued
  PROVE  ScriptsInv'
<1>0. Current \in Adapters
  BY RecoveryAssumption
<1>1. /\ pendingDirectMints' = [pendingDirectMints EXCEPT ![Current][d] = NoMint]
      /\ pendingDepositReceiver' = [pendingDepositReceiver EXCEPT ![d] = None]
      /\ settledFAssetDeposits' = settledFAssetDeposits \cup {d}
      /\ UNCHANGED <<tagUser, mintingRecipient, processedDirectMints>>
  BY DEF settleDirectMint, releaseDirectMint, settleFAssetDeposit, tagVars, managerVars
<1>2. /\ pendingDirectMints'[Current][d] = NoMint
      /\ \A a \in Adapters, c \in DepositIds : (a # Current \/ c # d) =>
           pendingDirectMints'[a][c] = pendingDirectMints[a][c]
      /\ pendingDepositReceiver'[d] = None
      /\ \A c \in DepositIds \ {d} : pendingDepositReceiver'[c] = pendingDepositReceiver[c]
  BY <1>0, <1>1 DEF ScriptsInv, TypeOK
<1>3. \A a \in Adapters, c \in DepositIds :
        Pending(a, c)' <=> Pending(a, c) /\ ~(a = Current /\ c = d)
  BY <1>2 DEF Pending
<1>4. \A a \in Adapters : ~Pending(a, d)'
  BY <1>3 DEF ScriptsInv, OnlyCurrentMints
<1>5. TagOwner'
  BY <1>1 DEF ScriptsInv, TagOwner
<1>6. OnlyCurrentMints'
  BY <1>1, <1>2, <1>3 DEF ScriptsInv, OnlyCurrentMints
<1>7. QueuedForUser'
  BY <1>0, <1>2, <1>3 DEF ScriptsInv, QueuedForUser
<1>8. StuckWaits'
  BY <1>0, <1>1, <1>2, <1>3, RecoveryAssumption DEF ScriptsInv, StuckWaits
<1>9. SettledIsClosed'
  BY <1>1, <1>2, <1>3, <1>4 DEF ScriptsInv, TypeOK, SettledIsClosed
<1>10. QED
  BY <1>5, <1>6, <1>7, <1>8, <1>9 DEF ScriptsInv

\* Only the stuck deposit is with the adapter and not in the queue, so whatever else
\* is queued through the recovery adapter is not with the adapter.
LEMMA BridgeRequeue ==
  ASSUME ScriptsInv, NEW d \in DepositIds, NEW u \in Users,
         queueFAssetDeposit(Recovery, d, u),
         UNCHANGED <<managerVars, tagVars, mintVars, tokenVars, adminVars>>,
         requeued => requeued', d = Stuck => requeued' \/ u = Receiver
  PROVE  ScriptsInv'
<1>0. Current \in Adapters /\ u # None
  BY RecoveryAssumption, NoneAssumption
<1>1. /\ d \notin settledFAssetDeposits /\ pendingDepositReceiver[d] = None
      /\ pendingDepositReceiver' = [pendingDepositReceiver EXCEPT ![d] = u]
      /\ UNCHANGED <<settledFAssetDeposits, credited>>
  BY DEF queueFAssetDeposit
<1>2. TypeOK'
  BY <1>0, <1>1 DEF ScriptsInv, TypeOK, managerVars, tagVars, mintVars, tokenVars, adminVars
<1>3. \A a \in Adapters, c \in DepositIds : Pending(a, c)' <=> Pending(a, c)
  BY DEF Pending, mintVars
<1>4. TagOwner' /\ OnlyCurrentMints' /\ StuckWaits'
  <2>1. TagOwner'
    BY DEF ScriptsInv, TagOwner, tagVars, managerVars
  <2>2. OnlyCurrentMints'
    BY <1>3 DEF ScriptsInv, OnlyCurrentMints, mintVars, tagVars
  <2>3. StuckWaits'
    BY <1>0, <1>1, <1>3, RecoveryAssumption DEF ScriptsInv, StuckWaits, mintVars
  <2>4. QED
    BY <2>1, <2>2, <2>3
<1>5. /\ pendingDepositReceiver'[d] = u
      /\ \A c \in DepositIds \ {d} :
           pendingDepositReceiver'[c] = pendingDepositReceiver[c]
  BY <1>1 DEF ScriptsInv, TypeOK
<1>6. QueuedForUser'
  <2> SUFFICES ASSUME NEW c \in DepositIds, Pending(Current, c)'
               PROVE  \/ pendingDepositReceiver'[c] = pendingDirectMints'[Current][c].receiver
                      \/ c = Stuck /\ (requeued' \/ pendingDepositReceiver'[c] = None)
    BY DEF QueuedForUser
  <2>1. Pending(Current, c) /\ pendingDirectMints' = pendingDirectMints
    BY <1>0, <1>3 DEF mintVars
  <2>2. \/ pendingDepositReceiver[c] = pendingDirectMints[Current][c].receiver
        \/ c = Stuck /\ (requeued \/ pendingDepositReceiver[c] = None)
    BY <2>1 DEF ScriptsInv, QueuedForUser
  <2>3. CASE c # d
    BY <1>5, <2>1, <2>2, <2>3
  <2>4. CASE c = d
    <3>1. pendingDirectMints[Current][d] \in Mints
      BY <1>0, <2>1, <2>4, MintHasReceiver DEF ScriptsInv, TypeOK, Pending
    <3>2. d = Stuck
      BY <1>1, <2>2, <2>4, <3>1, NoneAssumption DEF Mints
    <3>3. pendingDirectMints[Current][d].receiver = Receiver
      BY <1>1, <3>2 DEF ScriptsInv, StuckWaits
    <3>4. QED
      BY <1>5, <2>1, <2>4, <3>2, <3>3
  <2>5. QED
    BY <2>3, <2>4
<1>7. SettledIsClosed'
  BY <1>1, <1>3, <1>5 DEF ScriptsInv, TypeOK, SettledIsClosed
<1>8. QED
  BY <1>2, <1>4, <1>6, <1>7 DEF ScriptsInv

\* Of the steps of a script, one queues a deposit and two point the vault.
LEMMA ScriptTouches ==
  ASSUME Script
  PROVE  \/ UNCHANGED vars
         \/ \E a \in {Assembled, Recovery, Current} : setFAssetAdapter(a)
         \/ /\ queueFAssetDeposit(Recovery, Stuck, Receiver)
            /\ UNCHANGED <<managerVars, tagVars, mintVars, tokenVars, adminVars>>
BY DEF Script, Run, ReadsAdapter, ReadsReceiver, Deploys, Points, FixRequeues, DeployRequeues,
   Restores, Verifies, Interrupted

LEMMA BridgeStep == ScriptsInv /\ [RecoveryNext]_recoveryVars => ScriptsInv'
<1> SUFFICES ASSUME ScriptsInv, [RecoveryNext]_recoveryVars PROVE ScriptsInv'
  OBVIOUS
<1>1. CASE Script /\ UNCHANGED requeued
  <2>1. CASE UNCHANGED vars
    <3>1. TypeOK'
      BY <2>1, TypeStep DEF ScriptsInv
    <3>2. QED
      BY <1>1, <2>1, <3>1, BridgeFrame DEF vars, tagVars, managerVars
  <2>2. CASE \E a \in {Assembled, Recovery, Current} : setFAssetAdapter(a)
    <3>1. Next
      BY <2>2, RecoveryAssumption DEF Next, Administration
    <3>2. TypeOK'
      BY <3>1, TypeStep DEF ScriptsInv
    <3>3. QED
      BY <1>1, <2>2, <3>2, BridgeFrame DEF setFAssetAdapter, tagVars, managerVars
  <2>3. CASE /\ queueFAssetDeposit(Recovery, Stuck, Receiver)
             /\ UNCHANGED <<managerVars, tagVars, mintVars, tokenVars, adminVars>>
    BY <1>1, <2>3, BridgeRequeue, RecoveryAssumption
  <2>4. QED
    BY <1>1, <2>1, <2>2, <2>3, ScriptTouches
<1>2. CASE Meanwhile
  <2>0. TypeOK' /\ UNCHANGED requeued
    BY <1>2, MeanwhileIsNext, TypeStep DEF ScriptsInv, Meanwhile
  <2>1. CASE \E u \in Users, t \in Tags : registerMintingTag(Current, u, t)
    BY <2>0, <2>1, BridgeRegister
  <2>2. CASE \E t \in Tags, d \in DepositIds, x \in 1 .. MaxSupply :
               processDirectMint(Current, Operator, t, d, x)
    BY <2>0, <2>2, BridgeProcess
  <2>3. CASE \E d \in DepositIds : settleDirectMint(Current, d)
    BY <2>0, <2>3, BridgeSettle
  <2>4. CASE UNCHANGED <<mintVars, queueVars, tagUser, mintingRecipient>>
    BY <2>0, <2>4, BridgeFrame
  <2>5. QED
    BY <1>2, <2>1, <2>2, <2>3, <2>4
    DEF Meanwhile, ExecutorCooldownElapses, FAssetsArrive, pauseAdapter, unpauseAdapter,
        pauseVault, unpauseVault, setFAssetAdapter, tagVars, managerVars
<1>3. ASSUME NEW d \in DepositIds, NEW u \in Users, SomebodyRequeues(d, u)
      PROVE  ScriptsInv'
  BY <1>3, BridgeRequeue DEF SomebodyRequeues
<1>4. CASE UNCHANGED recoveryVars
  <2>1. UNCHANGED <<vars, requeued>>
    BY <1>4 DEF recoveryVars
  <2>2. TypeOK'
    BY <2>1, TypeStep DEF ScriptsInv
  <2>3. QED
    BY <2>1, <2>2, BridgeFrame DEF vars, tagVars, managerVars
<1>5. QED
  BY <1>1, <1>2, <1>3, <1>4 DEF RecoveryNext

\* What the maintenance scripts leave of the bridge's invariant holds throughout.
THEOREM BridgeInvariance == RecoverySpec => []ScriptsInv
<1>1. QED
  BY InitBridge, BridgeStep, PTL DEF RecoverySpec

\* A deposit that was settled is not brought back by queueing it through a
\* second adapter, however often the scripts are run and wherever they stop.
THEOREM SettledStaysClosed == RecoverySpec => []SettledIsClosed
<1>1. ScriptsInv => SettledIsClosed
  BY DEF ScriptsInv
<1>2. QED
  BY <1>1, BridgeInvariance, PTL

\* What the adapter has recorded is credited to the user of its tag, with the amount
\* recorded; the stuck deposit alone to whoever queued it before the script.
THEOREM RecoveryCredits == RecoverySpec => CreditsAsRecorded
<1> DEFINE Fair ==
      \A u \in Users : credited'[u] # credited[u] =>
        \E d \in DepositIds :
          LET directMint == pendingDirectMints[Current][d] IN
          /\ Pending(Current, d)
          /\ credited'[u] = credited[u] + directMint.assets
          /\ d \in settledFAssetDeposits' \ settledFAssetDeposits
          /\ tagUser[Current][directMint.tag] = u \/ (d = Stuck /\ requeued)
<1>1. ASSUME ScriptsInv, NEW d \in DepositIds, settleDirectMint(Current, d)
      PROVE  Fair
  <2>0. Current \in Adapters
    BY RecoveryAssumption
  <2> DEFINE m == pendingDirectMints[Current][d]
             u == pendingDepositReceiver[d]
  <2>1. /\ m.receiver # None /\ u # None
        /\ credited' = [credited EXCEPT ![u] = @ + m.assets]
        /\ settledFAssetDeposits' = settledFAssetDeposits \cup {d}
    BY <1>1 DEF settleDirectMint, settleFAssetDeposit
  <2>2. Pending(Current, d)
    BY <2>1 DEF Pending, NoMint
  <2>3. u = m.receiver \/ (d = Stuck /\ requeued)
    BY <1>1, <2>1, <2>2 DEF ScriptsInv, QueuedForUser
  <2>4. tagUser[Current][m.tag] = u \/ (d = Stuck /\ requeued)
    BY <1>1, <2>0, <2>2, <2>3 DEF ScriptsInv, OnlyCurrentMints
  <2>5. d \notin settledFAssetDeposits
    BY <1>1, <2>1 DEF ScriptsInv, SettledIsClosed
  <2>6. u \in Users /\ credited \in [Users -> Nat]
    BY <1>1, <2>1 DEF ScriptsInv, TypeOK
  <2>7. \A v \in Users : credited'[v] # credited[v] =>
          v = u /\ credited'[v] = credited[v] + m.assets
    BY <2>1, <2>6
  <2>8. QED
    BY <2>1, <2>2, <2>4, <2>5, <2>7
<1>2. ASSUME [RecoveryNext]_recoveryVars, credited' # credited
      PROVE  \E d \in DepositIds : settleDirectMint(Current, d)
  <2>1. ~Script
    BY <1>2, ScriptTouches DEF vars, queueVars, setFAssetAdapter, queueFAssetDeposit
  <2>2. Meanwhile
    BY <1>2, <2>1
    DEF RecoveryNext, SomebodyRequeues, queueFAssetDeposit, recoveryVars, vars, queueVars
  <2>3. QED
    BY <1>2, <2>2
    DEF Meanwhile, registerMintingTag, processDirectMint, queueFAssetDeposit,
        ExecutorCooldownElapses, FAssetsArrive, pauseAdapter, unpauseAdapter, pauseVault,
        unpauseVault, setFAssetAdapter, queueVars
<1>3. ScriptsInv /\ [RecoveryNext]_recoveryVars => [Fair]_vars
  <2> HIDE DEF Fair
  <2>1. credited' = credited => Fair
    BY DEF Fair
  <2>2. QED
    BY <1>1, <1>2, <2>1
<1>4. QED
  BY <1>3, BridgeInvariance, PTL DEF RecoverySpec, CreditsAsRecorded

(***************************************************************************)
(* With the scripts at work the bridge implements DepositLedger for the    *)
(* claims in the queue of the vault.                                       *)
(***************************************************************************)
queueClaims == [d \in DepositIds |-> QueuedClaim(d)]

\* What leaves the record and the queue entry of a deposit alone leaves its claim.
LEMMA QueuedClaimStays ==
  ASSUME NEW d \in DepositIds,
         pendingDirectMints'[Current][d] = pendingDirectMints[Current][d],
         pendingDepositReceiver'[d] = pendingDepositReceiver[d]
  PROVE  QueuedClaim(d)' = QueuedClaim(d)
BY DEF QueuedClaim, Pending

LEMMA QueuedClaimIsClaim ==
  ASSUME NEW d \in DepositIds, TypeOK, Pending(Current, d), pendingDepositReceiver[d] # None
  PROVE  /\ QueuedClaim(d) = [receiver |-> pendingDepositReceiver[d],
                              assets |-> pendingDirectMints[Current][d].assets]
         /\ QueuedClaim(d) \in Queue!Claims
         /\ QueuedClaim(d) # NoClaim
<1>1. Current \in Adapters
  BY RecoveryAssumption
<1>2. pendingDirectMints[Current][d] \in Mints
  BY <1>1, MintHasReceiver DEF TypeOK, Pending
<1>3. pendingDepositReceiver[d] \in Users /\ pendingDirectMints[Current][d].assets \in Nat \ {0}
  BY <1>2 DEF TypeOK, Mints
<1>4. QueuedClaim(d) = [receiver |-> pendingDepositReceiver[d],
                        assets |-> pendingDirectMints[Current][d].assets]
  BY DEF QueuedClaim
<1>5. QED
  BY <1>3, <1>4 DEF Queue!Claims, NoClaim, NoMint

QueuedClaimsTyped ==
  \A d \in DepositIds : Pending(Current, d) /\ pendingDepositReceiver[d] # None =>
    QueuedClaim(d) \in Queue!Claims

LEMMA ClaimsTyped == TypeOK => QueuedClaimsTyped
BY QueuedClaimIsClaim DEF QueuedClaimsTyped

LEMMA ClaimsWillBeTyped == TypeOK' => QueuedClaimsTyped'
BY ClaimsTyped, PTL

\* A deposit enters the queue once it is with the adapter, or stays without a claim.
LEMMA QueueingRecords ==
  ASSUME TypeOK, TypeOK', NEW d \in DepositIds,
         pendingDepositReceiver[d] = None, pendingDepositReceiver'[d] # None,
         d \notin settledFAssetDeposits, UNCHANGED <<settledFAssetDeposits, credited>>,
         \A c \in DepositIds \ {d} :
           /\ pendingDirectMints'[Current][c] = pendingDirectMints[Current][c]
           /\ pendingDepositReceiver'[c] = pendingDepositReceiver[c]
  PROVE  [Queue!Next]_(Queue!vars)
<1>1. \A c \in DepositIds \ {d} : QueuedClaim(c)' = QueuedClaim(c)
  BY QueuedClaimStays
<1>2. QueuedClaim(d) = NoClaim
  BY DEF QueuedClaim
<1>3. CASE Pending(Current, d)'
  <2>1. QueuedClaim(d)' \in Queue!Claims
    BY <1>3, ClaimsWillBeTyped DEF QueuedClaimsTyped
  <2>2. queueClaims' = [queueClaims EXCEPT ![d] = queueClaims'[d]]
    BY <1>1 DEF queueClaims
  <2>3. Queue!Record(d)
    BY <1>2, <2>1, <2>2 DEF Queue!Record, queueClaims
  <2>4. QED
    BY <2>3 DEF Queue!Next
<1>4. CASE ~Pending(Current, d)'
  <2>1. QueuedClaim(d)' = NoClaim
    BY <1>4 DEF QueuedClaim, NoClaim
  <2>2. queueClaims' = queueClaims
    BY <1>1, <1>2, <2>1 DEF queueClaims, NoClaim
  <2>3. QED
    BY <2>2 DEF Queue!vars, queueClaims
<1>5. QED
  BY <1>3, <1>4

\* The executor records a direct mint and queues it.
LEMMA ScriptsRecord ==
  ASSUME ScriptsInv, ScriptsInv', NEW t \in Tags, NEW d \in DepositIds, NEW x,
         processDirectMint(Current, Operator, t, d, x)
  PROVE  [Queue!Next]_(Queue!vars)
<1>0. Current \in Adapters
  BY RecoveryAssumption
<1>1. /\ pendingDepositReceiver[d] = None /\ d \notin settledFAssetDeposits
      /\ UNCHANGED <<settledFAssetDeposits, credited>>
      /\ tagUser[Current][t] # None
      /\ pendingDepositReceiver' = [pendingDepositReceiver EXCEPT ![d] = tagUser[Current][t]]
  BY DEF processDirectMint, queueFAssetDeposit
<1>2. /\ pendingDepositReceiver'[d] # None
      /\ \A c \in DepositIds \ {d} :
           /\ pendingDirectMints'[Current][c] = pendingDirectMints[Current][c]
           /\ pendingDepositReceiver'[c] = pendingDepositReceiver[c]
  BY <1>0, <1>1 DEF ScriptsInv, TypeOK, processDirectMint, recordDirectMint
<1>3. QED
  BY <1>1, <1>2, QueueingRecords DEF ScriptsInv

\* A script, or anybody, queues a deposit through the recovery adapter.
LEMMA ScriptsQueue ==
  ASSUME ScriptsInv, ScriptsInv', NEW d \in DepositIds, NEW u \in Users,
         queueFAssetDeposit(Recovery, d, u), UNCHANGED mintVars
  PROVE  [Queue!Next]_(Queue!vars)
<1>1. /\ pendingDepositReceiver[d] = None /\ d \notin settledFAssetDeposits
      /\ UNCHANGED <<settledFAssetDeposits, credited, pendingDirectMints>>
      /\ pendingDepositReceiver' = [pendingDepositReceiver EXCEPT ![d] = u]
  BY DEF queueFAssetDeposit, mintVars
<1>2. /\ pendingDepositReceiver'[d] # None
      /\ \A c \in DepositIds \ {d} : pendingDepositReceiver'[c] = pendingDepositReceiver[c]
  BY <1>1, NoneAssumption DEF ScriptsInv, TypeOK
<1>3. QED
  BY <1>1, <1>2, QueueingRecords DEF ScriptsInv

\* Settling closes a claim and credits it in full, also one that was queued
\* through the recovery adapter.
LEMMA ScriptsCredit ==
  ASSUME ScriptsInv, NEW d \in DepositIds, settleDirectMint(Current, d)
  PROVE  Queue!Credit(d)
<1>0. Current \in Adapters
  BY RecoveryAssumption
<1> DEFINE m == pendingDirectMints[Current][d]
           u == pendingDepositReceiver[d]
<1>1. /\ m.receiver # None /\ u # None
      /\ credited' = [credited EXCEPT ![u] = @ + m.assets]
      /\ settledFAssetDeposits' = settledFAssetDeposits \cup {d}
      /\ pendingDirectMints' = [pendingDirectMints EXCEPT ![Current][d] = NoMint]
      /\ pendingDepositReceiver' = [pendingDepositReceiver EXCEPT ![d] = None]
  BY DEF settleDirectMint, settleFAssetDeposit, releaseDirectMint
<1>2. Pending(Current, d)
  BY <1>1 DEF Pending, NoMint
<1>3. QueuedClaim(d) = [receiver |-> u, assets |-> m.assets] /\ QueuedClaim(d) # NoClaim
  BY <1>1, <1>2, QueuedClaimIsClaim DEF ScriptsInv
<1>4. /\ pendingDepositReceiver'[d] = None
      /\ \A c \in DepositIds \ {d} :
           /\ pendingDirectMints'[Current][c] = pendingDirectMints[Current][c]
           /\ pendingDepositReceiver'[c] = pendingDepositReceiver[c]
  BY <1>0, <1>1 DEF ScriptsInv, TypeOK
<1>5. QueuedClaim(d)' = NoClaim
  BY <1>4 DEF QueuedClaim, NoClaim
<1>6. \A c \in DepositIds \ {d} : QueuedClaim(c)' = QueuedClaim(c)
  BY <1>4, QueuedClaimStays
<1>7. queueClaims' = [queueClaims EXCEPT ![d] = NoClaim]
  BY <1>5, <1>6 DEF queueClaims
<1>8. queueClaims[d].receiver = u /\ queueClaims[d].assets = m.assets
  BY <1>3 DEF queueClaims
<1>9. credited' = [credited EXCEPT ![queueClaims[d].receiver] = @ + queueClaims[d].assets]
  BY <1>1, <1>8
<1>10. queueClaims[d] # NoClaim
  BY <1>3 DEF queueClaims
<1>11. QED
  BY <1>1, <1>7, <1>9, <1>10 DEF Queue!Credit, queueClaims

\* Whatever runs of the scripts, complete or cut short, and whoever queues through
\* the recovery adapter in between: a claim in the queue of the vault is credited
\* once, in full, and to whom it was queued for.
THEOREM ScriptsKeepLedger == RecoverySpec => QueueSpec
<1>1. StuckInit => Queue!Init
  <2> SUFFICES ASSUME StuckInit PROVE Queue!Init
    OBVIOUS
  <2>1. \A d \in DepositIds : QueuedClaim(d) = NoClaim
    BY DEF StuckInit, QueuedClaim
  <2>2. QED
    BY <2>1 DEF StuckInit, Queue!Init
<1>2. ASSUME ScriptsInv, ScriptsInv', [RecoveryNext]_recoveryVars
      PROVE  [Queue!Next]_(Queue!vars)
  <2>1. CASE UNCHANGED <<pendingDirectMints, queueVars>>
    <3>1. \A d \in DepositIds : QueuedClaim(d)' = QueuedClaim(d)
      BY <2>1, QueuedClaimStays DEF queueVars
    <3>2. QED
      BY <2>1, <3>1 DEF Queue!vars, queueVars
  <2>2. CASE Script
    <3>1. CASE UNCHANGED vars \/ \E a \in {Assembled, Recovery, Current} : setFAssetAdapter(a)
      BY <2>1, <3>1 DEF vars, mintVars, setFAssetAdapter
    <3>2. CASE /\ queueFAssetDeposit(Recovery, Stuck, Receiver)
               /\ UNCHANGED <<managerVars, tagVars, mintVars, tokenVars, adminVars>>
      BY <1>2, <3>2, ScriptsQueue, RecoveryAssumption
    <3>3. QED
      BY <2>2, <3>1, <3>2, ScriptTouches
  <2>3. CASE Meanwhile
    <3>1. CASE \E t \in Tags, d \in DepositIds, x \in 1 .. MaxSupply :
                 processDirectMint(Current, Operator, t, d, x)
      BY <1>2, <3>1, ScriptsRecord
    <3>2. CASE \E d \in DepositIds : settleDirectMint(Current, d)
      BY <1>2, <3>2, ScriptsCredit DEF Queue!Next
    <3>3. QED
      BY <2>1, <2>3, <3>1, <3>2
      DEF Meanwhile, registerMintingTag, ExecutorCooldownElapses, FAssetsArrive, pauseAdapter,
          unpauseAdapter, pauseVault, unpauseVault, setFAssetAdapter, mintVars, queueVars
  <2>4. CASE \E d \in DepositIds, u \in Users : SomebodyRequeues(d, u)
    BY <1>2, <2>4, ScriptsQueue DEF SomebodyRequeues
  <2>5. CASE UNCHANGED recoveryVars
    BY <2>1, <2>5 DEF recoveryVars, vars, mintVars
  <2>6. QED
    BY <1>2, <2>2, <2>3, <2>4, <2>5 DEF RecoveryNext
<1>3. ScriptsInv /\ ScriptsInv' /\ [RecoveryNext]_recoveryVars => [Queue!Next]_(Queue!vars)
  BY <1>2
<1>4. QED
  BY <1>1, <1>3, BridgeInvariance, PTL DEF RecoverySpec, QueueSpec, Queue!Spec

(***************************************************************************)
(* What a script reports.                                                  *)
(***************************************************************************)
LEMMA InitReport == StuckInit => CompleteIsQueued
BY DEF StuckInit, CompleteIsQueued

\* Once it is queued for the receiver, the deposit leaves the queue settled.
LEMMA QueuedUntilSettled ==
  ASSUME ScriptsInv, [RecoveryNext]_recoveryVars,
         pendingDepositReceiver[Stuck] = Receiver \/ Stuck \in settledFAssetDeposits
  PROVE  (pendingDepositReceiver[Stuck] = Receiver \/ Stuck \in settledFAssetDeposits)'
<1>0. /\ Current \in Adapters /\ Stuck \in DepositIds
      /\ pendingDepositReceiver \in [DepositIds -> Users \cup {None}]
  BY RecoveryAssumption DEF ScriptsInv, TypeOK
<1>1. CASE UNCHANGED queueVars
  BY <1>1 DEF queueVars
<1>2. ASSUME NEW d \in DepositIds, NEW u \in Users, queueFAssetDeposit(Recovery, d, u)
      PROVE  (pendingDepositReceiver[Stuck] = Receiver \/ Stuck \in settledFAssetDeposits)'
  <2>1. Receiver # None
    BY RecoveryAssumption, NoneAssumption
  <2>2. QED
    BY <1>0, <1>2, <2>1 DEF queueFAssetDeposit
<1>3. ASSUME NEW t \in Tags, NEW d \in DepositIds, NEW x,
             processDirectMint(Current, Operator, t, d, x)
      PROVE  (pendingDepositReceiver[Stuck] = Receiver \/ Stuck \in settledFAssetDeposits)'
  <2>1. /\ d \notin processedDirectMints[Current] /\ d \notin settledFAssetDeposits
        /\ pendingDepositReceiver' =
             [pendingDepositReceiver EXCEPT ![d] = tagUser[Current][t]]
        /\ UNCHANGED settledFAssetDeposits
    BY <1>3 DEF processDirectMint, recordDirectMint, queueFAssetDeposit
  <2>2. d # Stuck
    BY <1>0, <2>1 DEF ScriptsInv, OnlyCurrentMints, StuckWaits
  <2>3. QED
    BY <1>0, <2>1, <2>2
<1>4. ASSUME NEW d \in DepositIds, settleDirectMint(Current, d)
      PROVE  (pendingDepositReceiver[Stuck] = Receiver \/ Stuck \in settledFAssetDeposits)'
  BY <1>0, <1>4 DEF settleDirectMint, settleFAssetDeposit
<1>5. CASE Script
  BY <1>1, <1>2, <1>5, ScriptTouches, RecoveryAssumption DEF vars, setFAssetAdapter
<1>6. CASE Meanwhile
  BY <1>1, <1>3, <1>4, <1>6
  DEF Meanwhile, registerMintingTag, ExecutorCooldownElapses, FAssetsArrive, pauseAdapter,
      unpauseAdapter, pauseVault, unpauseVault, setFAssetAdapter
<1>7. CASE \E d \in DepositIds, u \in Users : SomebodyRequeues(d, u)
  BY <1>2, <1>7 DEF SomebodyRequeues
<1>8. QED
  BY <1>1, <1>5, <1>6, <1>7 DEF RecoveryNext, recoveryVars, vars

LEMMA ReportStep == ScriptsInv /\ CompleteIsQueued /\ [RecoveryNext]_recoveryVars => CompleteIsQueued'
<1> SUFFICES ASSUME ScriptsInv, CompleteIsQueued, [RecoveryNext]_recoveryVars,
                    outcome' \in {"complete", "already fixed"}
             PROVE  (pendingDepositReceiver[Stuck] = Receiver \/ Stuck \in settledFAssetDeposits)'
  BY DEF CompleteIsQueued
<1>1. outcome' = outcome
      \/ (pendingDepositReceiver[Stuck] = Receiver /\ UNCHANGED vars)
  BY DEF RecoveryNext, Script, Run, ReadsAdapter, ReadsReceiver, Deploys, Points, FixRequeues,
     DeployRequeues, Restores, Verifies, Interrupted, Repaired, At, Advance, Ends, Meanwhile,
     SomebodyRequeues, recoveryVars, scriptVars
<1>2. CASE outcome' = outcome
  BY <1>2, QueuedUntilSettled DEF CompleteIsQueued
<1>3. CASE pendingDepositReceiver[Stuck] = Receiver /\ UNCHANGED vars
  BY <1>3 DEF vars, queueVars
<1>4. QED
  BY <1>1, <1>2, <1>3

\* What a script reports as complete, or as already fixed, is queued for the
\* receiver until it is settled.
THEOREM CompleteStaysQueued == RecoverySpec => []CompleteIsQueued
<1>1. QED
  BY InitReport, ReportStep, BridgeInvariance, PTL DEF RecoverySpec

(***************************************************************************)
(* The adapter the vault is left with.                                     *)
(***************************************************************************)
LEMMA InitOutage == StuckInit => OutageKnown
BY RecoveryAssumption DEF StuckInit, OutageKnown

LEMMA OutageStep == OutageKnown /\ [RecoveryNext]_recoveryVars => OutageKnown'
<1> SUFFICES ASSUME OutageKnown, [RecoveryNext]_recoveryVars PROVE OutageKnown'
  OBVIOUS
<1>0. {Assembled, Recovery} \cap {Current, Old} = {}
  BY RecoveryAssumption
<1>1. CASE Points
  BY <1>1 DEF Points, Advance, OutageKnown
<1>2. CASE Restores
  BY <1>0, <1>2 DEF Restores, setFAssetAdapter, OutageKnown
<1>3. CASE DeployRequeues
  BY <1>3 DEF DeployRequeues, At, Advance, Ends, OutageKnown, adminVars, vars
<1>4. CASE \/ \E name \in {"fixAdapterMismatch", "deployRecoveryAdapter"} : Run(name)
           \/ ReadsAdapter("readAdapter", "readReceiver")
           \/ ReadsAdapter("verifyAdapter", "verifyReceiver")
  BY <1>4 DEF Run, ReadsAdapter, OutageKnown, vars, adminVars
<1>5. CASE ReadsReceiver
  BY <1>0, <1>5 DEF ReadsReceiver, Repaired, Advance, Ends, OutageKnown, vars, adminVars
<1>6. CASE Deploys \/ FixRequeues \/ Verifies \/ Interrupted
  BY <1>6 DEF Deploys, FixRequeues, Verifies, Interrupted, At, Advance, Ends, OutageKnown, vars, adminVars
<1>7. CASE Meanwhile
  <2>1. /\ UNCHANGED <<at, saw, outcome>>
        /\ fAssetAdapter' = fAssetAdapter \/ fAssetAdapter' \notin {Assembled, Recovery}
    BY <1>0, <1>7
    DEF Meanwhile, scriptVars, registerMintingTag, processDirectMint, settleDirectMint,
        ExecutorCooldownElapses, FAssetsArrive, pauseAdapter, unpauseAdapter, pauseVault,
        unpauseVault, setFAssetAdapter, adminVars
  <2>2. QED
    BY <2>1 DEF OutageKnown
<1>8. CASE UNCHANGED recoveryVars
  BY <1>8 DEF recoveryVars, scriptVars, vars, adminVars, OutageKnown
<1>9. CASE \E d \in DepositIds, u \in Users : SomebodyRequeues(d, u)
  BY <1>9 DEF SomebodyRequeues, scriptVars, adminVars, OutageKnown
<1>10. QED
  BY <1>1, <1>2, <1>3, <1>4, <1>5, <1>6, <1>7, <1>8, <1>9 DEF RecoveryNext, Script

\* A vault is left at a recovery adapter, where nothing is recorded or settled,
\* only by a run that was cut short.
THEOREM OutageIsKnown == RecoverySpec => []OutageMeansCutShort
<1>1. OutageKnown => OutageMeansCutShort
  BY DEF OutageKnown, OutageMeansCutShort
<1>2. QED
  BY <1>1, InitOutage, OutageStep, PTL DEF RecoverySpec
==============================================================================
