-------------------------- MODULE RebalanceLoop_proofs --------------------------
(***************************************************************************)
(* Proofs about the strategy adapters and the rebalance loop they are part *)
(* of.                                                                     *)
(*                                                                         *)
(* First the books of the adapters: every operation keeps its book well    *)
(* formed, an exit pays at least its minimum, withdrawAll leaves nothing   *)
(* but what addLiquidity left over, and it is refused without a position.  *)
(*                                                                         *)
(* Then the loop.  Its inductive invariant has two halves that hardly      *)
(* meet: the vaults with the books of their strategies, and the way of a   *)
(* request from a vault through the extension to a signed result.          *)
(***************************************************************************)
EXTENDS RebalanceLoop, TLAPS

Venues == [rate : Nat \ {0}, up : BOOLEAN]

\* Which of its fields an adapter uses; the rest stay zero.
WellFormed(b) ==
  /\ b \in Books
  /\ b.kind \in {"enosys", "ftso"} => b.lp = 0
  /\ b.kind \in {"kinetic", "ftso"} => b.held = 0
  /\ b.kind = "kinetic" => b.paired = 0

\* What withdrawAll is to leave of a book.
Emptied(b) ==
  /\ b.lp = 0
  /\ b.kind # "sparkdex" => b.held = 0 /\ b.paired = 0

(***************************************************************************)
(* Arithmetic.                                                             *)
(***************************************************************************)
LEMMA QuotientNat ==
  ASSUME NEW x \in Nat, NEW y \in Nat \ {0}
  PROVE  x \div y \in Nat /\ (x \div y) * y <= x
OBVIOUS

\* Of a part, floor takes no more than there is.
LEMMA PartOfNat ==
  ASSUME NEW a \in Nat, NEW x \in Nat, NEW y \in Nat \ {0}, x <= y
  PROVE  (a * x) \div y \in Nat /\ (a * x) \div y <= a
<1> DEFINE q == (a * x) \div y
<1>1. a * x \in Nat /\ a * x <= a * y
  OBVIOUS
<1>2. q \in Nat /\ q * y <= a * x
  BY <1>1, QuotientNat
<1>3. SUFFICES ASSUME q > a PROVE FALSE
  BY <1>2
<1>4. q >= a + 1
  BY <1>2, <1>3
<1>5. q * y >= (a + 1) * y
  BY <1>2, <1>4
<1>6. (a + 1) * y = a * y + y
  OBVIOUS
<1>7. a * y \in Nat /\ q * y \in Nat
  BY <1>2
<1>8. QED
  BY <1>1, <1>2, <1>5, <1>6, <1>7

LEMMA MinOfTwo ==
  ASSUME NEW x \in Nat, NEW y \in Nat
  PROVE  Min({x, y}) \in Nat /\ Min({x, y}) <= x /\ Min({x, y}) <= y
<1>1. \E m \in {x, y} : \A n \in {x, y} : m <= n
  <2>1. CASE x <= y
    BY <2>1
  <2>2. CASE y <= x
    BY <2>2
  <2>3. QED
    BY <2>1, <2>2
<1>2. Min({x, y}) \in {x, y} /\ \A n \in {x, y} : Min({x, y}) <= n
  BY <1>1 DEF Min
<1>3. QED
  BY <1>2

LEMMA Quotes ==
  ASSUME NEW x \in Nat, NEW market \in Venues
  PROVE  Worth(x, market) \in Nat /\ Bought(x, market) \in Nat
<1>1. x * market.rate \in Nat /\ x * Par \in Nat /\ market.rate \in Nat \ {0}
  BY ParAssumption DEF Venues
<1>2. QED
  BY <1>1, ParAssumption, QuotientNat DEF Worth, Bought

LEMMA SwapsPay ==
  ASSUME NEW quote \in Nat, NEW minOut \in Nat, NEW market
  PROVE  /\ Swaps(quote, minOut, market) \subseteq Nat
         /\ \A amount : SwapsIfAny(amount, quote, market) \subseteq Nat
BY ImpactAssumption DEF Swaps, SwapsIfAny

LEMMA ValueNat ==
  ASSUME NEW b, WellFormed(b), NEW market \in Venues
  PROVE  totalValue(b, market) \in Nat
<1>1. b.kind \in Kinds /\ b.held \in Nat /\ b.paired \in Nat /\ b.lp \in Nat
  BY DEF WellFormed, Books
<1>2. Worth(b.paired, market) \in Nat /\ Worth(b.lp, market) \in Nat
  BY <1>1, Quotes
<1>3. QED
  BY <1>1, <1>2 DEF totalValue, Kinds
(***************************************************************************)
(* deposit.                                                                *)
(***************************************************************************)
LEMMA AddLiquidityKeeps ==
  ASSUME NEW b, WellFormed(b), b.kind = "sparkdex", NEW retained \in Nat, NEW wnat \in Nat,
         NEW market \in Venues
  PROVE  /\ WellFormed(addLiquidity(b, retained, wnat, market))
         /\ addLiquidity(b, retained, wnat, market).kind = b.kind
<1> DEFINE taken == Min({retained, Worth(wnat, market)})
           spent == Min({wnat, Bought(taken, market)})
           e == addLiquidity(b, retained, wnat, market)
<1>1. taken \in Nat /\ taken <= retained
  BY Quotes, MinOfTwo
<1>2. spent \in Nat /\ spent <= wnat
  BY <1>1, Quotes, MinOfTwo
<1>3. e = [b EXCEPT !.lp = @ + taken, !.held = @ + retained - taken,
                    !.paired = @ + wnat - spent]
  BY DEF addLiquidity
<1>4. b \in Books
  BY DEF WellFormed
<1> HIDE DEF taken, spent, e
<1>5. /\ b.lp + taken \in Nat /\ b.held + retained - taken \in Nat
      /\ b.paired + wnat - spent \in Nat
  BY <1>1, <1>2, <1>4 DEF Books
<1>6. e \in Books /\ e.kind = b.kind
  BY <1>3, <1>4, <1>5 DEF Books
<1>7. QED
  BY <1>6 DEF WellFormed, e

\* A deposit keeps the book well formed.
THEOREM DepositKeeps ==
  ASSUME NEW b, WellFormed(b), NEW amount \in Nat, NEW market \in Venues,
         NEW e \in Deposits(b, amount, market)
  PROVE  WellFormed(e) /\ e.kind = b.kind
<1>1. b \in Books /\ b.kind \in Kinds
  BY DEF WellFormed, Books
<1>2. /\ amount \div 2 \in Nat /\ amount - amount \div 2 \in Nat
      /\ ((amount \div 2) * 995) \div 1000 \in Nat /\ (amount * 9950) \div 10000 \in Nat
  OBVIOUS
<1>3. /\ Bought(amount, market) \in Nat /\ Bought(amount \div 2, market) \in Nat
  BY <1>2, Quotes
<1>4. CASE b.kind = "enosys"
  <2>1. e \in EnosysDeposit(b, amount, market)
    BY <1>4 DEF Deposits
  <2>2. PICK got \in SwapsIfAny(amount \div 2, Bought(amount \div 2, market), market) :
          e = [b EXCEPT !.held = @ + amount - amount \div 2, !.paired = @ + got]
    BY <2>1 DEF EnosysDeposit
  <2>3. got \in Nat
    BY <1>3, SwapsPay DEF SwapsIfAny, Swaps
  <2>4. b.held + amount - amount \div 2 \in Nat /\ b.paired + got \in Nat
    BY <1>1, <1>2, <2>3 DEF Books
  <2>5. e \in Books /\ e.kind = b.kind /\ e.lp = b.lp
    BY <1>1, <2>2, <2>4 DEF Books
  <2>6. QED
    BY <1>4, <2>5 DEF WellFormed
<1>5. CASE b.kind = "sparkdex"
  <2> DEFINE half == amount \div 2
             retained == amount - half
  <2>1. PICK wnat \in IF half = 0 THEN {0}
                      ELSE Swaps(Bought(half, market), (half * 995) \div 1000, market) :
          e = IF wnat = 0 THEN [b EXCEPT !.held = @ + retained]
              ELSE addLiquidity(b, retained, wnat, market)
    BY <1>5 DEF Deposits, SparkDexDeposit
  <2>2. wnat \in Nat
    BY <1>3, ImpactAssumption DEF Swaps
  <2>3. retained \in Nat
    BY <1>2
  <2> HIDE DEF half, retained
  <2>4. CASE wnat = 0
    <3>1. e = [b EXCEPT !.held = @ + retained]
      BY <2>1, <2>4
    <3>2. b.held + retained \in Nat
      BY <1>1, <2>3 DEF Books
    <3>3. e \in Books /\ e.kind = b.kind
      BY <1>1, <3>1, <3>2 DEF Books
    <3>4. QED
      BY <1>5, <3>3 DEF WellFormed
  <2>5. CASE wnat # 0
    <3>1. e = addLiquidity(b, retained, wnat, market)
      BY <2>1, <2>5
    <3>2. QED
      BY <1>5, <2>2, <2>3, <3>1, AddLiquidityKeeps
  <2>6. QED
    BY <2>4, <2>5
<1>6. CASE b.kind = "kinetic"
  <2>1. e \in {[b EXCEPT !.lp = @ + k] : k \in {Bought(amount, market)} \ {0}}
    BY <1>6 DEF Deposits, KineticDeposit
  <2>2. e = [b EXCEPT !.lp = @ + Bought(amount, market)]
    BY <2>1
  <2>3. b.lp + Bought(amount, market) \in Nat
    BY <1>1, <1>3 DEF Books
  <2>4. e \in Books /\ e.kind = b.kind /\ e.held = b.held /\ e.paired = b.paired
    BY <1>1, <2>2, <2>3 DEF Books
  <2>5. QED
    BY <1>6, <2>4 DEF WellFormed
<1>7. CASE b.kind = "ftso"
  <2>1. PICK got \in Swaps(Bought(amount, market), (amount * 9950) \div 10000, market) :
          e = [b EXCEPT !.paired = @ + got]
    BY <1>7 DEF Deposits, FtsoDeposit
  <2>2. got \in Nat
    <3>1. Swaps(Bought(amount, market), (amount * 9950) \div 10000, market) \subseteq Nat
      BY <1>2, <1>3, SwapsPay
    <3>2. QED
      BY <3>1
  <2>3. b.paired + got \in Nat
    BY <1>1, <2>2 DEF Books
  <2>4. e \in Books /\ e.kind = b.kind /\ e.held = b.held /\ e.lp = b.lp
    BY <1>1, <2>1, <2>3 DEF Books
  <2>5. QED
    BY <1>7, <2>4 DEF WellFormed
<1>8. QED
  BY <1>1, <1>4, <1>5, <1>6, <1>7 DEF Kinds
(***************************************************************************)
(* withdraw and withdrawAll.                                               *)
(***************************************************************************)

\* An exit in progress: what it may leave and pay, before the caller's minimum.
Fine(b, exit) ==
  WellFormed(exit.book) /\ exit.book.kind = b.kind /\ exit.out \in Nat

LEMMA RemovalKeeps ==
  ASSUME NEW b, WellFormed(b), b.kind = "sparkdex", NEW lp \in Nat, lp <= b.lp,
         NEW market \in Venues, NEW exit \in removeLiquidityAndSwap(b, lp, market)
  PROVE  Fine(b, exit) /\ exit.book.lp = b.lp - lp
<1>1. PICK got \in SwapsIfAny(Bought(lp, market), Worth(Bought(lp, market), market), market) :
        exit = Exit([b EXCEPT !.lp = @ - lp], lp + got)
  BY DEF removeLiquidityAndSwap
<1>2. Worth(Bought(lp, market), market) \in Nat
  BY Quotes
<1>3. got \in Nat
  BY <1>2, ImpactAssumption DEF SwapsIfAny, Swaps
<1>4. exit.out = lp + got /\ exit.book = [b EXCEPT !.lp = @ - lp]
  BY <1>1 DEF Exit
<1>5. b \in Books /\ b.lp - lp \in Nat
  BY DEF WellFormed, Books
<1>6. exit.book \in Books /\ exit.book.kind = b.kind /\ exit.book.lp = b.lp - lp
  BY <1>4, <1>5 DEF Books
<1>7. QED
  BY <1>3, <1>4, <1>6 DEF Fine, WellFormed

\* withdraw(amount, minAmountOut) pays at least the minimum and keeps the book
\* well formed: no position goes below zero.
THEOREM WithdrawKeeps ==
  ASSUME NEW b, WellFormed(b), NEW amount \in Nat, NEW minAmountOut \in Nat,
         NEW market \in Venues, NEW exit \in Withdrawals(b, amount, minAmountOut, market)
  PROVE  Fine(b, exit) /\ exit.out >= minAmountOut
<1>1. b \in Books /\ b.kind \in Kinds
  BY DEF WellFormed, Books
<1>2. exit.out >= minAmountOut
  BY DEF Withdrawals, PaysAtLeast
<1>3. totalValue(b, market) \in Nat
  BY ValueNat
<1>4. CASE b.kind = "enosys"
  <2> DEFINE total == totalValue(b, market)
             sold == (b.paired * amount) \div total
             kept == (b.held * amount) \div total
  <2>1. exit \in EnosysWithdraw(b, amount, market)
    BY <1>4 DEF Withdrawals, PaysAtLeast
  <2>2. total \in Nat \ {0} /\ amount <= total
    BY <1>3, <2>1 DEF EnosysWithdraw
  <2>3. PICK got \in SwapsIfAny(sold, Worth(sold, market), market) :
          exit = Exit([b EXCEPT !.held = @ - kept, !.paired = @ - sold], kept + got)
    BY <2>1, <2>2 DEF EnosysWithdraw
  <2>4. b.paired \in Nat /\ b.held \in Nat
    BY <1>1 DEF Books
  <2> HIDE DEF total
  <2>5. sold \in Nat /\ sold <= b.paired /\ kept \in Nat /\ kept <= b.held
    BY <2>2, <2>4, PartOfNat
  <2> HIDE DEF sold, kept
  <2>6. Worth(sold, market) \in Nat
    BY <2>5, Quotes
  <2>7. got \in Nat
    BY <2>6, ImpactAssumption DEF SwapsIfAny, Swaps
  <2>8. /\ exit.book = [b EXCEPT !.held = @ - kept, !.paired = @ - sold]
        /\ exit.out = kept + got
    BY <2>3 DEF Exit
  <2>9. b.held - kept \in Nat /\ b.paired - sold \in Nat /\ kept + got \in Nat
    BY <2>4, <2>5, <2>7
  <2>10. exit.book \in Books /\ exit.book.kind = b.kind /\ exit.book.lp = b.lp
    BY <1>1, <2>8, <2>9 DEF Books
  <2>11. QED
    BY <1>2, <1>4, <2>8, <2>9, <2>10 DEF Fine, WellFormed
<1>5. CASE b.kind = "sparkdex"
  <2> DEFINE total == totalValue(b, market)
             part == (b.lp * amount) \div total
  <2>1. exit \in SparkDexWithdraw(b, amount, market)
    BY <1>5 DEF Withdrawals, PaysAtLeast
  <2>2. total \in Nat \ {0} /\ amount <= total
    BY <1>3, <2>1 DEF SparkDexWithdraw
  <2>3. exit \in removeLiquidityAndSwap(b, part, market)
    BY <2>1, <2>2 DEF SparkDexWithdraw
  <2>4. b.lp \in Nat
    BY <1>1 DEF Books
  <2> HIDE DEF total
  <2>5. part \in Nat /\ part <= b.lp
    BY <2>2, <2>4, PartOfNat
  <2> HIDE DEF part
  <2>6. QED
    BY <1>2, <1>5, <2>3, <2>5, RemovalKeeps
<1>6. CASE b.kind = "kinetic"
  <2>1. exit \in KineticWithdraw(b, amount, market)
    BY <1>6 DEF Withdrawals, PaysAtLeast
  <2>2. /\ Bought(amount, market) <= b.lp
        /\ exit = Exit([b EXCEPT !.lp = @ - Bought(amount, market)], amount)
    <3>1. ~ (~market.up \/ Bought(amount, market) > b.lp)
      BY <2>1 DEF KineticWithdraw
    <3>2. exit \in {Exit([b EXCEPT !.lp = @ - Bought(amount, market)], amount)}
      BY <2>1, <3>1 DEF KineticWithdraw
    <3>3. Bought(amount, market) \in Nat /\ b.lp \in Nat
      BY <1>1, Quotes DEF Books
    <3>4. QED
      BY <3>1, <3>2, <3>3
  <2>3. b.lp - Bought(amount, market) \in Nat
    BY <1>1, <2>2, Quotes DEF Books
  <2>4. exit.book = [b EXCEPT !.lp = @ - Bought(amount, market)] /\ exit.out = amount
    BY <2>2 DEF Exit
  <2>5. /\ exit.book \in Books /\ exit.book.kind = b.kind
        /\ exit.book.held = b.held /\ exit.book.paired = b.paired
    BY <1>1, <2>3, <2>4 DEF Books
  <2>6. QED
    BY <1>2, <1>6, <2>4, <2>5 DEF Fine, WellFormed
<1>7. CASE b.kind = "ftso"
  <2> DEFINE sold == Min({(amount * 11) \div 10, b.paired})
  <2>1. exit \in FtsoWithdraw(b, amount, market)
    BY <1>7 DEF Withdrawals, PaysAtLeast
  <2>2. b.paired # 0
    BY <2>1 DEF FtsoWithdraw
  <2>3. PICK got \in Swaps(Worth(sold, market), 0, market) :
          exit = Exit([b EXCEPT !.paired = @ - sold], got)
    BY <2>1, <2>2 DEF FtsoWithdraw
  <2>4. (amount * 11) \div 10 \in Nat /\ b.paired \in Nat
    BY <1>1 DEF Books
  <2>5. sold \in Nat /\ sold <= b.paired
    BY <2>4, MinOfTwo
  <2> HIDE DEF sold
  <2>6. got \in Nat
    BY <2>5, Quotes, ImpactAssumption DEF Swaps
  <2>7. exit.book = [b EXCEPT !.paired = @ - sold] /\ exit.out = got
    BY <2>3 DEF Exit
  <2>8. /\ exit.book \in Books /\ exit.book.kind = b.kind
        /\ exit.book.held = b.held /\ exit.book.lp = b.lp
    BY <1>1, <2>4, <2>5, <2>7 DEF Books
  <2>9. QED
    BY <1>2, <1>7, <2>6, <2>7, <2>8 DEF Fine, WellFormed
<1>8. QED
  BY <1>1, <1>4, <1>5, <1>6, <1>7 DEF Kinds

\* withdrawAll leaves nothing of a position, except what addLiquidity had left
\* over on the SparkDEX adapter.
THEOREM WithdrawAllEmpties ==
  ASSUME NEW b, WellFormed(b), NEW minAmountOut \in Nat, NEW market \in Venues,
         NEW exit \in WithdrawalsOfAll(b, minAmountOut, market)
  PROVE  Fine(b, exit) /\ Emptied(exit.book)
<1>1. b \in Books /\ b.kind \in Kinds
  BY DEF WellFormed, Books
<1>2. /\ b.held \in Nat /\ b.paired \in Nat /\ b.lp \in Nat
      /\ Worth(b.paired, market) \in Nat /\ Worth(b.lp, market) \in Nat
  BY <1>1, Quotes DEF Books
<1>3. CASE b.kind = "enosys"
  <2>1. exit \in EnosysWithdrawAll(b, market)
    BY <1>3 DEF WithdrawalsOfAll, PaysAtLeast
  <2>2. PICK got \in SwapsIfAny(b.paired, Worth(b.paired, market), market) :
          exit = Exit([b EXCEPT !.held = 0, !.paired = 0], b.held + got)
    BY <2>1 DEF EnosysWithdrawAll
  <2>3. got \in Nat
    BY <1>2, ImpactAssumption DEF SwapsIfAny, Swaps
  <2>4. exit.book = [b EXCEPT !.held = 0, !.paired = 0] /\ exit.out = b.held + got
    BY <2>2 DEF Exit
  <2>5. /\ [b EXCEPT !.held = 0] \in Books
        /\ exit.book = [[b EXCEPT !.held = 0] EXCEPT !.paired = 0]
    BY <1>1, <2>4 DEF Books
  <2>6. /\ exit.book \in Books /\ exit.book.kind = b.kind /\ exit.book.lp = b.lp
        /\ exit.book.held = 0 /\ exit.book.paired = 0
    BY <1>1, <2>5 DEF Books
  <2>7. QED
    BY <1>2, <1>3, <2>3, <2>4, <2>6 DEF Fine, WellFormed, Emptied
<1>4. CASE b.kind = "sparkdex"
  <2>1. exit \in SparkDexWithdrawAll(b, market)
    BY <1>4 DEF WithdrawalsOfAll, PaysAtLeast
  <2>2. exit \in removeLiquidityAndSwap(b, b.lp, market)
    BY <2>1 DEF SparkDexWithdrawAll
  <2>3. Fine(b, exit) /\ exit.book.lp = b.lp - b.lp
    BY <1>2, <1>4, <2>2, RemovalKeeps
  <2>4. QED
    BY <1>2, <1>4, <2>3 DEF Emptied, Fine
<1>5. CASE b.kind = "kinetic"
  <2>1. exit \in KineticWithdrawAll(b, market)
    BY <1>5 DEF WithdrawalsOfAll, PaysAtLeast
  <2>2. exit = Exit([b EXCEPT !.lp = 0], Worth(b.lp, market))
    BY <2>1 DEF KineticWithdrawAll
  <2>3. exit.book = [b EXCEPT !.lp = 0] /\ exit.out = Worth(b.lp, market)
    BY <2>2 DEF Exit
  <2>4. /\ exit.book \in Books /\ exit.book.kind = b.kind /\ exit.book.lp = 0
        /\ exit.book.held = b.held /\ exit.book.paired = b.paired
    BY <1>1, <2>3 DEF Books
  <2>5. QED
    BY <1>2, <1>5, <2>3, <2>4 DEF Fine, WellFormed, Emptied
<1>6. CASE b.kind = "ftso"
  <2>1. exit \in FtsoWithdrawAll(b, market)
    BY <1>6 DEF WithdrawalsOfAll, PaysAtLeast
  <2>2. PICK got \in Swaps(Worth(b.paired, market), 0, market) :
          exit = Exit([b EXCEPT !.paired = 0], got)
    BY <2>1 DEF FtsoWithdrawAll
  <2>3. got \in Nat
    BY <1>2, ImpactAssumption DEF Swaps
  <2>4. exit.book = [b EXCEPT !.paired = 0] /\ exit.out = got
    BY <2>2 DEF Exit
  <2>5. /\ exit.book \in Books /\ exit.book.kind = b.kind /\ exit.book.paired = 0
        /\ exit.book.held = b.held /\ exit.book.lp = b.lp
    BY <1>1, <2>4 DEF Books
  <2>6. QED
    BY <1>6, <2>3, <2>4, <2>5 DEF Fine, WellFormed, Emptied
<1>7. QED
  BY <1>1, <1>3, <1>4, <1>5, <1>6 DEF Kinds

\* Without a position withdrawAll is refused by every adapter.
THEOREM NothingToWithdraw ==
  ASSUME NEW b, WellFormed(b), HoldsNothing(b), NEW minAmountOut, NEW market
  PROVE  WithdrawalsOfAll(b, minAmountOut, market) = {}
<1>1. b.kind \in Kinds
  BY DEF WellFormed, Books
<1>2. /\ EnosysWithdrawAll(b, market) = {} /\ SparkDexWithdrawAll(b, market) = {}
      /\ KineticWithdrawAll(b, market) = {} /\ FtsoWithdrawAll(b, market) = {}
  BY DEF HoldsNothing, EnosysWithdrawAll, SparkDexWithdrawAll, KineticWithdrawAll,
     FtsoWithdrawAll
<1>3. QED
  BY <1>1, <1>2 DEF WithdrawalsOfAll, PaysAtLeast, Kinds

\* What an owner does to an adapter keeps its book well formed; only rewards
\* bring something into an empty one.
THEOREM OwnerKeeps ==
  ASSUME NEW b, WellFormed(b),
         NEW e \in PauseOrUnpause(b) \cup claimRewards(b) \cup rescueToken(b)
  PROVE  /\ WellFormed(e) /\ e.kind = b.kind /\ e.held = b.held /\ e.lp = b.lp
         /\ e.kind # "sparkdex" => e.paired >= b.paired
<1>1. b \in Books
  BY DEF WellFormed
<1>2. CASE e \in PauseOrUnpause(b)
  <2>1. e = [b EXCEPT !.paused = ~@]
    BY <1>2 DEF PauseOrUnpause
  <2>2. e.paused = ~b.paused /\ e.paused \in BOOLEAN
    BY <1>1, <2>1, Zenon DEF Books
  <2>3. /\ e = [b EXCEPT !.paused = e.paused]
        /\ e.kind = b.kind /\ e.held = b.held /\ e.paired = b.paired /\ e.lp = b.lp
    BY <1>1, <2>1 DEF Books
  <2>4. e \in Books
    BY <1>1, <2>2, <2>3 DEF Books
  <2>5. QED
    BY <1>1, <2>3, <2>4 DEF WellFormed, Books
<1>3. CASE e \in claimRewards(b)
  <2>1. b.kind = "ftso" /\ e = [b EXCEPT !.paired = @ + 1]
    BY <1>3 DEF claimRewards
  <2>2. QED
    BY <1>1, <2>1 DEF WellFormed, Books
<1>4. CASE e \in rescueToken(b)
  <2>1. b.kind = "sparkdex" /\ e \in {[b EXCEPT !.paired = p] : p \in 0 .. b.paired - 1}
    BY <1>4 DEF rescueToken
  <2>2. PICK p \in 0 .. b.paired - 1 : e = [b EXCEPT !.paired = p]
    BY <2>1
  <2>3. p \in Nat
    BY <1>1 DEF Books
  <2>4. QED
    BY <1>1, <2>1, <2>2, <2>3 DEF WellFormed, Books
<1>5. QED
  BY <1>2, <1>3, <1>4

(***************************************************************************)
(* The loop.                                                               *)
(***************************************************************************)
\* A vault is in a strategy that was deployed for it.
OwnStrategy ==
  \A v \in Vaults : activeStrategy[v] # NoStrategy => VaultOf[activeStrategy[v]] = v

BooksKept == books \in [Strategies -> Books] /\ \A s \in Strategies : WellFormed(books[s])

VaultInv ==
  /\ outside \in [Vaults -> Nat] /\ idle \in [Vaults -> Nat] /\ supply \in [Vaults -> Nat]
  /\ BooksKept
  /\ venue \in [Strategies -> [rate : Rates, up : BOOLEAN]]
  /\ rewarded \subseteq Strategies
  /\ activeStrategy \in [Vaults -> Strategies \cup {NoStrategy}]
  /\ rebalanceNonce \in [Vaults -> Nat]
  /\ OwnStrategy /\ LeftStrategiesEmpty

Jobs ==
  [caller : {"node", "browser", "anyone"},
   op : {"CALCULATE_OPTIMAL", "GET_APYS", "STATE"}, request : Requests, sealed : BOOLEAN]

\* The handler works on the first of the queue, and rates strategies of its
\* request.
HandlerKept ==
  /\ pc \in {"idle", "decrypt", "decode", "apys", "nonce", "report"}
  /\ pc # "idle" => queue # <<>>
  /\ pc \in {"decrypt", "decode", "apys"} => Job.op # "STATE"
  /\ pc = "nonce" => Job.op = "CALCULATE_OPTIMAL" /\ apys \subseteq Job.request.strategies

SignedKept ==
  \A p \in signed :
    p.newStrategy \in Strategies /\ p.nonce \in Nat /\ p.minAmountOut \in Nat

RelayInv ==
  /\ extensionId \in BOOLEAN
  /\ instructions \subseteq Requests
  /\ SignedKept
  /\ queue \in Seq(Jobs)
  /\ HandlerKept
  /\ browser \in {"idle", "waiting", "failed", "undecodable"}

LoopInv == VaultInv /\ RelayInv

(***************************************************************************)
(* Values of a vault.                                                      *)
(***************************************************************************)
LEMMA VenueType ==
  ASSUME VaultInv, NEW s \in Strategies
  PROVE  venue[s] \in Venues
BY LoopAssumption DEF VaultInv, Venues

LEMMA TotalNat ==
  ASSUME VaultInv, NEW v \in Vaults
  PROVE  totalAssets(v) \in Nat
<1>1. idle[v] \in Nat
  BY DEF VaultInv
<1>2. CASE Active(v) = NoStrategy
  BY <1>1, <1>2 DEF totalAssets
<1>3. CASE Active(v) # NoStrategy
  <2>1. Active(v) \in Strategies
    BY <1>3 DEF VaultInv, Active
  <2>2. totalValue(books[Active(v)], venue[Active(v)]) \in Nat
    BY <2>1, ValueNat, VenueType DEF VaultInv, BooksKept
  <2>3. QED
    BY <1>1, <1>3, <2>2 DEF totalAssets
<1>4. QED
  BY <1>2, <1>3

LEMMA RedeemNat ==
  ASSUME VaultInv, NEW v \in Vaults, NEW shares \in Nat
  PROVE  previewRedeem(v, shares) \in Nat
<1>1. totalAssets(v) \in Nat /\ supply[v] \in Nat
  BY TotalNat DEF VaultInv
<1>2. shares * (totalAssets(v) + 1) \in Nat /\ supply[v] + 1 \in Nat \ {0}
  BY <1>1
<1>3. QED
  BY <1>2, QuotientNat DEF previewRedeem

LEMMA DeployableNat ==
  ASSUME NEW assets \in Nat, NEW bufferBps \in 0 .. MaxBps
  PROVE  Deployable(assets, bufferBps) \in Nat /\ Deployable(assets, bufferBps) <= assets
<1>1. MaxBps - bufferBps \in Nat /\ MaxBps - bufferBps <= MaxBps /\ MaxBps \in Nat \ {0}
  BY TeeAssumption
<1>2. QED
  BY <1>1, PartOfNat DEF Deployable

\* One book of a vault changes: the others keep what is said of them.
LEMMA OneBook ==
  ASSUME VaultInv, NEW s \in Strategies, NEW e, WellFormed(e), e.kind = books[s].kind
  PROVE  [books EXCEPT ![s] = e] \in [Strategies -> Books]
         /\ \A r \in Strategies : WellFormed([books EXCEPT ![s] = e][r])
BY DEF VaultInv, BooksKept, WellFormed

(***************************************************************************)
(* The steps of the vaults and their strategies.                           *)
(***************************************************************************)
LEMMA DepositStep ==
  ASSUME VaultInv, NEW v \in Vaults, NEW assets \in Nat, deposit(v, assets)
  PROVE  VaultInv'
<1>1. totalAssets(v) \in Nat /\ supply[v] \in Nat /\ outside[v] \in Nat /\ idle[v] \in Nat
  BY TotalNat DEF VaultInv
<1>2. assets * (supply[v] + 1) \in Nat /\ totalAssets(v) + 1 \in Nat \ {0}
  BY <1>1
<1>3. (assets * (supply[v] + 1)) \div (totalAssets(v) + 1) \in Nat
  BY <1>2, QuotientNat
<1> DEFINE minted == (assets * (supply[v] + 1)) \div (totalAssets(v) + 1)
<1>4. /\ assets <= outside[v]
      /\ outside' = [outside EXCEPT ![v] = @ - assets]
      /\ idle' = [idle EXCEPT ![v] = @ + assets]
      /\ supply' = [supply EXCEPT ![v] = @ + minted]
      /\ UNCHANGED <<books, venue, rewarded, activeStrategy, rebalanceNonce>>
  BY DEF deposit, strategyVars, rebalanceVars
<1> HIDE DEF minted
<1>5. outside[v] - assets \in Nat /\ idle[v] + assets \in Nat /\ supply[v] + minted \in Nat
  BY <1>1, <1>3, <1>4 DEF minted
<1>6. outside' \in [Vaults -> Nat] /\ idle' \in [Vaults -> Nat] /\ supply' \in [Vaults -> Nat]
  BY <1>4, <1>5 DEF VaultInv
<1>7. QED
  BY <1>4, <1>6 DEF VaultInv, BooksKept, OwnStrategy, LeftStrategiesEmpty

\* A redemption never overdraws: what the strategy pays covers the shortfall.
LEMMA RedeemStep ==
  ASSUME VaultInv, NEW v \in Vaults, NEW shares \in Nat, NEW exit, exit.out \in Int,
         redeem(v, shares, exit)
  PROVE  VaultInv'
<1> DEFINE assets == previewRedeem(v, shares)
           shortfall == assets - idle[v]
           s == Active(v)
<1>1. assets \in Nat /\ idle[v] \in Nat /\ supply[v] \in Nat /\ outside[v] \in Nat
  BY RedeemNat DEF VaultInv
<1>2. /\ shares <= supply[v]
      /\ \/ shortfall <= 0 /\ exit.out = 0 /\ books' = books
         \/ /\ shortfall > 0 /\ s # NoStrategy
            /\ exit \in Withdrawals(books[s], shortfall, shortfall, venue[s])
            /\ books' = [books EXCEPT ![s] = exit.book]
      /\ idle' = [idle EXCEPT ![v] = @ + exit.out - assets]
      /\ outside' = [outside EXCEPT ![v] = @ + assets]
      /\ supply' = [supply EXCEPT ![v] = @ - shares]
      /\ UNCHANGED <<venue, rewarded, activeStrategy, rebalanceNonce>>
  BY DEF redeem, rebalanceVars
<1> HIDE DEF assets
<1>3. s # NoStrategy => s \in Strategies /\ VaultOf[s] = v
  BY DEF VaultInv, OwnStrategy, Active
<1>4. /\ exit.out >= shortfall
      /\ BooksKept' /\ LeftStrategiesEmpty'
  <2>1. CASE shortfall <= 0 /\ exit.out = 0 /\ books' = books
    BY <1>1, <1>2, <2>1 DEF VaultInv, BooksKept, LeftStrategiesEmpty
  <2>2. CASE /\ shortfall > 0 /\ s # NoStrategy
             /\ exit \in Withdrawals(books[s], shortfall, shortfall, venue[s])
             /\ books' = [books EXCEPT ![s] = exit.book]
    <3>1. shortfall \in Nat /\ WellFormed(books[s]) /\ venue[s] \in Venues
      BY <1>1, <1>3, <2>2, VenueType DEF VaultInv, BooksKept
    <3>2. Fine(books[s], exit) /\ exit.out >= shortfall
      BY <2>2, <3>1, WithdrawKeeps
    <3>3. BooksKept'
      BY <1>3, <2>2, <3>2, OneBook DEF Fine, BooksKept
    <3>4. \A r \in Strategies : r # s => books'[r] = books[r]
      BY <2>2 DEF VaultInv, BooksKept
    <3>5. activeStrategy[VaultOf[s]] = s
      BY <1>3, <2>2 DEF Active
    <3>6. LeftStrategiesEmpty'
      BY <1>2, <3>4, <3>5 DEF VaultInv, LeftStrategiesEmpty
    <3>7. QED
      BY <3>2, <3>3, <3>6
  <2>3. QED
    BY <1>2, <2>1, <2>2
<1>5. /\ idle[v] + exit.out - assets \in Nat /\ outside[v] + assets \in Nat
      /\ supply[v] - shares \in Nat
  BY <1>1, <1>2, <1>4
<1>6. outside' \in [Vaults -> Nat] /\ idle' \in [Vaults -> Nat] /\ supply' \in [Vaults -> Nat]
  BY <1>2, <1>5 DEF VaultInv
<1>7. QED
  BY <1>2, <1>4, <1>6 DEF VaultInv, OwnStrategy

\* What a vault gets out of the strategy it leaves, and what remains there.
LEMMA LeavingEmpties ==
  ASSUME VaultInv, NEW v \in Vaults, NEW minAmountOut \in Nat,
         NEW exit \in Leaving(v, minAmountOut)
  PROVE  /\ exit.out \in Nat
         /\ Active(v) # NoStrategy =>
              /\ Active(v) \in Strategies /\ VaultOf[Active(v)] = v
              /\ Fine(books[Active(v)], exit) /\ Emptied(exit.book)
              /\ ~HoldsNothing(books[Active(v)])
<1>1. CASE Active(v) = NoStrategy
  <2>1. exit = Exit(EmptyBook("enosys"), 0)
    BY <1>1 DEF Leaving, Nothing
  <2>2. QED
    BY <1>1, <2>1 DEF Exit
<1>2. CASE Active(v) # NoStrategy
  <2>1. Active(v) \in Strategies /\ VaultOf[Active(v)] = v
    BY <1>2 DEF VaultInv, OwnStrategy, Active
  <2>2. WellFormed(books[Active(v)]) /\ venue[Active(v)] \in Venues
    BY <2>1, VenueType DEF VaultInv, BooksKept
  <2>3. exit \in WithdrawalsOfAll(books[Active(v)], minAmountOut, venue[Active(v)])
    BY <1>2 DEF Leaving
  <2>4. Fine(books[Active(v)], exit) /\ Emptied(exit.book)
    BY <2>2, <2>3, WithdrawAllEmpties
  <2>5. ~HoldsNothing(books[Active(v)])
    BY <2>2, <2>3, NothingToWithdraw
  <2>6. QED
    BY <2>1, <2>4, <2>5 DEF Fine
<1>3. QED
  BY <1>1, <1>2

LEMMA FallbackStep ==
  ASSUME VaultInv, NEW v \in Vaults, NEW minAmountOut \in Nat,
         NEW exit \in Leaving(v, minAmountOut), forceWithdrawAll(v, exit)
  PROVE  VaultInv'
<1> DEFINE s == Active(v)
<1>1. /\ s # NoStrategy
      /\ books' = [books EXCEPT ![s] = exit.book]
      /\ idle' = [idle EXCEPT ![v] = @ + exit.out]
      /\ activeStrategy' = [activeStrategy EXCEPT ![v] = NoStrategy]
      /\ UNCHANGED <<outside, supply, venue, rewarded, rebalanceNonce>>
  BY DEF forceWithdrawAll
<1>2. /\ exit.out \in Nat /\ s \in Strategies /\ VaultOf[s] = v
      /\ Fine(books[s], exit) /\ Emptied(exit.book)
  BY <1>1, LeavingEmpties
<1>3. BooksKept'
  BY <1>1, <1>2, OneBook DEF Fine, BooksKept
<1>4. \A r \in Strategies \ {s} : books'[r] = books[r]
  BY <1>1 DEF VaultInv, BooksKept
<1>5. books'[s] = exit.book
  BY <1>1, <1>2 DEF VaultInv, BooksKept
<1>6. \A r \in Strategies \ {s} :
        activeStrategy'[VaultOf[r]] # r => activeStrategy[VaultOf[r]] # r
  BY <1>1, <1>2, LoopAssumption DEF VaultInv, Active
<1>7. LeftStrategiesEmpty'
  <2> SUFFICES ASSUME NEW r \in Strategies, activeStrategy'[VaultOf[r]] # r
               PROVE  /\ books'[r].lp = 0
                      /\ books'[r].kind # "sparkdex" =>
                           books'[r].held = 0 /\ (books'[r].paired = 0 \/ r \in rewarded')
    BY DEF LeftStrategiesEmpty
  <2>1. CASE r = s
    BY <1>2, <1>5, <2>1 DEF Emptied
  <2>2. CASE r # s
    BY <1>1, <1>4, <1>6, <2>2 DEF VaultInv, LeftStrategiesEmpty
  <2>3. QED
    BY <2>1, <2>2
<1>8. idle' \in [Vaults -> Nat]
  <2>1. idle[v] + exit.out \in Nat
    BY <1>2 DEF VaultInv
  <2>2. QED
    BY <1>1, <2>1 DEF VaultInv
<1>9. activeStrategy' \in [Vaults -> Strategies \cup {NoStrategy}] /\ OwnStrategy'
  BY <1>1 DEF VaultInv, OwnStrategy
<1>10. QED
  BY <1>1, <1>3, <1>7, <1>8, <1>9 DEF VaultInv

\* A rebalance empties the strategy it leaves and enters one of the vault.
LEMMA RebalanceStep ==
  ASSUME VaultInv, NEW v \in Vaults, NEW p, p.minAmountOut \in Nat,
         NEW exit \in Leaving(v, p.minAmountOut), NEW entered,
         executeRebalance(v, p, exit, entered)
  PROVE  VaultInv'
<1> DEFINE s == p.newStrategy
           old == Active(v)
           deployed == Deployable(idle[v] + exit.out, BufferBps)
           left == IF old = NoStrategy THEN books ELSE [books EXCEPT ![old] = exit.book]
<1>1. /\ s # old /\ s \in Approved(v)
      /\ entered \in IF deployed = 0 THEN {books[s]} ELSE Deposits(books[s], deployed, venue[s])
      /\ books' = [left EXCEPT ![s] = entered]
      /\ idle' = [idle EXCEPT ![v] = @ + exit.out - deployed]
      /\ activeStrategy' = [activeStrategy EXCEPT ![v] = s]
      /\ rebalanceNonce' = [rebalanceNonce EXCEPT ![v] = @ + 1]
      /\ rewarded' = rewarded \ {s}
      /\ UNCHANGED <<outside, supply, venue>>
  BY DEF executeRebalance
<1>2. /\ exit.out \in Nat
      /\ old # NoStrategy =>
           old \in Strategies /\ VaultOf[old] = v /\ Fine(books[old], exit) /\ Emptied(exit.book)
  BY LeavingEmpties
<1>3. s \in Strategies /\ VaultOf[s] = v
  BY <1>1 DEF Approved
<1>4. idle[v] + exit.out \in Nat /\ deployed \in Nat /\ deployed <= idle[v] + exit.out
  <2>1. idle[v] + exit.out \in Nat
    BY <1>2 DEF VaultInv
  <2>2. QED
    BY <2>1, DeployableNat, LoopAssumption
<1> HIDE DEF s, old, deployed
<1>5. /\ left \in [Strategies -> Books]
      /\ \A r \in Strategies : WellFormed(left[r]) /\ (r # old => left[r] = books[r])
      /\ old # NoStrategy => left[old] = exit.book
  <2>1. CASE old = NoStrategy
    BY <2>1 DEF VaultInv, BooksKept
  <2>2. CASE old # NoStrategy
    <3>1. left = [books EXCEPT ![old] = exit.book]
      BY <2>2
    <3>2. left \in [Strategies -> Books] /\ \A r \in Strategies : WellFormed(left[r])
      BY <1>2, <2>2, <3>1, OneBook DEF Fine
    <3>3. QED
      BY <1>2, <2>2, <3>1, <3>2 DEF VaultInv, BooksKept
  <2>3. QED
    BY <2>1, <2>2
<1> HIDE DEF left
<1>6. WellFormed(entered)
  <2>1. WellFormed(books[s]) /\ venue[s] \in Venues
    BY <1>3, VenueType DEF VaultInv, BooksKept
  <2>2. QED
    BY <1>1, <1>4, <2>1, DepositKeeps
<1>7. BooksKept'
  BY <1>1, <1>5, <1>6 DEF BooksKept, WellFormed
<1>8. \A r \in Strategies \ {s} : books'[r] = left[r]
  BY <1>1, <1>5
<1>9. \A r \in Strategies \ {s, old} :
        activeStrategy'[VaultOf[r]] # r => activeStrategy[VaultOf[r]] # r
  BY <1>1, LoopAssumption DEF VaultInv, Active, old
<1>10. activeStrategy'[VaultOf[s]] = s
  BY <1>1, <1>3 DEF VaultInv
<1>11. LeftStrategiesEmpty'
  <2> SUFFICES ASSUME NEW r \in Strategies, activeStrategy'[VaultOf[r]] # r
               PROVE  /\ books'[r].lp = 0
                      /\ books'[r].kind # "sparkdex" =>
                           books'[r].held = 0 /\ (books'[r].paired = 0 \/ r \in rewarded')
    BY DEF LeftStrategiesEmpty
  <2>1. r # s
    BY <1>10
  <2>2. CASE r = old
    <3>1. r # NoStrategy
      BY TeeAssumption
    <3>2. books'[r] = exit.book
      BY <1>5, <1>8, <2>1, <2>2, <3>1
    <3>3. QED
      BY <1>2, <2>2, <3>1, <3>2 DEF Emptied
  <2>3. CASE r # old
    <3>1. books'[r] = books[r] /\ activeStrategy[VaultOf[r]] # r
      BY <1>5, <1>8, <1>9, <2>1, <2>3
    <3>2. QED
      BY <1>1, <2>1, <3>1 DEF VaultInv, LeftStrategiesEmpty
  <2>4. QED
    BY <2>2, <2>3
<1>12. idle' \in [Vaults -> Nat]
  <2>1. idle[v] + exit.out - deployed \in Nat
    BY <1>2, <1>4 DEF VaultInv
  <2>2. QED
    BY <1>1, <2>1 DEF VaultInv
<1>13. /\ activeStrategy' \in [Vaults -> Strategies \cup {NoStrategy}] /\ OwnStrategy'
       /\ rebalanceNonce' \in [Vaults -> Nat] /\ rewarded' \subseteq Strategies
  BY <1>1, <1>3 DEF VaultInv, OwnStrategy
<1>14. QED
  BY <1>1, <1>7, <1>11, <1>12, <1>13 DEF VaultInv

\* Venues and the owners of the adapters.
LEMMA VenueStep ==
  ASSUME VaultInv, NEW s \in Strategies, VenueMoves(s)
  PROVE  VaultInv'
<1>1. PICK rate \in Rates, up \in BOOLEAN :
        venue' = [venue EXCEPT ![s] = [rate |-> rate, up |-> up]]
  BY DEF VenueMoves
<1>2. venue' \in [Strategies -> [rate : Rates, up : BOOLEAN]]
  BY <1>1 DEF VaultInv
<1>3. UNCHANGED <<outside, idle, supply, books, rewarded, activeStrategy, rebalanceNonce>>
  BY DEF VenueMoves, assetVars, rebalanceVars
<1>4. QED
  BY <1>2, <1>3 DEF VaultInv, BooksKept, OwnStrategy, LeftStrategiesEmpty

LEMMA OwnerStep ==
  ASSUME VaultInv, NEW s \in Strategies, AdministerAdapter(s)
  PROVE  VaultInv'
<1>1. PICK e \in PauseOrUnpause(books[s]) \cup claimRewards(books[s])
                   \cup rescueToken(books[s]) :
        books' = [books EXCEPT ![s] = e]
  BY DEF AdministerAdapter
<1>2. /\ rewarded' = IF activeStrategy[VaultOf[s]] # s /\ books'[s].paired > books[s].paired
                     THEN rewarded \cup {s} ELSE rewarded
      /\ UNCHANGED <<outside, idle, supply, venue, activeStrategy, rebalanceNonce>>
  BY DEF AdministerAdapter, assetVars, rebalanceVars
<1>3. WellFormed(books[s])
  BY DEF VaultInv, BooksKept
<1>4. /\ WellFormed(e) /\ e.kind = books[s].kind /\ e.held = books[s].held
      /\ e.lp = books[s].lp /\ (e.kind # "sparkdex" => e.paired >= books[s].paired)
  BY <1>3, OwnerKeeps
<1>5. BooksKept'
  BY <1>1, <1>4, OneBook DEF BooksKept
<1>6. /\ books'[s] = e /\ \A r \in Strategies \ {s} : books'[r] = books[r]
  BY <1>1 DEF VaultInv, BooksKept
<1>7. rewarded' \subseteq Strategies /\ rewarded \subseteq rewarded'
  BY <1>2 DEF VaultInv
<1>8. LeftStrategiesEmpty'
  <2> SUFFICES ASSUME NEW r \in Strategies, activeStrategy[VaultOf[r]] # r
               PROVE  /\ books'[r].lp = 0
                      /\ books'[r].kind # "sparkdex" =>
                           books'[r].held = 0 /\ (books'[r].paired = 0 \/ r \in rewarded')
    BY <1>2 DEF LeftStrategiesEmpty
  <2>1. /\ books[r].lp = 0
        /\ books[r].kind # "sparkdex" =>
             books[r].held = 0 /\ (books[r].paired = 0 \/ r \in rewarded)
    BY DEF VaultInv, LeftStrategiesEmpty
  <2>2. CASE r # s
    BY <1>6, <1>7, <2>1, <2>2
  <2>3. CASE r = s
    <3>1. books[s].paired \in Nat /\ e.paired \in Nat
      BY <1>3, <1>4 DEF WellFormed, Books
    <3>2. e.kind # "sparkdex" /\ e.paired # 0 => s \in rewarded'
      BY <1>2, <1>4, <1>6, <1>7, <2>1, <2>3, <3>1
    <3>3. QED
      BY <1>4, <1>6, <2>1, <2>3, <3>2
  <2>4. QED
    BY <2>2, <2>3
<1>9. QED
  BY <1>2, <1>5, <1>7, <1>8 DEF VaultInv, OwnStrategy

(***************************************************************************)
(* The steps between a request and a signed result.                        *)
(***************************************************************************)
TeeInv ==
  /\ queue \in Seq(Jobs)
  /\ HandlerKept
  /\ browser \in {"idle", "waiting", "failed", "undecodable"}

LEMMA HeadIsJob ==
  ASSUME TeeInv, pc # "idle"
  PROVE  Job \in Jobs /\ Tail(queue) \in Seq(Jobs)
BY DEF TeeInv, HandlerKept, Job

\* A request that joins the queue does not disturb the handler at its head.
LEMMA PostStep ==
  ASSUME TeeInv, NEW caller \in {"node", "browser", "anyone"},
         NEW op \in {"CALCULATE_OPTIMAL", "GET_APYS", "STATE"}, NEW request \in Requests,
         NEW sealed \in BOOLEAN,
         Post(caller, op, request, sealed), UNCHANGED <<pc, apys>>
  PROVE  queue' \in Seq(Jobs) /\ HandlerKept'
<1> DEFINE job == [caller |-> caller, op |-> op, request |-> request, sealed |-> sealed]
<1>1. queue' = Append(queue, job)
  BY DEF Post
<1>2. job \in Jobs
  BY DEF Jobs
<1> HIDE DEF job
<1>3. queue' \in Seq(Jobs) /\ queue' # <<>> /\ (queue # <<>> => Head(queue') = Head(queue))
  BY <1>1, <1>2 DEF TeeInv
<1>4. QED
  BY <1>3 DEF TeeInv, HandlerKept, Job

LEMMA PostsStep ==
  ASSUME VaultInv, RelayInv, Posts
  PROVE  RelayInv'
<1>1. TeeInv
  BY DEF RelayInv, TeeInv
<1>2. UNCHANGED <<extensionId, instructions, signed, activeStrategy>>
  BY DEF Posts, relayVars, rebalanceVars
<1>3. queue' \in Seq(Jobs) /\ HandlerKept' /\ browser' \in {"idle", "waiting", "failed", "undecodable"}
  <2>1. ASSUME NEW request \in instructions \cup StrangersRequests, NodePosts(request)
        PROVE  queue' \in Seq(Jobs) /\ HandlerKept' /\ browser' = browser
    <3>1. request \in Requests
      BY LoopAssumption DEF RelayInv
    <3>2. PICK sealed \in BOOLEAN : Post("node", "CALCULATE_OPTIMAL", request, sealed)
      BY <2>1 DEF NodePosts
    <3>3. UNCHANGED <<pc, apys, browser>>
      BY <2>1 DEF NodePosts
    <3>4. QED
      BY <1>1, <3>1, <3>2, <3>3, PostStep
  <2>2. ASSUME NEW v \in Vaults, BrowserPosts(v)
        PROVE  queue' \in Seq(Jobs) /\ HandlerKept' /\ browser' = "waiting"
    <3>1. PICK amount \in {0, Funds[v]}, s \in Approved(v) :
            Post("browser", "CALCULATE_OPTIMAL",
                 [vault |-> v, idleAssets |-> amount, strategies |-> {s},
                  liquidityBufferBps |-> BufferBps], FALSE)
      BY <2>2 DEF BrowserPosts
    <3> DEFINE request == [vault |-> v, idleAssets |-> amount, strategies |-> {s},
                           liquidityBufferBps |-> BufferBps]
    <3>2. request \in Requests
      BY LoopAssumption DEF Requests, Approved
    <3>3. UNCHANGED <<pc, apys>> /\ browser' = "waiting"
      BY <2>2 DEF BrowserPosts
    <3> HIDE DEF request
    <3>4. QED
      BY <1>1, <3>1, <3>2, <3>3, PostStep DEF request
  <2>3. ASSUME AnyonePosts
        PROVE  queue' \in Seq(Jobs) /\ HandlerKept' /\ browser' = browser
    <3>1. PICK op \in {"GET_APYS", "STATE"}, strategies \in {Approved(v) : v \in Vaults} :
            Post("anyone", op, [NoRequest EXCEPT !.strategies = strategies], FALSE)
      BY <2>3 DEF AnyonePosts
    <3> DEFINE request == [NoRequest EXCEPT !.strategies = strategies]
    <3>2. strategies \in SUBSET Strategies
      BY <3>1 DEF Approved
    <3>3. 0 \in 0 .. MaxBps
      BY TeeAssumption
    <3>4. request \in Requests
      BY <3>2, <3>3 DEF Requests, NoRequest
    <3>5. UNCHANGED <<pc, apys, browser>>
      BY <2>3 DEF AnyonePosts
    <3> HIDE DEF request
    <3>6. QED
      BY <1>1, <3>1, <3>4, <3>5, PostStep DEF request
  <2>4. QED
    BY <1>1, <2>1, <2>2, <2>3 DEF Posts, TeeInv
<1>4. QED
  BY <1>2, <1>3 DEF RelayInv, SignedKept

\* An answer ends the job; without the signature the page cannot decode it.
LEMMA AnswerStep ==
  ASSUME TeeInv, pc # "idle", NEW status, NEW fields, "signature" \notin fields,
         Answer(status, fields)
  PROVE  TeeInv'
<1>1. queue' = Tail(queue) /\ pc' = "idle" /\ apys' = {}
      /\ browser' = IF Head(queue).caller = "browser" THEN Received(status, fields) ELSE browser
  BY DEF Answer
<1>2. queue' \in Seq(Jobs)
  BY <1>1, HeadIsJob
<1>3. Received(status, fields) \in {"failed", "undecodable"}
  BY DEF Received, ClientFields
<1>4. QED
  BY <1>1, <1>2, <1>3 DEF TeeInv, HandlerKept, Job

LEMMA HandlerStep ==
  ASSUME TeeInv, Start \/ Decrypt \/ Validate \/ ReadApys(Reverting) \/ Report
  PROVE  TeeInv'
<1>1. CASE Start
  <2>1. queue # <<>> /\ queue' = queue /\ browser' = browser
    BY <1>1 DEF Start
  <2>2. Job' = Job
    BY <2>1 DEF Job
  <2>3. pc' \in {"report", "decrypt", "decode"} /\ (pc' # "report" => Job.op # "STATE")
    BY <1>1 DEF Start, Job
  <2>4. QED
    BY <2>1, <2>2, <2>3 DEF TeeInv, HandlerKept
<1>2. CASE Decrypt
  <2>1. pc = "decrypt"
    BY <1>2 DEF Decrypt
  <2>2. CASE pc' = "decode" /\ UNCHANGED <<queue, apys, browser>>
    BY <2>1, <2>2 DEF TeeInv, HandlerKept, Job
  <2>3. CASE Fail
    BY <2>1, <2>3, AnswerStep DEF Fail
  <2>4. QED
    BY <1>2, <2>2, <2>3 DEF Decrypt
<1>3. CASE Validate
  <2>1. pc = "decode"
    BY <1>3 DEF Validate
  <2>2. CASE pc' = "apys" /\ UNCHANGED <<queue, apys, browser>>
    BY <2>1, <2>2 DEF TeeInv, HandlerKept, Job
  <2>3. CASE Fail
    BY <2>1, <2>3, AnswerStep DEF Fail
  <2>4. QED
    BY <1>3, <2>2, <2>3 DEF Validate
<1>4. CASE ReadApys(Reverting)
  <2>1. pc = "apys"
    BY <1>4 DEF ReadApys
  <2>2. PICK readable \in SUBSET (Job.request.strategies \ Reverting) :
          IF readable = {} THEN Fail
          ELSE IF Job.op = "GET_APYS" THEN Answer(1, {"apys"})
          ELSE pc' = "nonce" /\ apys' = readable /\ UNCHANGED <<queue, browser>>
    BY <1>4 DEF ReadApys
  <2>3. CASE Fail
    BY <2>1, <2>3, AnswerStep DEF Fail
  <2>4. CASE Answer(1, {"apys"})
    BY <2>1, <2>4, AnswerStep
  <2>5. CASE /\ Job.op # "GET_APYS"
             /\ pc' = "nonce" /\ apys' = readable /\ UNCHANGED <<queue, browser>>
    <3>1. Job \in Jobs /\ Job.op # "STATE"
      BY <2>1, HeadIsJob DEF TeeInv, HandlerKept
    <3>2. Job.op = "CALCULATE_OPTIMAL"
      BY <2>5, <3>1 DEF Jobs
    <3>3. Job' = Job
      BY <2>5 DEF Job
    <3>4. QED
      BY <2>1, <2>2, <2>5, <3>2, <3>3 DEF TeeInv, HandlerKept
  <2>6. QED
    BY <2>2, <2>3, <2>4, <2>5
<1>5. CASE Report
  <2>1. pc = "report" /\ Answer(1, {"state"})
    BY <1>5 DEF Report
  <2>2. QED
    BY <2>1, AnswerStep
<1>6. QED
  BY <1>1, <1>2, <1>3, <1>4, <1>5

\* The nonce of a result is a number, whatever address it was read from.
LEMMA FinishesStep ==
  ASSUME VaultInv, RelayInv, pc = "nonce", NEW s \in apys,
         NEW nonce \in getCurrentNonce(Job.request.vault), Finishes(s, nonce)
  PROVE  RelayInv'
<1> DEFINE result == PayloadOf(Job.request, s, nonce)
<1>1. TeeInv
  BY DEF RelayInv, TeeInv
<1>2. Job \in Jobs /\ apys \subseteq Job.request.strategies
  BY <1>1, HeadIsJob DEF RelayInv, HandlerKept
<1>3. Job.request \in Requests
  BY <1>2 DEF Jobs
<1>4. result.newStrategy \in Strategies
  BY <1>2, <1>3 DEF PayloadOf, Requests
<1>5. result.nonce \in Nat
  <2>1. nonce \in Nat
    BY LoopAssumption DEF getCurrentNonce, VaultInv
  <2>2. QED
    BY <2>1 DEF PayloadOf
<1>6. result.minAmountOut \in Nat
  <2>1. Job.request.idleAssets \in Nat /\ Job.request.liquidityBufferBps \in 0 .. MaxBps
    BY <1>3 DEF Requests
  <2>2. Deployable(Job.request.idleAssets, Job.request.liquidityBufferBps) \in Nat
    BY <2>1, DeployableNat
  <2>3. QED
    BY <2>2, DeployableNat, TeeAssumption DEF PayloadOf
<1>7. /\ signed' \in {signed, signed \cup {result}}
      /\ UNCHANGED <<extensionId, instructions, activeStrategy>>
  BY DEF Finishes, rebalanceVars
<1> HIDE DEF result
<1>8. SignedKept'
  BY <1>4, <1>5, <1>6, <1>7 DEF RelayInv, SignedKept
<1>9. TeeInv'
  <2>1. Answer(1, PayloadFields)
    BY DEF Finishes, Finish
  <2>2. "signature" \notin PayloadFields
    BY DEF PayloadFields
  <2>3. QED
    BY <1>1, <2>1, <2>2, AnswerStep
<1>10. QED
  BY <1>7, <1>8, <1>9 DEF RelayInv, SignedKept, TeeInv

LEMMA RequestStep ==
  ASSUME VaultInv, RelayInv, NEW v \in Vaults, requestRebalance(v)
  PROVE  RelayInv'
<1>1. RequestOf(v) \in Requests
  BY LoopAssumption DEF RequestOf, Requests, Approved, VaultInv
<1>2. /\ instructions' = instructions \cup {RequestOf(v)}
      /\ UNCHANGED <<extensionId, signed, queue, pc, apys, browser>>
  BY DEF requestRebalance, teeVars
<1>3. QED
  BY <1>1, <1>2 DEF RelayInv, SignedKept, HandlerKept, Job

(***************************************************************************)
(* The invariant.                                                          *)
(***************************************************************************)
LEMMA RelayUntouched ==
  ASSUME RelayInv, UNCHANGED <<relayVars, teeVars>>
  PROVE  RelayInv'
BY DEF RelayInv, SignedKept, relayVars, teeVars, HandlerKept, Job

LEMMA VaultsUntouched ==
  ASSUME VaultInv, UNCHANGED <<assetVars, strategyVars, rebalanceVars>>
  PROVE  VaultInv'
BY DEF VaultInv, BooksKept, OwnStrategy, LeftStrategiesEmpty, assetVars, strategyVars,
   rebalanceVars

LEMMA InitLoopInv == Init => LoopInv
<1> SUFFICES ASSUME Init PROVE LoopInv
  OBVIOUS
<1>1. PICK kinds \in KindChoices : books = [s \in Strategies |-> EmptyBook(kinds[s])]
  BY DEF Init
<1>2. \A s \in Strategies : WellFormed(books[s]) /\ HoldsNothing(books[s])
  <2> TAKE s \in Strategies
  <2>1. kinds[s] \in Kinds
    BY LoopAssumption
  <2>2. books[s] = EmptyBook(kinds[s])
    BY <1>1
  <2>3. QED
    BY <2>1, <2>2 DEF EmptyBook, WellFormed, Books, HoldsNothing
<1>3. BooksKept /\ LeftStrategiesEmpty
  BY <1>1, <1>2 DEF BooksKept, WellFormed, LeftStrategiesEmpty, HoldsNothing
<1>4. /\ outside \in [Vaults -> Nat] /\ idle \in [Vaults -> Nat] /\ supply \in [Vaults -> Nat]
      /\ venue \in [Strategies -> [rate : Rates, up : BOOLEAN]]
      /\ rewarded \subseteq Strategies
      /\ activeStrategy \in [Vaults -> Strategies \cup {NoStrategy}]
      /\ rebalanceNonce \in [Vaults -> Nat]
  BY LoopAssumption DEF Init
<1>5. OwnStrategy
  BY DEF Init, OwnStrategy
<1>6. RelayInv
  <2>1. /\ extensionId = FALSE /\ instructions = {} /\ signed = {}
        /\ queue = <<>> /\ pc = "idle" /\ browser = "idle"
    BY DEF Init, TeeInit
  <2>2. queue \in Seq(Jobs)
    BY <2>1
  <2>3. HandlerKept
    BY <2>1 DEF HandlerKept
  <2>4. QED
    BY <2>1, <2>2, <2>3 DEF RelayInv, SignedKept
<1>7. QED
  BY <1>3, <1>4, <1>5, <1>6 DEF LoopInv, VaultInv

LEMMA NextLoopInv == LoopInv /\ [Next]_vars => LoopInv'
<1> SUFFICES ASSUME VaultInv, RelayInv, [Next]_vars PROVE VaultInv' /\ RelayInv'
  BY DEF LoopInv
<1>1. CASE Holders
  <2>1. PICK v \in Vaults :
          \E x \in 1 .. Funds[v] :
            deposit(v, x) \/ \E exit \in ExitsFor(v, x) : redeem(v, x, exit)
    BY <1>1 DEF Holders
  <2>2. PICK x \in Nat :
          deposit(v, x) \/ \E exit \in ExitsFor(v, x) : redeem(v, x, exit)
    BY <2>1, LoopAssumption
  <2>3. CASE deposit(v, x)
    <3>1. UNCHANGED <<relayVars, teeVars>>
      BY <2>3 DEF deposit
    <3>2. QED
      BY <2>3, <3>1, DepositStep, RelayUntouched
  <2>4. ASSUME NEW exit \in ExitsFor(v, x), redeem(v, x, exit)
        PROVE  VaultInv' /\ RelayInv'
    <3>1. UNCHANGED <<relayVars, teeVars>>
      BY <2>4 DEF redeem
    <3>2. exit.out \in Int
      <4> DEFINE shortfall == previewRedeem(v, x) - idle[v]
      <4>1. previewRedeem(v, x) \in Nat /\ idle[v] \in Nat
        BY RedeemNat DEF VaultInv
      <4>2. CASE exit = Nothing(v)
        BY <4>2 DEF Nothing, Exit
      <4>3. CASE /\ shortfall > 0 /\ Active(v) # NoStrategy
                 /\ exit \in Withdrawals(books[Active(v)], shortfall, shortfall,
                                         venue[Active(v)])
        <5>1. Active(v) \in Strategies
          BY <4>3 DEF VaultInv, Active
        <5>2. shortfall \in Nat /\ WellFormed(books[Active(v)]) /\ venue[Active(v)] \in Venues
          BY <4>1, <4>3, <5>1, VenueType DEF VaultInv, BooksKept
        <5>3. Fine(books[Active(v)], exit)
          BY <4>3, <5>2, WithdrawKeeps
        <5>4. QED
          BY <5>3 DEF Fine
      <4>4. QED
        BY <2>4, <4>1, <4>2, <4>3 DEF ExitsFor
    <3>3. QED
      BY <2>4, <3>1, <3>2, RedeemStep, RelayUntouched
  <2>5. QED
    BY <2>2, <2>3, <2>4
<1>2. CASE Rebalances
  <2>1. PICK v \in Vaults, p \in signed :
          \E exit \in Leaving(v, p.minAmountOut) :
            \E entered \in Entries(v, p.newStrategy, exit.out) :
              executeRebalance(v, p, exit, entered)
    BY <1>2 DEF Rebalances
  <2>2. PICK exit \in Leaving(v, p.minAmountOut) :
          \E entered \in Entries(v, p.newStrategy, exit.out) :
            executeRebalance(v, p, exit, entered)
    BY <2>1
  <2>3. PICK entered \in Entries(v, p.newStrategy, exit.out) :
          executeRebalance(v, p, exit, entered)
    BY <2>2
  <2>4. p.minAmountOut \in Nat
    BY DEF RelayInv, SignedKept
  <2>5. UNCHANGED <<relayVars, teeVars>>
    BY <2>3 DEF executeRebalance
  <2>6. QED
    BY <2>3, <2>4, <2>5, RebalanceStep, RelayUntouched
<1>3. CASE Fallback
  <2>1. PICK v \in Vaults, minAmountOut \in 0 .. 1 :
          \E exit \in Leaving(v, minAmountOut) : forceWithdrawAll(v, exit)
    BY <1>3 DEF Fallback
  <2>2. PICK exit \in Leaving(v, minAmountOut) : forceWithdrawAll(v, exit)
    BY <2>1
  <2>3. UNCHANGED <<relayVars, teeVars>>
    BY <2>2 DEF forceWithdrawAll
  <2>4. QED
    BY <2>2, <2>3, FallbackStep, RelayUntouched
<1>4. CASE setExtensionId
  <2>1. /\ extensionId' = TRUE
        /\ UNCHANGED <<assetVars, strategyVars, rebalanceVars, instructions, signed, teeVars>>
    BY <1>4 DEF setExtensionId
  <2>2. RelayInv'
    BY <2>1 DEF RelayInv, SignedKept, teeVars, HandlerKept, Job
  <2>3. QED
    BY <2>1, <2>2, VaultsUntouched
<1>5. CASE \E v \in Vaults : requestRebalance(v)
  <2>1. UNCHANGED <<assetVars, strategyVars, rebalanceVars>>
    BY <1>5 DEF requestRebalance
  <2>2. QED
    BY <1>5, <2>1, RequestStep, VaultsUntouched
<1>6. CASE Posts
  <2>1. UNCHANGED <<assetVars, strategyVars, rebalanceVars>>
    BY <1>6 DEF Posts
  <2>2. QED
    BY <1>6, <2>1, PostsStep, VaultsUntouched
<1>7. CASE Handler
  <2>1. CASE /\ Start \/ Decrypt \/ Validate \/ ReadApys(Reverting) \/ Report
             /\ UNCHANGED <<assetVars, strategyVars, rebalanceVars, relayVars>>
    <3>1. TeeInv
      BY DEF RelayInv, TeeInv
    <3>2. TeeInv'
      BY <2>1, <3>1, HandlerStep
    <3>3. RelayInv'
      BY <2>1, <3>2 DEF RelayInv, SignedKept, TeeInv, relayVars
    <3>4. QED
      BY <2>1, <3>3, VaultsUntouched
  <2>2. ASSUME pc = "nonce", NEW s \in apys,
               NEW nonce \in getCurrentNonce(Job.request.vault), Finishes(s, nonce)
        PROVE  VaultInv' /\ RelayInv'
    <3>1. UNCHANGED <<assetVars, strategyVars, rebalanceVars>>
      BY <2>2 DEF Finishes
    <3>2. QED
      BY <2>2, <3>1, FinishesStep, VaultsUntouched
  <2>3. QED
    BY <1>7, <2>1, <2>2 DEF Handler
<1>8. CASE RestartExtension /\ UNCHANGED <<assetVars, strategyVars, rebalanceVars, relayVars>>
  <2>1. /\ queue' = <<>> /\ pc' = "idle"
        /\ browser' = IF browser = "waiting" THEN "failed" ELSE browser
    BY <1>8 DEF RestartExtension
  <2>2. RelayInv'
    BY <1>8, <2>1 DEF RelayInv, SignedKept, HandlerKept, relayVars
  <2>3. QED
    BY <1>8, <2>2, VaultsUntouched
<1>9. ASSUME NEW s \in Strategies, VenueMoves(s) \/ AdministerAdapter(s)
      PROVE  VaultInv' /\ RelayInv'
  <2>1. UNCHANGED <<relayVars, teeVars>>
    BY <1>9 DEF VenueMoves, AdministerAdapter
  <2>2. QED
    BY <1>9, <2>1, VenueStep, OwnerStep, RelayUntouched
<1>10. CASE UNCHANGED vars
  BY <1>10, VaultsUntouched, RelayUntouched DEF vars
<1>11. QED
  BY <1>1, <1>2, <1>3, <1>4, <1>5, <1>6, <1>7, <1>8, <1>9, <1>10 DEF Next

\* The two halves of the invariant hold in every state.
THEOREM LoopInvariance == Spec => []LoopInv
BY InitLoopInv, NextLoopInv, PTL DEF Spec

(***************************************************************************)
(* Results.                                                                *)
(***************************************************************************)

\* Type invariant: no balance, supply or position goes below zero, whatever the
\* adapters pay out and round away.
THEOREM LoopTypeCorrect == Spec => []LoopTypeOK
<1>1. LoopInv => LoopTypeOK
  BY DEF LoopInv, VaultInv, RelayInv, SignedKept, BooksKept, HandlerKept, LoopTypeOK
<1>2. QED
  BY <1>1, LoopInvariance, PTL

\* No order of rebalances, fallbacks, redemptions, prices, outages and calls of
\* the adapters' owners leaves a position in a strategy a vault has left.
THEOREM NothingLeftBehind == Spec => []LeftStrategiesEmpty
<1>1. LoopInv => LeftStrategiesEmpty
  BY DEF LoopInv, VaultInv
<1>2. QED
  BY <1>1, LoopInvariance, PTL

\* Which steps rebalance a vault, and with what.
LEMMA RebalancedBy ==
  ASSUME LoopInv, [Next]_vars, NEW v \in Vaults, rebalanceNonce'[v] # rebalanceNonce[v]
  PROVE  /\ rebalanceNonce'[v] = rebalanceNonce[v] + 1
         /\ \E p \in signed : /\ p.nonce = rebalanceNonce[v]
                              /\ p.newStrategy \in Approved(v)
                              /\ activeStrategy'[v] = p.newStrategy
<1>1. Rebalances
  <2>1. ASSUME UNCHANGED rebalanceNonce PROVE FALSE
    BY <2>1
  <2>2. CASE Holders
    BY <2>1, <2>2 DEF Holders, deposit, redeem, rebalanceVars
  <2>3. CASE Fallback
    BY <2>1, <2>3 DEF Fallback, forceWithdrawAll
  <2>4. CASE setExtensionId \/ \E w \in Vaults : requestRebalance(w)
    BY <2>1, <2>4 DEF setExtensionId, requestRebalance, rebalanceVars
  <2>5. CASE Posts
    BY <2>1, <2>5 DEF Posts, rebalanceVars
  <2>6. CASE Handler
    BY <2>1, <2>6 DEF Handler, Finishes, rebalanceVars
  <2>7. CASE UNCHANGED <<assetVars, strategyVars, rebalanceVars, relayVars>>
    BY <2>1, <2>7 DEF rebalanceVars
  <2>8. CASE \E s \in Strategies : VenueMoves(s) \/ AdministerAdapter(s)
    BY <2>1, <2>8 DEF VenueMoves, AdministerAdapter, rebalanceVars
  <2>9. CASE UNCHANGED vars
    BY <2>1, <2>9 DEF vars, rebalanceVars
  <2>10. QED
    BY <2>2, <2>3, <2>4, <2>5, <2>6, <2>7, <2>8, <2>9 DEF Next
<1>2. PICK w \in Vaults, p \in signed :
        \E exit \in Leaving(w, p.minAmountOut) :
          \E entered \in Entries(w, p.newStrategy, exit.out) :
            executeRebalance(w, p, exit, entered)
  BY <1>1 DEF Rebalances
<1>3. /\ p.nonce = rebalanceNonce[w] /\ p.newStrategy \in Approved(w)
      /\ activeStrategy' = [activeStrategy EXCEPT ![w] = p.newStrategy]
      /\ rebalanceNonce' = [rebalanceNonce EXCEPT ![w] = @ + 1]
  BY <1>2 DEF executeRebalance
<1>4. w = v
  BY <1>3 DEF LoopInv, VaultInv
<1>5. activeStrategy'[v] = p.newStrategy /\ rebalanceNonce'[v] = rebalanceNonce[v] + 1
  BY <1>3, <1>4 DEF LoopInv, VaultInv
<1>6. QED
  BY <1>3, <1>4, <1>5

\* A vault migrates only on a result for its own nonce, whoever asked for it,
\* and no vault ever accepts that result again: the strategies of two vaults
\* differ, so no other vault has a use for it, and this one has moved on.
THEOREM ResultsAreSpent == Spec => ResultsSpent
<1>1. ASSUME LoopInv, [Next]_vars, NEW v \in Vaults, rebalanceNonce'[v] # rebalanceNonce[v]
      PROVE  \E p \in signed : /\ p.newStrategy = activeStrategy'[v]
                               /\ p.nonce = rebalanceNonce[v]
                               /\ Spent(p)'
  <2>1. rebalanceNonce'[v] = rebalanceNonce[v] + 1
    BY <1>1, RebalancedBy
  <2>2. PICK p \in signed : /\ p.nonce = rebalanceNonce[v]
                            /\ p.newStrategy \in Approved(v)
                            /\ activeStrategy'[v] = p.newStrategy
    BY <1>1, RebalancedBy
  <2>3. \A w \in Vaults : p.newStrategy \in Approved(w) => w = v
    BY <2>2 DEF Approved
  <2>4. p.nonce < rebalanceNonce'[v]
    BY <1>1, <2>1, <2>2 DEF LoopInv, VaultInv
  <2>5. Spent(p)'
    BY <2>3, <2>4 DEF Spent, Approved
  <2>6. QED
    BY <2>2, <2>5
<1>2. LoopInv /\ [Next]_vars =>
        [\A v \in Vaults : rebalanceNonce'[v] # rebalanceNonce[v] =>
           \E p \in signed : /\ p.newStrategy = activeStrategy'[v]
                             /\ p.nonce = rebalanceNonce[v]
                             /\ Spent(p)']_vars
  BY <1>1
<1>3. QED
  BY <1>2, LoopInvariance, PTL DEF Spec, ResultsSpent

\* A vault whose strategy has become empty stays in it.
THEOREM EmptyIsFinal == Spec => EmptyPositionIsFinal
<1>1. ASSUME LoopInv, [Next]_vars, NEW v \in Vaults, activeStrategy[v] # NoStrategy,
             HoldsNothing(books[activeStrategy[v]])
      PROVE  activeStrategy'[v] = activeStrategy[v]
  <2>1. VaultInv
    BY <1>1 DEF LoopInv
  <2>2. \A minAmountOut \in Nat : Leaving(v, minAmountOut) = {}
    BY <1>1, <2>1, LeavingEmpties DEF Active
  <2>3. CASE Rebalances
    <3>1. PICK w \in Vaults, p \in signed :
            \E exit \in Leaving(w, p.minAmountOut) :
              \E entered \in Entries(w, p.newStrategy, exit.out) :
                executeRebalance(w, p, exit, entered)
      BY <2>3 DEF Rebalances
    <3>2. p.minAmountOut \in Nat
      BY <1>1 DEF LoopInv, RelayInv, SignedKept
    <3>3. w # v
      BY <2>2, <3>1, <3>2
    <3>4. activeStrategy' = [activeStrategy EXCEPT ![w] = p.newStrategy]
      BY <3>1 DEF executeRebalance
    <3>5. QED
      BY <2>1, <3>3, <3>4 DEF VaultInv
  <2>4. CASE Fallback
    <3>1. PICK w \in Vaults, minAmountOut \in 0 .. 1 :
            \E exit \in Leaving(w, minAmountOut) : forceWithdrawAll(w, exit)
      BY <2>4 DEF Fallback
    <3>2. w # v
      BY <2>2, <3>1
    <3>3. activeStrategy' = [activeStrategy EXCEPT ![w] = NoStrategy]
      BY <3>1 DEF forceWithdrawAll
    <3>4. QED
      BY <2>1, <3>2, <3>3 DEF VaultInv
  <2>5. CASE Holders
    BY <2>5 DEF Holders, deposit, redeem, rebalanceVars
  <2>6. CASE setExtensionId \/ \E w \in Vaults : requestRebalance(w)
    BY <2>6 DEF setExtensionId, requestRebalance, rebalanceVars
  <2>7. CASE Posts
    BY <2>7 DEF Posts, rebalanceVars
  <2>8. CASE Handler
    BY <2>8 DEF Handler, Finishes, rebalanceVars
  <2>9. CASE UNCHANGED <<assetVars, strategyVars, rebalanceVars, relayVars>>
    BY <2>9 DEF rebalanceVars
  <2>10. CASE \E s \in Strategies : VenueMoves(s) \/ AdministerAdapter(s)
    BY <2>10 DEF VenueMoves, AdministerAdapter, rebalanceVars
  <2>11. CASE UNCHANGED vars
    BY <2>11 DEF vars, rebalanceVars
  <2>12. QED
    BY <1>1, <2>3, <2>4, <2>5, <2>6, <2>7, <2>8, <2>9, <2>10, <2>11 DEF Next
<1>2. LoopInv /\ [Next]_vars =>
        [\A v \in Vaults :
           activeStrategy[v] # NoStrategy /\ HoldsNothing(books[activeStrategy[v]])
             => activeStrategy'[v] = activeStrategy[v]]_vars
  BY <1>1
<1>3. QED
  BY <1>2, LoopInvariance, PTL DEF Spec, EmptyPositionIsFinal
================================================================================
