--------------------------- MODULE StrategyAdapters ---------------------------
(***************************************************************************)
(* The books of the four strategy adapters.  An operation maps a book, its *)
(* arguments and the state of the venue to the set of its outcomes; the    *)
(* set is empty when the call reverts.                                     *)
(*                                                                         *)
(*   enosys    held underlying and held paired tokens, both counted        *)
(*   sparkdex  LP tokens; held and paired are what addLiquidity left over, *)
(*             which no operation of the vault counts or pays out          *)
(*   kinetic   lp counts kTokens                                           *)
(*   ftso      paired counts delegated WNat                                *)
(*                                                                         *)
(* A venue is its price and whether it answers: `rate` units of underlying *)
(* buy Par paired tokens (or kTokens).  A swap yields its quote less an    *)
(* impact of at most MaxImpact.  An LP token of the SparkDEX pair stands   *)
(* for one unit of underlying and its worth in WNat.                       *)
(***************************************************************************)
EXTENDS Integers, FiniteSetsExt

CONSTANTS
  Par,        \* the rate at which one paired token is worth one underlying
  MaxImpact   \* bound: units a swap loses to fees and price impact

ASSUME ParAssumption == Par \in Nat \ {0}
ASSUME ImpactAssumption == MaxImpact \in Nat

Kinds == {"enosys", "sparkdex", "kinetic", "ftso"}
Books == [kind : Kinds, held : Nat, paired : Nat, lp : Nat, paused : BOOLEAN]
EmptyBook(kind) ==
  [kind |-> kind, held |-> 0, paired |-> 0, lp |-> 0, paused |-> FALSE]
HoldsNothing(b) == b.held = 0 /\ b.paired = 0 /\ b.lp = 0

Worth(p, venue) == (p * venue.rate) \div Par
Bought(x, venue) == (x * Par) \div venue.rate

\* swapExactTokensForTokens and exactInputSingle.
Swaps(quote, minOut, venue) ==
  {out \in (quote - MaxImpact) .. quote : venue.up /\ out >= 0 /\ out >= minOut}

\* A swap the adapter skips when there is nothing to sell.
SwapsIfAny(amount, quote, venue) ==
  IF amount = 0 THEN {0} ELSE Swaps(quote, 0, venue)

(***************************************************************************)
(* totalValue().  An Enosys position cannot be priced while its pool does  *)
(* not answer: the call reverts.  The FTSO adapter answers 0 instead.      *)
(***************************************************************************)
Readable(b, venue) == b.kind = "enosys" /\ b.paired # 0 => venue.up

totalValue(b, venue) ==
  CASE b.kind = "enosys"   -> b.held + Worth(b.paired, venue)
    [] b.kind = "sparkdex" -> 2 * b.lp
    [] b.kind = "kinetic"  -> Worth(b.lp, venue)
    [] b.kind = "ftso"     -> IF venue.up THEN Worth(b.paired, venue) ELSE 0

(***************************************************************************)
(* deposit(amount): the books after it.                                    *)
(***************************************************************************)
EnosysDeposit(b, amount, venue) ==
  LET half == amount \div 2 IN
  {[b EXCEPT !.held = @ + amount - half, !.paired = @ + got] :
     got \in SwapsIfAny(half, Bought(half, venue), venue)}

\* addLiquidity takes both sides at the pool's ratio and leaves the rest of the
\* larger one on the adapter.
addLiquidity(b, retained, wnat, venue) ==
  LET taken == Min({retained, Worth(wnat, venue)})
      spent == Min({wnat, Bought(taken, venue)})
  IN  [b EXCEPT !.lp = @ + taken, !.held = @ + retained - taken,
                !.paired = @ + wnat - spent]

SparkDexDeposit(b, amount, venue) ==
  LET half == amount \div 2
      retained == amount - half
      got == IF half = 0 THEN {0}
             ELSE Swaps(Bought(half, venue), (half * 995) \div 1000, venue)
  IN  {IF wnat = 0 THEN [b EXCEPT !.held = @ + retained]
       ELSE addLiquidity(b, retained, wnat, venue) : wnat \in got}

KineticDeposit(b, amount, venue) ==
  {[b EXCEPT !.lp = @ + k] : k \in {Bought(amount, venue)} \ {0}}

\* minWNatOut compares WNat with FXRP one to one.
FtsoDeposit(b, amount, venue) ==
  {[b EXCEPT !.paired = @ + got] :
     got \in Swaps(Bought(amount, venue), (amount * 9950) \div 10000, venue)}

Deposits(b, amount, venue) ==
  IF b.paused THEN {}
  ELSE CASE b.kind = "enosys"   -> EnosysDeposit(b, amount, venue)
         [] b.kind = "sparkdex" -> SparkDexDeposit(b, amount, venue)
         [] b.kind = "kinetic"  -> KineticDeposit(b, amount, venue)
         [] b.kind = "ftso"     -> FtsoDeposit(b, amount, venue)

(***************************************************************************)
(* withdraw(amount, minAmountOut) and withdrawAll(minAmountOut): the books *)
(* after it, with what is paid to the vault.                               *)
(***************************************************************************)
Exit(b, out) == [book |-> b, out |-> out]
PaysAtLeast(exits, minAmountOut) ==
  {e \in exits : e.out >= minAmountOut /\ ~e.book.paused}

EnosysWithdraw(b, amount, venue) ==
  LET total == totalValue(b, venue) IN
  IF total = 0 \/ amount > total THEN {}
  ELSE LET sold == (b.paired * amount) \div total
           kept == (b.held * amount) \div total
       IN  {Exit([b EXCEPT !.held = @ - kept, !.paired = @ - sold], kept + got) :
              got \in SwapsIfAny(sold, Worth(sold, venue), venue)}

\* Mutant of EnosysWithdrawAll: only the held underlying is booked out.
EnosysWithdrawHeld(b, venue) ==
  IF b.held = 0 /\ b.paired = 0 THEN {}
  ELSE {Exit([b EXCEPT !.held = 0], b.held + got) :
          got \in SwapsIfAny(b.paired, Worth(b.paired, venue), venue)}

EnosysWithdrawAll(b, venue) ==
  IF b.held = 0 /\ b.paired = 0 THEN {}
  ELSE {Exit([b EXCEPT !.held = 0, !.paired = 0], b.held + got) :
          got \in SwapsIfAny(b.paired, Worth(b.paired, venue), venue)}

\* _removeLiquidityAndSwap pays out what the router reports, not the balance.
removeLiquidityAndSwap(b, lp, venue) ==
  {Exit([b EXCEPT !.lp = @ - lp], lp + got) :
     got \in SwapsIfAny(Bought(lp, venue), Worth(Bought(lp, venue), venue), venue)}

SparkDexWithdraw(b, amount, venue) ==
  LET total == totalValue(b, venue) IN
  IF total = 0 \/ amount > total THEN {}
  ELSE removeLiquidityAndSwap(b, (b.lp * amount) \div total, venue)

SparkDexWithdrawAll(b, venue) ==
  IF b.lp = 0 THEN {} ELSE removeLiquidityAndSwap(b, b.lp, venue)

\* A market short of cash fails the redemption.
KineticWithdraw(b, amount, venue) ==
  IF ~venue.up \/ Bought(amount, venue) > b.lp THEN {}
  ELSE {Exit([b EXCEPT !.lp = @ - Bought(amount, venue)], amount)}

\* Mutant of KineticWithdrawAll: an empty position is not refused.
KineticWithdrawNothing(b, venue) ==
  IF ~venue.up THEN {} ELSE {Exit([b EXCEPT !.lp = 0], Worth(b.lp, venue))}

KineticWithdrawAll(b, venue) ==
  IF ~venue.up \/ b.lp = 0 THEN {}
  ELSE {Exit([b EXCEPT !.lp = 0], Worth(b.lp, venue))}

\* Sells 110% of `amount`, an FXRP amount, in WNat.
FtsoWithdraw(b, amount, venue) ==
  LET sold == Min({(amount * 11) \div 10, b.paired}) IN
  IF b.paired = 0 THEN {}
  ELSE {Exit([b EXCEPT !.paired = @ - sold], got) :
          got \in Swaps(Worth(sold, venue), 0, venue)}

FtsoWithdrawAll(b, venue) ==
  IF b.paired = 0 THEN {}
  ELSE {Exit([b EXCEPT !.paired = 0], got) :
          got \in Swaps(Worth(b.paired, venue), 0, venue)}

Withdrawals(b, amount, minAmountOut, venue) ==
  PaysAtLeast(
    CASE b.kind = "enosys"   -> EnosysWithdraw(b, amount, venue)
      [] b.kind = "sparkdex" -> SparkDexWithdraw(b, amount, venue)
      [] b.kind = "kinetic"  -> KineticWithdraw(b, amount, venue)
      [] b.kind = "ftso"     -> FtsoWithdraw(b, amount, venue),
    minAmountOut)

WithdrawalsOfAll(b, minAmountOut, venue) ==
  PaysAtLeast(
    CASE b.kind = "enosys"   -> EnosysWithdrawAll(b, venue)
      [] b.kind = "sparkdex" -> SparkDexWithdrawAll(b, venue)
      [] b.kind = "kinetic"  -> KineticWithdrawAll(b, venue)
      [] b.kind = "ftso"     -> FtsoWithdrawAll(b, venue),
    minAmountOut)

(***************************************************************************)
(* What the owner of an adapter may do: the books after it.  Delegating to *)
(* other providers and harvesting JOULE for a recipient leave them alone.  *)
(***************************************************************************)
PauseOrUnpause(b) == {[b EXCEPT !.paused = ~@]}

\* autoClaim pays the rewards in WNat, which is delegated with the rest.
claimRewards(b) == IF b.kind = "ftso" THEN {[b EXCEPT !.paired = @ + 1]} ELSE {}

\* Only the SparkDEX adapter lets its owner take the paired token.
rescueToken(b) ==
  IF b.kind = "sparkdex" THEN {[b EXCEPT !.paired = p] : p \in 0 .. b.paired - 1} ELSE {}
==============================================================================
