----------------------------- MODULE ApyCalculator -----------------------------
(***************************************************************************)
(* The handler that fce-config/ offers for the TEE extension: it asks an   *)
(* APYCalculator for the best strategy and encodes a payload.              *)
(*                                                                         *)
(* The calculator reads every candidate at once, each with several awaits, *)
(* from a chain that goes on meanwhile, and a read that fails is replaced  *)
(* by a number.  Percentages and scores are integers in hundredths; the    *)
(* Sharpe ratio is compared as a fraction.                                 *)
(***************************************************************************)
EXTENDS Integers, SequencesExt

CONSTANTS
  Strategies,
  Values, Held,  \* what totalValue() and balanceOf() of an adapter may return
  K,             \* parseEther('1000')
  Requests,      \* [strategies, minYield, maxRisk]
  Databases,     \* [Strategies -> [history, volatility]]
  Unknown,       \* not read yet; no database; fewer than 7 returns
  Hour, MinTwapWindow, MaxTwapAge, LastSecond,
  MaxDisturbances   \* bound

ASSUME CalculatorAssumption ==
  /\ Values \cup Held \subseteq Nat /\ K \in Nat \ {0}
  /\ Requests \subseteq [strategies : Seq(Strategies), minYield : Int, maxRisk : Int]
  /\ Unknown \notin Int \cup Databases
  /\ Databases \subseteq
       [Strategies -> [history : Seq(Nat), volatility : Nat \cup {Unknown}]]
  /\ Hour \in Nat \ {0} /\ LastSecond \in Nat
  /\ MinTwapWindow = 24 * Hour /\ MaxTwapAge = 2 * Hour   \* of ParentVault

VARIABLES
  worth, held,   \* totalValue() of an adapter, and the tokens it holds itself
  answering,     \* adapters whose view functions do not revert
  database,
  pc,            \* where the handler is
  request,
  reads,         \* per candidate, what was read of it
  answer,        \* the last answer of the handler
  clock,
  disturbances   \* history: moves of the chain and lost calls during the request

chainVars == <<worth, held, answering, database>>
vars == <<chainVars, pc, request, reads, answer, clock, disturbances>>

(***************************************************************************)
(* The formulas of apy-calculator.ts.                                      *)
(***************************************************************************)
estimateAPYFromValue(value) ==
  CASE value = 0                      -> 300
    [] value > 0 /\ value < K         -> 400
    [] value >= K /\ value < 10 * K   -> 450
    [] value >= 10 * K                -> 500

\* Mutant of calculateHistoricalAPY: a loss is not cut off at 0.
historicalLoss(history) ==
  IF Len(history) < 2 THEN estimateAPYFromValue(0)
  ELSE IF Head(history) = 0 THEN 400
  ELSE Min({5000, ((Last(history) - Head(history)) * 3650000)
                     \div (Head(history) * Len(history))})

calculateHistoricalAPY(history) ==
  IF Len(history) < 2 THEN estimateAPYFromValue(0)
  ELSE IF Head(history) = 0 THEN 400
  ELSE Max({0, Min({5000, ((Last(history) - Head(history)) * 3650000)
                             \div (Head(history) * Len(history))})})

estimateVolatility(apy) == Max({apy \div 2, 200})

\* `measured` is the annualised deviation of the returns in the database.
calculateVolatility(measured) ==
  IF measured = Unknown THEN estimateVolatility(400) ELSE measured

utilizationRate(total, idle) ==
  IF total = 0 THEN 0 ELSE ((total - idle) * 10000) \div total

calculateRiskScore(volatility, utilization, tvl) ==
  LET volScore  == Min({2 * volatility, 4000})
      utilScore == (3 * utilization) \div 10
      tvlScore  == IF tvl < 10 * K THEN 3000 ELSE IF tvl < 100 * K THEN 1500 ELSE 500
  IN  Min({volScore + utilScore + tvlScore, 10000})

metricsOf(s, apy, volatility, utilization, tvl) ==
  [address |-> s, apy |-> apy, volatility |-> volatility,
   riskScore |-> calculateRiskScore(volatility, utilization, tvl)]

HigherRatio(a, b) ==
  (a.apy - 200) * Max({b.volatility, 10}) > (b.apy - 200) * Max({a.volatility, 10})

Meets(m, minYield, maxRisk) == m.apy >= minYield /\ m.riskScore <= maxRisk

\* Mutant of calculateOptimalStrategy: the last of equal ratios.
optimalLast(all, minYield, maxRisk) ==
  LET optimal == FoldLeftDomain(
        LAMBDA best, i : IF /\ Meets(all[i], minYield, maxRisk)
                            /\ best = 0 \/ ~HigherRatio(all[best], all[i])
                         THEN i ELSE best, 0, all)
      highest == FoldLeftDomain(
        LAMBDA best, i : IF all[best].apy > all[i].apy THEN best ELSE i, 1, all)
  IN  all[IF optimal # 0 THEN optimal ELSE highest]

\* Filter, sort and first in one pass; the sort is stable, so the first of equal
\* ratios wins.  The reduce of the fallback keeps the last of equal APYs.
calculateOptimalStrategy(all, minYield, maxRisk) ==
  LET optimal == FoldLeftDomain(
        LAMBDA best, i : IF /\ Meets(all[i], minYield, maxRisk)
                            /\ best = 0 \/ HigherRatio(all[i], all[best])
                         THEN i ELSE best, 0, all)
      highest == FoldLeftDomain(
        LAMBDA best, i : IF all[best].apy > all[i].apy THEN best ELSE i, 1, all)
  IN  all[IF optimal # 0 THEN optimal ELSE highest]

\* Mutant of calculateTWAPWindow: it ends an hour earlier.
windowTooEarly(time) ==
  [twapStart |-> time - 26 * Hour, twapEnd |-> time - 2 * Hour]

calculateTWAPWindow(time) ==
  [twapStart |-> time - 26 * Hour, twapEnd |-> time - Hour]

(***************************************************************************)
(* The handler.                                                            *)
(***************************************************************************)
NoAnswer == [status |-> 0]
Candidates == ToSet(request.strategies)
Unread == [apy |-> Unknown, tvl |-> Unknown, total |-> Unknown,
           utilization |-> Unknown, volatility |-> Unknown]

Init ==
  /\ worth \in [Strategies -> Values] /\ held \in [Strategies -> Held]
  /\ \A s \in Strategies : held[s] <= worth[s]
  /\ answering \in SUBSET Strategies
  /\ database \in Databases \cup {Unknown}
  /\ pc = "idle" /\ request \in Requests /\ reads = [s \in Strategies |-> Unread]
  /\ answer = NoAnswer
  /\ clock = 26 * Hour /\ disturbances = 0

\* One request: the handler keeps nothing from one to the next.  A sealed
\* message is decrypted by the tee-node first.
Receive ==
  /\ pc = "idle" /\ answer = NoAnswer
  /\ pc' \in {"decrypt", "metrics"}
  /\ UNCHANGED <<chainVars, request, reads, answer, clock, disturbances>>

Answered(a) ==
  /\ pc' = "idle" /\ answer' = a
  /\ reads' = [s \in Strategies |-> Unread]
  /\ UNCHANGED <<chainVars, request, clock, disturbances>>

Decrypt ==
  /\ pc = "decrypt"
  /\ \/ pc' = "metrics" /\ UNCHANGED <<chainVars, request, reads, answer, clock, disturbances>>
     \/ Answered([status |-> 2, why |-> "decrypt"])

Learn(s, field, x) ==
  /\ reads' = [reads EXCEPT ![s][field] = x]
  /\ UNCHANGED <<chainVars, pc, request, answer, clock>>

Reading(s, field) == pc = "metrics" /\ s \in Candidates /\ reads[s][field] = Unknown

\* A call that the adapter would answer may be lost by the RPC node or by the
\* database, and the chain may move.
Disturbed ==
  /\ disturbances < MaxDisturbances
  /\ disturbances' = disturbances + 1
Succeeds(s) == s \in answering /\ UNCHANGED disturbances
Fails(s) == IF s \in answering THEN Disturbed ELSE UNCHANGED disturbances

\* With a database, the value that was read is not used.
getHistoricalAPY(s) ==
  /\ Reading(s, "apy")
  /\ \/ /\ Succeeds(s)
        /\ Learn(s, "apy", IF database = Unknown THEN estimateAPYFromValue(worth[s])
                           ELSE calculateHistoricalAPY(database[s].history))
     \/ Fails(s) /\ Learn(s, "apy", 400)

getTVL(s) ==
  /\ Reading(s, "tvl")
  /\ \/ Succeeds(s) /\ Learn(s, "tvl", worth[s])
     \/ Fails(s) /\ Learn(s, "tvl", 0)

\* getUtilizationRate reads the value first, then the balance.
ReadTotal(s) ==
  /\ Reading(s, "total") /\ Reading(s, "utilization")
  /\ \/ Succeeds(s) /\ Learn(s, "total", worth[s])
     \/ Fails(s) /\ Learn(s, "utilization", 9000)

ReadBalance(s) ==
  /\ ~Reading(s, "total") /\ Reading(s, "utilization")
  /\ \/ /\ UNCHANGED disturbances
        /\ Learn(s, "utilization", utilizationRate(reads[s].total, held[s]))
     \/ Disturbed /\ Learn(s, "utilization", 9000)

\* getStrategyMetrics: when the three reads are done, the volatility.
getVolatility(s) ==
  /\ Reading(s, "volatility")
  /\ Unknown \notin {reads[s].apy, reads[s].tvl, reads[s].utilization}
  /\ \/ /\ UNCHANGED disturbances
        /\ Learn(s, "volatility", IF database = Unknown THEN estimateVolatility(reads[s].apy)
                                  ELSE calculateVolatility(database[s].volatility))
     \/ /\ database # Unknown /\ Disturbed
        /\ Learn(s, "volatility", 500)

Metrics ==
  [i \in DOMAIN request.strategies |->
     LET s == request.strategies[i]
     IN  metricsOf(s, reads[s].apy, reads[s].volatility, reads[s].utilization, reads[s].tvl)]

\* handleRebalanceRequest once it has all metrics.  It reads its clock twice, for
\* the window and for the deadline, and a second may begin in between.  The
\* reduce of an empty list throws.
handleRebalanceRequest ==
  /\ pc = "metrics"
  /\ \A s \in Candidates : reads[s].volatility # Unknown
  /\ IF request.strategies = <<>> THEN Answered([status |-> 2, why |-> "empty"])
     ELSE LET best == calculateOptimalStrategy(Metrics, request.minYield, request.maxRisk)
              window == calculateTWAPWindow(clock)
          IN  \E later \in {clock, clock + 1} :
                Answered([status |-> 1, newStrategy |-> best.address,
                          fallback |-> ~Meets(best, request.minYield, request.maxRisk),
                          calculated |-> clock, deadline |-> later + Hour,
                          twapStart |-> window.twapStart, twapEnd |-> window.twapEnd])

(***************************************************************************)
(* The chain moves: an adapter gains, loses or moves assets, and never     *)
(* holds more of the asset itself than it reports.                         *)
(***************************************************************************)
Move(s, v, h) ==
  /\ pc = "metrics" /\ Disturbed
  /\ h <= v /\ <<v, h>> # <<worth[s], held[s]>>
  /\ worth' = [worth EXCEPT ![s] = v] /\ held' = [held EXCEPT ![s] = h]
  /\ UNCHANGED <<answering, database, pc, request, reads, answer, clock>>

\* Time matters once there is a payload.
Tick ==
  /\ answer.status = 1 /\ clock < LastSecond
  /\ clock' = clock + 1
  /\ UNCHANGED <<chainVars, pc, request, reads, answer, disturbances>>

Next ==
  \/ Receive
  \/ Decrypt
  \/ \E s \in Strategies : getHistoricalAPY(s) \/ getTVL(s) \/ ReadTotal(s)
                             \/ ReadBalance(s) \/ getVolatility(s)
  \/ handleRebalanceRequest
  \/ \E s \in Strategies, v \in Values, h \in Held : Move(s, v, h)
  \/ Tick

Spec == Init /\ [][Next]_vars

(***************************************************************************)
(* Properties.                                                             *)
(***************************************************************************)
Chosen == answer.status = 1

\* The metrics of a candidate, read in one instant.
MetricsNow(s) ==
  LET up  == s \in answering
      apy == IF ~up THEN 400
             ELSE IF database = Unknown THEN estimateAPYFromValue(worth[s])
             ELSE calculateHistoricalAPY(database[s].history)
  IN  metricsOf(s, apy,
                IF database = Unknown THEN estimateVolatility(apy)
                ELSE calculateVolatility(database[s].volatility),
                IF up THEN utilizationRate(worth[s], held[s]) ELSE 9000,
                IF up THEN worth[s] ELSE 0)

\* The candidates within the limits.  BestPlace is the first of those that no other
\* one of them beats or, if there are none, the last candidate with the best APY.
Viable(all, minYield, maxRisk) == {i \in DOMAIN all : Meets(all[i], minYield, maxRisk)}
BestPlace(all, minYield, maxRisk) ==
  LET ok == Viable(all, minYield, maxRisk)
  IN  IF ok # {} THEN Min({i \in ok : \A j \in ok : ~HigherRatio(all[j], all[i])})
      ELSE Max({i \in DOMAIN all : \A j \in DOMAIN all : all[j].apy <= all[i].apy})

\* As long as nothing moves and no call is lost, the order in which the awaits of
\* getStrategyMetrics come back does not matter: the answer is the one a single
\* look at all candidates gives.
AsIfAtOnce ==
  Chosen /\ disturbances = 0 =>
    LET list == request.strategies
        all  == [i \in DOMAIN list |-> MetricsNow(list[i])]
    IN  /\ answer.newStrategy = list[BestPlace(all, request.minYield, request.maxRisk)]
        /\ answer.fallback = (Viable(all, request.minYield, request.maxRisk) = {})

\* The limits the handler passes, APY from 0 and risk up to 100, never bring up
\* the fallback, not after a loss and not with reads that do not fit together.
HandlerNeverFallsBack ==
  Chosen /\ request.minYield = 0 /\ request.maxRisk = 10000 => ~answer.fallback

\* The time checks of _validateRebalancePayload pass for the whole hour that
\* follows the calculation, and the payload has no more than a second left then.
PayloadLastsAnHour ==
  Chosen =>
    /\ clock <= answer.calculated + Hour =>
         /\ clock <= answer.deadline
         /\ answer.twapEnd <= clock /\ clock - answer.twapEnd <= MaxTwapAge
         /\ answer.twapEnd - answer.twapStart >= MinTwapWindow
    /\ clock > answer.calculated + Hour + 1 => clock > answer.deadline
==============================================================================
