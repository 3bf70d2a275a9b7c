---------------------------- MODULE RebalanceLoop -----------------------------
(***************************************************************************)
(* The rebalance loop: two vaults with their strategy adapters, the        *)
(* instruction sender, the registry, the TEE extension that serves both    *)
(* vaults, whoever else sends it requests, and whoever submits what it     *)
(* signed.  ParentVault has the share arithmetic of many holders and the   *)
(* clock; here one holder owns the shares of a vault, payloads never       *)
(* expire, and in exchange what a strategy does is computed by the         *)
(* adapters' books.                                                        *)
(***************************************************************************)
EXTENDS StrategyAdapters, TeeExtension

CONSTANTS
  VaultOf,        \* the vault an adapter was deployed for
  KindChoices,    \* which adapter each strategy may be
  Rates,          \* prices of a venue
  BufferBps,      \* liquidityBufferBps
  Callers,        \* who posts to the extension: "node", "browser", "anyone"
  Funds,          \* FAssets the holder of a vault starts with
  StrangersRequests,   \* bound: requests that others than the vaults send
  MaxNonce, MaxSigned, MaxRequests, MaxVenueMoves   \* bounds

ASSUME LoopAssumption ==
  /\ VaultOf \in [Strategies -> Vaults]
  /\ KindChoices \subseteq [Strategies -> Kinds]
  /\ Rates \subseteq Nat \ {0} /\ Par \in Rates
  /\ BufferBps \in 0 .. MaxBps
  /\ Funds \in [Vaults -> Nat]
  /\ StrangersRequests \subseteq Requests
  /\ MaxNonce \in Nat

VARIABLES
  outside, idle, supply,   \* FAssets of the holder and of the vault; shares
  books, venue,            \* adapters, and the venues behind them
  activeStrategy, rebalanceNonce,
  extensionId,             \* the sender found its extension
  instructions,            \* requests of the vaults, which the registry holds
  signed,                  \* results the tee-node signed
  moves,                   \* bound: changes of venues and calls of adapter owners
  rewarded                 \* history: strategies out of use with rewards claimed since

assetVars == <<outside, idle, supply>>
strategyVars == <<books, venue, moves, rewarded>>
rebalanceVars == <<activeStrategy, rebalanceNonce>>
relayVars == <<extensionId, instructions, signed>>
vars == <<assetVars, strategyVars, rebalanceVars, relayVars, teeVars>>

Init ==
  /\ outside = Funds
  /\ idle = [v \in Vaults |-> 0] /\ supply = [v \in Vaults |-> 0]
  /\ \E kinds \in KindChoices : books = [s \in Strategies |-> EmptyBook(kinds[s])]
  /\ venue = [s \in Strategies |-> [rate |-> Par, up |-> TRUE]]
  /\ moves = 0 /\ rewarded = {}
  /\ activeStrategy = [v \in Vaults |-> NoStrategy]
  /\ rebalanceNonce = [v \in Vaults |-> 0]
  /\ extensionId = FALSE /\ instructions = {} /\ signed = {}
  /\ TeeInit

Approved(v) == {s \in Strategies : VaultOf[s] = v}
Active(v) == activeStrategy[v]

(***************************************************************************)
(* The vault.                                                              *)
(***************************************************************************)
ValueReadable(v) ==
  Active(v) # NoStrategy => Readable(books[Active(v)], venue[Active(v)])

totalAssets(v) ==
  idle[v] + IF Active(v) = NoStrategy THEN 0
            ELSE totalValue(books[Active(v)], venue[Active(v)])

previewRedeem(v, shares) == (shares * (totalAssets(v) + 1)) \div (supply[v] + 1)

deposit(v, assets) ==
  /\ assets <= outside[v] /\ ValueReadable(v)
  /\ outside' = [outside EXCEPT ![v] = @ - assets]
  /\ idle' = [idle EXCEPT ![v] = @ + assets]
  /\ supply' = [supply EXCEPT ![v] =
       @ + (assets * (supply[v] + 1)) \div (totalAssets(v) + 1)]
  /\ UNCHANGED <<strategyVars, rebalanceVars, relayVars, teeVars>>

\* redeem, with the strategy's part of _withdraw: `exit` serves the shortfall.
redeem(v, shares, exit) ==
  LET assets == previewRedeem(v, shares)
      shortfall == assets - idle[v]
      s == Active(v)
  IN  /\ shares <= supply[v] /\ ValueReadable(v)
      /\ \/ /\ shortfall <= 0 /\ exit.out = 0
            /\ UNCHANGED books
         \/ /\ shortfall > 0 /\ s # NoStrategy
            /\ exit \in Withdrawals(books[s], shortfall, shortfall, venue[s])
            /\ books' = [books EXCEPT ![s] = exit.book]
      /\ idle' = [idle EXCEPT ![v] = @ + exit.out - assets]
      /\ outside' = [outside EXCEPT ![v] = @ + assets]
      /\ supply' = [supply EXCEPT ![v] = @ - shares]
      /\ UNCHANGED <<venue, moves, rewarded, rebalanceVars, relayVars, teeVars>>

\* The payload names no vault: any vault may be handed any signed result.
\* Mutant: the approval of the new strategy is not checked.
executeUnapproved(v, p, exit, entered) ==
  LET s == p.newStrategy
      assetsToDeposit == Deployable(idle[v] + exit.out, BufferBps)
      left == IF Active(v) = NoStrategy THEN books
              ELSE [books EXCEPT ![Active(v)] = exit.book]
  IN  /\ p.nonce = rebalanceNonce[v] /\ s # Active(v)
      /\ Active(v) # NoStrategy => totalValue(exit.book, venue[Active(v)]) = 0
      /\ entered \in IF assetsToDeposit = 0 THEN {books[s]}
                     ELSE Deposits(books[s], assetsToDeposit, venue[s])
      /\ books' = [left EXCEPT ![s] = entered]
      /\ idle' = [idle EXCEPT ![v] = @ + exit.out - assetsToDeposit]
      /\ activeStrategy' = [activeStrategy EXCEPT ![v] = s]
      /\ rebalanceNonce' = [rebalanceNonce EXCEPT ![v] = @ + 1]
      /\ rewarded' = rewarded \ {s}
      /\ UNCHANGED <<outside, supply, venue, moves, relayVars, teeVars>>

executeRebalance(v, p, exit, entered) ==
  LET s == p.newStrategy
      assetsToDeposit == Deployable(idle[v] + exit.out, BufferBps)
      left == IF Active(v) = NoStrategy THEN books
              ELSE [books EXCEPT ![Active(v)] = exit.book]
  IN  /\ p.nonce = rebalanceNonce[v]
      /\ s # Active(v) /\ s \in Approved(v)
      /\ Active(v) # NoStrategy => totalValue(exit.book, venue[Active(v)]) = 0
      /\ entered \in IF assetsToDeposit = 0 THEN {books[s]}
                     ELSE Deposits(books[s], assetsToDeposit, venue[s])
      /\ books' = [left EXCEPT ![s] = entered]
      /\ idle' = [idle EXCEPT ![v] = @ + exit.out - assetsToDeposit]
      /\ activeStrategy' = [activeStrategy EXCEPT ![v] = s]
      /\ rebalanceNonce' = [rebalanceNonce EXCEPT ![v] = @ + 1]
      /\ rewarded' = rewarded \ {s}
      /\ UNCHANGED <<outside, supply, venue, moves, relayVars, teeVars>>

Nothing(v) == IF Active(v) = NoStrategy THEN Exit(EmptyBook("enosys"), 0)
              ELSE Exit(books[Active(v)], 0)

\* What withdrawAll may do to the strategy a vault leaves.
Leaving(v, minAmountOut) ==
  IF Active(v) = NoStrategy THEN {Nothing(v)}
  ELSE WithdrawalsOfAll(books[Active(v)], minAmountOut, venue[Active(v)])

\* By the DAO once the TEE was silent for TEE_TIMEOUT.
forceWithdrawAll(v, exit) ==
  /\ Active(v) # NoStrategy
  /\ totalValue(exit.book, venue[Active(v)]) = 0
  /\ books' = [books EXCEPT ![Active(v)] = exit.book]
  /\ idle' = [idle EXCEPT ![v] = @ + exit.out]
  /\ activeStrategy' = [activeStrategy EXCEPT ![v] = NoStrategy]
  /\ UNCHANGED <<outside, supply, venue, moves, rewarded, rebalanceNonce, relayVars,
                 teeVars>>

(***************************************************************************)
(* From the vault to the TEE and back.                                     *)
(***************************************************************************)
RequestOf(v) ==
  [vault |-> v, idleAssets |-> idle[v], strategies |-> Approved(v),
   liquidityBufferBps |-> BufferBps]

\* InstructionSender scans the registry for itself, once.
setExtensionId ==
  /\ ~extensionId
  /\ extensionId' = TRUE
  /\ UNCHANGED <<assetVars, strategyVars, rebalanceVars, instructions, signed, teeVars>>

requestRebalance(v) ==
  /\ extensionId
  /\ instructions' = instructions \cup {RequestOf(v)}
  /\ UNCHANGED <<assetVars, strategyVars, rebalanceVars, extensionId, signed, teeVars>>

NoRequest ==
  [vault |-> Elsewhere, idleAssets |-> 0, strategies |-> {},
   liquidityBufferBps |-> 0]

\* The tee-node may hand an instruction over more than once, and it hands over
\* those of strangers too: once the extension id is set, sendInstructions takes
\* them from anybody, whatever vault, strategies and amounts they name.
NodePosts(request) ==
  /\ "node" \in Callers /\ extensionId
  /\ request \in instructions \cup StrangersRequests
  /\ \E sealed \in BOOLEAN : Post("node", "CALCULATE_OPTIMAL", request, sealed)
  /\ UNCHANGED <<pc, apys, browser>>

\* requestSignedRebalance: one request of the deposit page at a time, with the
\* amount it displays, if any, and a strategy of its own.
BrowserPosts(v) ==
  /\ "browser" \in Callers /\ browser # "waiting"
  /\ \E amount \in {0, Funds[v]}, s \in Approved(v) :
       Post("browser", "CALCULATE_OPTIMAL",
            [vault |-> v, idleAssets |-> amount, strategies |-> {s},
             liquidityBufferBps |-> BufferBps], FALSE)
  /\ browser' = "waiting"
  /\ UNCHANGED <<pc, apys>>

AnyonePosts ==
  /\ "anyone" \in Callers
  /\ \E op \in {"GET_APYS", "STATE"}, strategies \in {Approved(v) : v \in Vaults} :
       Post("anyone", op, [NoRequest EXCEPT !.strategies = strategies], FALSE)
  /\ UNCHANGED <<pc, apys, browser>>

Reverting == {s \in Strategies : ~Readable(books[s], venue[s])}

\* The tee-node signs what the handler returned to it.  Nobody need pick a
\* result up, so beyond the bound they are not kept.
Finishes(s, nonce) ==
  LET result == PayloadOf(Job.request, s, nonce) IN
  /\ Finish(s, nonce)
  /\ signed' = IF Job.caller = "node" /\ Cardinality(signed \cup {result}) <= MaxSigned
               THEN signed \cup {result} ELSE signed
  /\ UNCHANGED <<assetVars, strategyVars, rebalanceVars, extensionId, instructions>>

\* getCurrentNonce reads the address the request names, and takes 0 when that
\* fails; an address that is no vault answers what it likes.
getCurrentNonce(address) ==
  IF address \in Vaults THEN {0, rebalanceNonce[address]} ELSE 0 .. MaxNonce - 1

Handler ==
  \/ /\ Start \/ Decrypt \/ Validate \/ ReadApys(Reverting) \/ Report
     /\ UNCHANGED <<assetVars, strategyVars, rebalanceVars, relayVars>>
  \/ /\ pc = "nonce"
     /\ \E s \in apys, nonce \in getCurrentNonce(Job.request.vault) : Finishes(s, nonce)

(***************************************************************************)
(* The venues: prices move, pools and markets stop answering.              *)
(***************************************************************************)
VenueMoves(s) ==
  /\ moves < MaxVenueMoves
  /\ moves' = moves + 1
  /\ \E rate \in Rates, up \in BOOLEAN :
       venue' = [venue EXCEPT ![s] = [rate |-> rate, up |-> up]]
  /\ venue' # venue
  /\ UNCHANGED <<assetVars, books, rewarded, rebalanceVars, relayVars, teeVars>>

AdministerAdapter(s) ==
  /\ moves < MaxVenueMoves
  /\ moves' = moves + 1
  /\ \E after \in PauseOrUnpause(books[s]) \cup claimRewards(books[s])
                   \cup rescueToken(books[s]) :
       books' = [books EXCEPT ![s] = after]
  /\ rewarded' = IF activeStrategy[VaultOf[s]] # s /\ books'[s].paired > books[s].paired
                 THEN rewarded \cup {s} ELSE rewarded
  /\ UNCHANGED <<assetVars, venue, rebalanceVars, relayVars, teeVars>>

ExitsFor(v, shares) ==
  LET shortfall == previewRedeem(v, shares) - idle[v] IN
  IF shortfall <= 0 \/ Active(v) = NoStrategy THEN {Nothing(v)}
  ELSE Withdrawals(books[Active(v)], shortfall, shortfall, venue[Active(v)])

Entries(v, s, out) ==
  LET assetsToDeposit == Deployable(idle[v] + out, BufferBps) IN
  IF assetsToDeposit = 0 THEN {books[s]} ELSE Deposits(books[s], assetsToDeposit, venue[s])

Holders ==
  \E v \in Vaults : \E x \in 1 .. Funds[v] :
    deposit(v, x) \/ \E exit \in ExitsFor(v, x) : redeem(v, x, exit)

Rebalances ==
  \E v \in Vaults, p \in signed :
    /\ rebalanceNonce[v] < MaxNonce
    /\ \E exit \in Leaving(v, p.minAmountOut) :
         \E entered \in Entries(v, p.newStrategy, exit.out) :
           executeRebalance(v, p, exit, entered)

Fallback ==
  \E v \in Vaults, minAmountOut \in 0 .. 1 :
    \E exit \in Leaving(v, minAmountOut) : forceWithdrawAll(v, exit)

Posts ==
  /\ \/ \E request \in instructions \cup StrangersRequests : NodePosts(request)
     \/ \E v \in Vaults : BrowserPosts(v)
     \/ AnyonePosts
  /\ UNCHANGED <<assetVars, strategyVars, rebalanceVars, relayVars>>

Next ==
  \/ Holders
  \/ Rebalances
  \/ Fallback
  \/ setExtensionId
  \/ \E v \in Vaults : requestRebalance(v) /\ Cardinality(instructions') <= MaxRequests
  \/ Posts
  \/ Handler
  \/ RestartExtension /\ UNCHANGED <<assetVars, strategyVars, rebalanceVars, relayVars>>
  \/ \E s \in Strategies : VenueMoves(s) \/ AdministerAdapter(s)

\* The event loop of the server resumes the handler whose promise has settled:
\* every call of a handler has a timeout.
Spec == Init /\ [][Next]_vars /\ WF_vars(Handler)

(***************************************************************************)
(* Properties.                                                             *)
(***************************************************************************)
LoopTypeOK ==
  /\ outside \in [Vaults -> Nat] /\ idle \in [Vaults -> Nat] /\ supply \in [Vaults -> Nat]
  /\ books \in [Strategies -> Books]
  /\ venue \in [Strategies -> [rate : Rates, up : BOOLEAN]]
  /\ rewarded \subseteq Strategies
  /\ activeStrategy \in [Vaults -> Strategies \cup {NoStrategy}]
  /\ rebalanceNonce \in [Vaults -> Nat]
  /\ extensionId \in BOOLEAN
  /\ instructions \subseteq Requests
  /\ \A p \in signed : p.newStrategy \in Strategies /\ p.nonce \in Nat
                       /\ p.minAmountOut \in Nat
  /\ pc \in {"idle", "decrypt", "decode", "apys", "nonce", "report"}
  /\ browser \in {"idle", "waiting", "failed", "undecodable", "ready"}

\* No vault accepts the result any more, now or later: nonces only grow.
Spent(p) == \A v \in Vaults : p.newStrategy \in Approved(v) => p.nonce < rebalanceNonce[v]

\* A signed payload names no vault, one TEE serves them all, and anybody may have
\* asked for it in the name of any vault or of none.  Still a vault migrates only
\* on a result for its own nonce, and that result is then spent at every vault:
\* it moves no second one, and not the same one again.
ResultsSpent ==
  [][\A v \in Vaults : rebalanceNonce'[v] # rebalanceNonce[v] =>
       \E p \in signed : /\ p.newStrategy = activeStrategy'[v]
                         /\ p.nonce = rebalanceNonce[v]
                         /\ Spent(p)']_vars

\* A strategy a vault has left holds nothing that would still belong to its
\* holders: the adapters of Enosys, Kinetic and FTSO are empty, and SparkDEX has
\* no LP token left, whatever prices, venues and the adapters' owners did before.
\* Two things the code does leave behind are excepted: what addLiquidity did not
\* take, and rewards FTSO's owner claims for a strategy already left.
LeftStrategiesEmpty ==
  \A s \in Strategies : activeStrategy[VaultOf[s]] # s =>
    /\ books[s].lp = 0
    /\ books[s].kind # "sparkdex" =>
         books[s].held = 0 /\ (books[s].paired = 0 \/ s \in rewarded)

\* A vault whose active strategy has become empty cannot leave it, neither by a
\* rebalance nor by forceWithdrawAll: the adapters refuse withdrawAll without a
\* position, and only a rebalance (or a reward, for FTSO) gives them one.
EmptyPositionIsFinal ==
  [][\A v \in Vaults :
       activeStrategy[v] # NoStrategy
         /\ HoldsNothing(books[activeStrategy[v]])
       => activeStrategy'[v] = activeStrategy[v]]_vars

\* The page always learns the outcome of its request: however many jobs are
\* queued before it and whatever fails, the queue comes to it, or the
\* connection breaks.
BrowserHears == (browser = "waiting") ~> (browser # "waiting")

\* Docs.tsx:734: "Users always retain the ability to redeem their ERC-4626
\* shares for underlying assets."  Asked only of vaults whose venue answers and
\* whose strategy is not paused, and only that some shares can be redeemed.
UsersCanRedeem ==
  \A v \in Vaults :
    /\ supply[v] > 0
    /\ Active(v) # NoStrategy => venue[Active(v)].up /\ ~books[Active(v)].paused
    =>
      \E x \in 1 .. supply[v] : ExitsFor(v, x) # {}
==============================================================================
