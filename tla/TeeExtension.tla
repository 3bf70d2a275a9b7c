----------------------------- MODULE TeeExtension -----------------------------
(***************************************************************************)
(* The TEE extension: its HTTP server, which runs one handler at a time,   *)
(* the two handlers with their awaits, and the callers that wait for an    *)
(* answer: the tee-node with an instruction of the chain, the deposit page *)
(* through fceClient.ts, and anybody who asks for APYs or for the state.   *)
(*                                                                         *)
(* A payload carries the fields the handler encodes, by name.  Its         *)
(* deadline and TWAP window are fixed distances from the time of signing,  *)
(* modelled with the clock in ParentVault.                                 *)
(***************************************************************************)
EXTENDS Integers, Sequences

CONSTANTS
  Vaults, Strategies,
  Elsewhere,           \* any address that is no vault, as a request may name it
  NoStrategy,          \* "" and address(0)
  Score,               \* estimatedAPY * confidence of a strategy
  MaxBps,              \* 10_000, scaled down in the runs
  ToleranceBps,        \* SLIPPAGE_TOLERANCE_BPS
  MinRebalanceAmount,  \* MIN_REBALANCE_AMOUNT
  MaxQueue             \* bound: requests waiting at the server

ASSUME TeeAssumption ==
  /\ NoStrategy \notin Strategies /\ Elsewhere \notin Vaults
  /\ MaxBps \in Nat \ {0} /\ ToleranceBps \in 0 .. MaxBps
  /\ MinRebalanceAmount \in Nat

VARIABLES
  queue,     \* requests the server accepted; the first is being handled
  pc,        \* where the handler of Head(queue) is
  apys,      \* strategies whose totalValue() it could read
  browser    \* what the deposit page last heard from the extension

teeVars == <<queue, pc, apys, browser>>

Requests ==
  [vault : Vaults \cup {Elsewhere}, idleAssets : Nat, strategies : SUBSET Strategies,
   liquidityBufferBps : 0 .. MaxBps]

TeeInit ==
  /\ queue = <<>> /\ pc = "idle" /\ apys = {}
  /\ browser = "idle"

(***************************************************************************)
(* server.ts.                                                              *)
(***************************************************************************)

\* processAction and processState: what passes the checks joins the queue.  A
\* sealed message is ciphertext that only the tee-node can open.
Post(caller, op, request, sealed) ==
  /\ Len(queue) < MaxQueue
  /\ queue' = Append(queue, [caller |-> caller, op |-> op, request |-> request,
                             sealed |-> sealed])

\* serialize: the next job starts when the one before it has settled.
Start ==
  /\ pc = "idle" /\ queue # <<>>
  /\ pc' = IF Head(queue).op = "STATE" THEN "report"
           ELSE IF Head(queue).sealed THEN "decrypt" ELSE "decode"
  /\ UNCHANGED <<queue, apys, browser>>

\* The answer of the extension to the job at hand, a status and its data; the
\* browser is told what fceClient.ts makes of it.
PayloadFields ==
  {"newStrategy", "minAmountOut", "nonce", "deadline", "twapStart", "twapEnd",
   "strategyDataHash"}

\* decodeRebalancePayload expects the signature of the tee-node as well.
ClientFields == PayloadFields \cup {"signature"}

\* requestSignedRebalance: the status, then decodeRebalancePayload.
Received(status, fields) ==
  IF status # 1 THEN "failed"
  ELSE IF ClientFields \subseteq fields THEN "ready" ELSE "undecodable"

Answer(status, fields) ==
  /\ queue' = Tail(queue) /\ pc' = "idle" /\ apys' = {}
  /\ browser' = IF Head(queue).caller = "browser" THEN Received(status, fields)
                ELSE browser

Fail == Answer(0, {})

(***************************************************************************)
(* handlers.ts.                                                            *)
(***************************************************************************)
Job == Head(queue)

\* decryptMessage by the tee-node: it answers, rejects, or the client's 30 s
\* run out.
Decrypt ==
  /\ pc = "decrypt"
  /\ \/ pc' = "decode" /\ UNCHANGED <<queue, apys, browser>>
     \/ Fail

\* Decoding and validation of handleCalculateOptimal.  Mutant: the handler
\* returns without an answer.
ValidateSilently ==
  /\ pc = "decode"
  /\ IF Job.op = "CALCULATE_OPTIMAL" =>
          Job.request.idleAssets >= MinRebalanceAmount /\ Job.request.strategies # {}
     THEN pc' = "apys" /\ UNCHANGED <<queue, apys, browser>>
     ELSE pc' = "idle" /\ queue' = Tail(queue) /\ UNCHANGED <<apys, browser>>

Validate ==
  /\ pc = "decode"
  /\ IF Job.op = "CALCULATE_OPTIMAL" =>
          Job.request.idleAssets >= MinRebalanceAmount /\ Job.request.strategies # {}
     THEN pc' = "apys" /\ UNCHANGED <<queue, apys, browser>>
     ELSE Fail

\* calculateStrategyAPYs: only strategies that answer are rated.  `reverting`
\* are those whose totalValue() cannot be read at all.
ReadApys(reverting) ==
  /\ pc = "apys"
  /\ \E readable \in SUBSET (Job.request.strategies \ reverting) :
       IF readable = {} THEN Fail
       ELSE IF Job.op = "GET_APYS" THEN Answer(1, {"apys"})
       ELSE pc' = "nonce" /\ apys' = readable /\ UNCHANGED <<queue, browser>>

\* The strategies selectOptimalStrategy may return; among equal scores it
\* returns the first one requested.
selectOptimalStrategy(rated) ==
  {s \in rated : \A r \in rated : Score[r] <= Score[s]}

Deployable(assets, bufferBps) == (assets * (MaxBps - bufferBps)) \div MaxBps

PayloadOf(request, s, nonce) ==
  [newStrategy |-> s, nonce |-> nonce,
   minAmountOut |->
     Deployable(Deployable(request.idleAssets, request.liquidityBufferBps), ToleranceBps)]

\* The nonce is read, or 0 stands for it when the read fails; the payload is
\* returned, and the counters handlers.ts keeps for its report are left out.
Finish(s, nonce) ==
  /\ pc = "nonce"
  /\ s \in selectOptimalStrategy(apys)
  /\ Answer(1, PayloadFields)

\* reportState.
Report ==
  /\ pc = "report"
  /\ Answer(1, {"state"})

\* The container restarts: every open request is gone.
RestartExtension ==
  /\ queue' = <<>> /\ pc' = "idle" /\ apys' = {}
  /\ browser' = IF browser = "waiting" THEN "failed" ELSE browser
==============================================================================
