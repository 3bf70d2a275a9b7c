-------------------------- MODULE DirectMint_proofs --------------------------
(***************************************************************************)
(* Proofs about DirectMint, for any adapters, users, executors, tags and   *)
(* deposit ids.  IInv is the inductive invariant: the safety invariants    *)
(* of DirectMint are not inductive one by one, because a settlement reads  *)
(* the adapter's record and the vault's queue together.                    *)
(***************************************************************************)
EXTENDS DirectMint, FiniteSums_proofs, TLAPS

\* A tag some adapter credits a user for was reserved by that adapter, so a
\* fresh reservation never changes the user of a pending direct mint.
TagOwner ==
  \A a \in Adapters, t \in Tags : tagUser[a][t] # None => mintingRecipient[t] = a

IInv ==
  /\ TypeOK
  /\ Solvent
  /\ TagOwner
  /\ TagMatchesMint
  /\ QueueAgrees
  /\ SettledIsClosed

(***************************************************************************)
(* Facts about the records of pending direct mints.                        *)
(***************************************************************************)
\* A record is a pending mint exactly when it has a receiver, which is how
\* settleDirectMint tells an unknown deposit.
LEMMA MintHasReceiver ==
  ASSUME NEW m \in Mints \cup {NoMint}
  PROVE  /\ m # NoMint <=> m.receiver # None
         /\ m # NoMint <=> m \in Mints
BY NoneAssumption DEF Mints, NoMint

(***************************************************************************)
(* Type correctness.                                                       *)
(***************************************************************************)
LEMMA InitType == Init => TypeOK
<1> SUFFICES ASSUME Init PROVE TypeOK
  OBVIOUS
<1>1. /\ mintingRecipient \in [Tags -> Adapters \cup {None}]
      /\ allowedExecutor \in [Tags -> Executors \cup {None}]
      /\ scheduledExecutor \in [Tags -> Executors \cup {None}]
      /\ tagUser \in [Adapters -> [Tags -> Users \cup {None}]]
      /\ tagExecutor \in [Adapters -> [Tags -> Executors \cup {None}]]
      /\ defaultDirectMintExecutor \in [Adapters -> Executors]
  BY DEF Init
<1>2. /\ pendingDepositForTag \in [Adapters -> [Tags -> DepositIds \cup {None}]]
      /\ pendingDirectMints \in [Adapters -> [DepositIds -> Mints \cup {NoMint}]]
      /\ processedDirectMints \in [Adapters -> SUBSET DepositIds]
      /\ totalPendingFAssets \in [Adapters -> Nat]
  BY DEF Init
<1>3. /\ balance \in [Adapters \cup {Vault} -> Nat]
      /\ supply \in 0 .. MaxSupply
      /\ credited \in [Users -> Nat]
  BY SupplyAssumption DEF Init
<1>4. /\ pausedAdapters \subseteq Adapters
      /\ fAssetAdapter \in Adapters \cup {None}
      /\ pendingDepositReceiver \in [DepositIds -> Users \cup {None}]
      /\ settledFAssetDeposits \subseteq DepositIds
      /\ vaultPaused \in BOOLEAN
  BY DEF Init
<1>5. QED
  BY <1>1, <1>2, <1>3, <1>4 DEF TypeOK

\* Recording a direct mint keeps the types: the unallocated balance is a
\* positive amount.
LEMMA ProcessType ==
  ASSUME TypeOK,
         NEW a \in Adapters, NEW e \in Executors, NEW t \in Tags,
         NEW d \in DepositIds, NEW x \in 1 .. MaxSupply,
         processDirectMint(a, e, t, d, x)
  PROVE  TypeOK'
<1> DEFINE m == [receiver |-> tagUser[a][t], tag |-> t, assets |-> Unallocated(a)]
<1>1. Unallocated(a) \in Nat \ {0}
  BY VaultAssumption DEF TypeOK, processDirectMint, recordDirectMint, Unallocated
<1>2. tagUser[a][t] \in Users
  BY DEF TypeOK, processDirectMint, recordDirectMint
<1>3. m \in Mints
  BY <1>1, <1>2 DEF Mints
<1> HIDE DEF m
<1>4. pendingDirectMints' = [pendingDirectMints EXCEPT ![a][d] = m]
  BY DEF processDirectMint, recordDirectMint, m
<1>5. pendingDirectMints' \in [Adapters -> [DepositIds -> Mints \cup {NoMint}]]
  BY <1>3, <1>4 DEF TypeOK
<1>6. totalPendingFAssets' \in [Adapters -> Nat]
  BY <1>1 DEF TypeOK, processDirectMint, recordDirectMint
<1>7. pendingDepositReceiver' \in [DepositIds -> Users \cup {None}]
  BY <1>2 DEF TypeOK, processDirectMint, recordDirectMint, queueFAssetDeposit
<1>8. /\ pendingDepositForTag' \in [Adapters -> [Tags -> DepositIds \cup {None}]]
      /\ processedDirectMints' \in [Adapters -> SUBSET DepositIds]
  BY DEF TypeOK, processDirectMint, recordDirectMint
<1>9. QED
  BY <1>5, <1>6, <1>7, <1>8
  DEF TypeOK, processDirectMint, recordDirectMint, queueFAssetDeposit, managerVars, tagVars,
      tokenVars, adminVars

\* Settling keeps the types: neither subtraction goes below zero.
LEMMA SettleType ==
  ASSUME TypeOK, NEW a \in Adapters, NEW d \in DepositIds, settleDirectMint(a, d)
  PROVE  TypeOK'
<1> DEFINE m == pendingDirectMints[a][d]
<1>1. m \in Mints
  BY MintHasReceiver DEF TypeOK, settleDirectMint, releaseDirectMint
<1>2. m.assets \in Nat /\ m.tag \in Tags
  BY <1>1 DEF Mints
<1>3. pendingDirectMints' \in [Adapters -> [DepositIds -> Mints \cup {NoMint}]]
  BY DEF TypeOK, settleDirectMint, releaseDirectMint
<1>4. pendingDepositForTag' \in [Adapters -> [Tags -> DepositIds \cup {None}]]
  BY <1>2 DEF TypeOK, settleDirectMint, releaseDirectMint
<1>5. totalPendingFAssets' \in [Adapters -> Nat]
  BY <1>2 DEF TypeOK, settleDirectMint, releaseDirectMint
<1>6. balance' \in [Adapters \cup {Vault} -> Nat]
  BY <1>2, VaultAssumption DEF TypeOK, settleDirectMint, releaseDirectMint, settleFAssetDeposit
<1>7. /\ pendingDepositReceiver' \in [DepositIds -> Users \cup {None}]
      /\ settledFAssetDeposits' \subseteq DepositIds
  BY DEF TypeOK, settleDirectMint, releaseDirectMint, settleFAssetDeposit
<1>8. credited' \in [Users -> Nat]
  BY <1>2 DEF TypeOK, settleDirectMint, releaseDirectMint, settleFAssetDeposit
<1>9. QED
  BY <1>3, <1>4, <1>5, <1>6, <1>7, <1>8
  DEF TypeOK, settleDirectMint, releaseDirectMint, managerVars, tagVars, adminVars

\* No step leaves the types.
LEMMA TypeStep == TypeOK /\ [Next]_vars => TypeOK'
<1> SUFFICES ASSUME TypeOK, [Next]_vars PROVE TypeOK'
  OBVIOUS
<1> USE DEF managerVars, tagVars, mintVars, tokenVars, queueVars, adminVars
<1>1. ASSUME NEW a \in Adapters, NEW u \in Users, NEW t \in Tags,
             registerMintingTag(a, u, t)
      PROVE  TypeOK'
  <2>1. defaultDirectMintExecutor[a] \in Executors
    BY DEF TypeOK
  <2>2. /\ mintingRecipient' \in [Tags -> Adapters \cup {None}]
        /\ scheduledExecutor' \in [Tags -> Executors \cup {None}]
        /\ tagUser' \in [Adapters -> [Tags -> Users \cup {None}]]
        /\ tagExecutor' \in [Adapters -> [Tags -> Executors \cup {None}]]
    BY <1>1, <2>1 DEF TypeOK, registerMintingTag
  <2>3. QED
    BY <1>1, <2>2 DEF TypeOK, registerMintingTag
<1>2. ASSUME NEW a \in Adapters, NEW e \in Executors, NEW t \in Tags,
             NEW d \in DepositIds, NEW x \in 1 .. MaxSupply,
             processDirectMint(a, e, t, d, x)
      PROVE  TypeOK'
  BY <1>2, ProcessType
<1>3. ASSUME NEW a \in Adapters, NEW d \in DepositIds, settleDirectMint(a, d)
      PROVE  TypeOK'
  BY <1>3, SettleType
<1>4. ASSUME NEW a \in Adapters, NEW u \in Users, NEW t \in Tags,
             NEW e \in Executors, setTagExecutor(a, u, t, e)
      PROVE  TypeOK'
  BY <1>4 DEF TypeOK, setTagExecutor
<1>5. ASSUME NEW t \in Tags, ExecutorCooldownElapses(t)
      PROVE  TypeOK'
  BY <1>5 DEF TypeOK, ExecutorCooldownElapses
<1>6. ASSUME NEW a \in Adapters, NEW x \in 1 .. MaxSupply, FAssetsArrive(a, x)
      PROVE  TypeOK'
  BY <1>6, SupplyAssumption DEF TypeOK, FAssetsArrive
<1>7. CASE Administration
  BY <1>7
  DEF TypeOK, Administration, pauseAdapter, unpauseAdapter, pauseVault,
      unpauseVault, setFAssetAdapter, setDefaultDirectMintExecutor
<1>8. CASE UNCHANGED vars
  BY <1>8 DEF TypeOK, vars
<1>9. QED
  BY <1>1, <1>2, <1>3, <1>4, <1>5, <1>6, <1>7, <1>8 DEF Next

\* The bridge never leaves its types, for any set of adapters and users.
THEOREM TypeCorrect == Spec => []TypeOK
BY InitType, TypeStep, PTL DEF Spec

(***************************************************************************)
(* Preservation of IInv.  Only four actions touch what it reads.           *)
(***************************************************************************)
\* Anything that leaves mints, queue and tag users alone and takes no FAssets
\* from an adapter keeps the invariant.
LEMMA FrameStep ==
  ASSUME IInv, TypeOK',
         UNCHANGED <<mintVars, queueVars, tagUser, mintingRecipient>>,
         \A a \in Adapters : balance'[a] >= balance[a]
  PROVE  IInv'
<1> USE DEF mintVars, queueVars
<1>1. Solvent'
  BY DEF IInv, TypeOK, Solvent
<1>2. TagOwner' /\ TagMatchesMint' /\ QueueAgrees' /\ SettledIsClosed'
  BY DEF IInv, TagOwner, TagMatchesMint, QueueAgrees, SettledIsClosed, Pending
<1>3. QED
  BY <1>1, <1>2 DEF IInv

\* A registered tag is a fresh one, so no pending mint has it.
LEMMA RegisterStep ==
  ASSUME IInv, TypeOK', NEW a \in Adapters, NEW u \in Users, NEW t \in Tags,
         registerMintingTag(a, u, t)
  PROVE  IInv'
<1> USE DEF mintVars, queueVars, tokenVars
<1>1. \A b \in Adapters : tagUser[b][t] = None
  BY NoneAssumption DEF IInv, TagOwner, registerMintingTag
<1>2. TagOwner'
  BY <1>1 DEF IInv, TypeOK, TagOwner, registerMintingTag
<1>3. \A b \in Adapters, d \in DepositIds :
        Pending(b, d) => /\ pendingDirectMints[b][d].tag \in Tags \ {t}
                         /\ pendingDirectMints[b][d].receiver \in Users
  <2> SUFFICES ASSUME NEW b \in Adapters, NEW d \in DepositIds, Pending(b, d)
               PROVE  /\ pendingDirectMints[b][d].tag \in Tags \ {t}
                      /\ pendingDirectMints[b][d].receiver \in Users
    OBVIOUS
  <2>1. pendingDirectMints[b][d] \in Mints
    BY MintHasReceiver DEF IInv, TypeOK, Pending
  <2>2. pendingDirectMints[b][d].receiver # None
    BY <2>1, NoneAssumption DEF Mints
  <2>3. QED
    BY <1>1, <2>1, <2>2 DEF IInv, TagMatchesMint, Mints
<1>4. TagMatchesMint'
  <2>1. \A b \in Adapters, s \in Tags \ {t} : tagUser'[b][s] = tagUser[b][s]
    BY DEF IInv, TypeOK, registerMintingTag
  <2>2. \A b \in Adapters, d \in DepositIds : Pending(b, d) =>
          pendingDirectMints[b][d].receiver
            = tagUser'[b][pendingDirectMints[b][d].tag]
    BY <1>3, <2>1 DEF IInv, TagMatchesMint
  <2>3. QED
    BY <2>2 DEF IInv, TagMatchesMint, Pending, registerMintingTag
<1>5. Solvent' /\ QueueAgrees' /\ SettledIsClosed'
  BY DEF IInv, Solvent, QueueAgrees, SettledIsClosed, Pending, registerMintingTag
<1>6. QED
  BY <1>2, <1>4, <1>5 DEF IInv

\* Recording a direct mint opens it in the adapter and in the vault at once.
LEMMA ProcessStep ==
  ASSUME IInv, TypeOK',
         NEW a \in Adapters, NEW e \in Executors, NEW t \in Tags,
         NEW d \in DepositIds, NEW x \in 1 .. MaxSupply,
         processDirectMint(a, e, t, d, x)
  PROVE  IInv'
<1> USE DEF managerVars, tagVars, tokenVars, adminVars
<1> DEFINE m == [receiver |-> tagUser[a][t], tag |-> t, assets |-> Unallocated(a)]
<1>1. /\ pendingDirectMints' = [pendingDirectMints EXCEPT ![a][d] = m]
      /\ pendingDepositReceiver' = [pendingDepositReceiver EXCEPT ![d] = m.receiver]
      /\ m.receiver = tagUser[a][t] /\ m.tag = t
      /\ m # NoMint
  BY DEF processDirectMint, recordDirectMint, queueFAssetDeposit, NoMint
<1> HIDE DEF m
<1>2. /\ pendingDirectMints'[a][d] = m
      /\ \A b \in Adapters, c \in DepositIds :
           (b # a \/ c # d) => pendingDirectMints'[b][c] = pendingDirectMints[b][c]
      /\ pendingDepositReceiver'[d] = m.receiver
      /\ \A c \in DepositIds \ {d} :
           pendingDepositReceiver'[c] = pendingDepositReceiver[c]
  BY <1>1 DEF IInv, TypeOK
<1>3. \A b \in Adapters : ~Pending(b, d)
  <2> SUFFICES ASSUME NEW b \in Adapters, Pending(b, d) PROVE FALSE
    OBVIOUS
  <2>1. pendingDirectMints[b][d].receiver # None
    BY MintHasReceiver DEF IInv, TypeOK, Pending
  <2>2. QED
    BY <2>1 DEF IInv, QueueAgrees, processDirectMint, recordDirectMint, queueFAssetDeposit
<1>4. \A b \in Adapters, c \in DepositIds :
        Pending(b, c)' <=> Pending(b, c) \/ (b = a /\ c = d)
  BY <1>1, <1>2 DEF Pending
<1>5. Solvent'
  BY DEF IInv, TypeOK, Solvent, processDirectMint, recordDirectMint, Unallocated
<1>6. TagOwner'
  BY DEF IInv, TagOwner, processDirectMint, recordDirectMint
<1>7. TagMatchesMint'
  <2>1. /\ pendingDepositForTag'[a][t] = d
        /\ \A b \in Adapters, s \in Tags : (b # a \/ s # t) =>
             pendingDepositForTag'[b][s] = pendingDepositForTag[b][s]
        /\ pendingDepositForTag[a][t] = None
        /\ tagUser' = tagUser
    BY DEF IInv, TypeOK, processDirectMint, recordDirectMint
  <2>2. \A c \in DepositIds : ~(Pending(a, c) /\ pendingDirectMints[a][c].tag = t)
    BY <2>1, NoneAssumption DEF IInv, TagMatchesMint
  <2>3. ASSUME NEW b \in Adapters, NEW s \in Tags, NEW c \in DepositIds
        PROVE  pendingDepositForTag'[b][s] = c <=>
                 Pending(b, c)' /\ pendingDirectMints'[b][c].tag = s
    BY <1>1, <1>2, <1>3, <1>4, <2>1, <2>2 DEF IInv, TagMatchesMint
  <2>4. ASSUME NEW b \in Adapters, NEW c \in DepositIds, Pending(b, c)'
        PROVE  pendingDirectMints'[b][c].receiver
                 = tagUser'[b][pendingDirectMints'[b][c].tag]
    BY <1>1, <1>2, <1>3, <1>4, <2>1, <2>4 DEF IInv, TagMatchesMint
  <2>5. QED
    BY <2>3, <2>4 DEF TagMatchesMint
<1>8. QueueAgrees'
  BY <1>1, <1>2, <1>3, <1>4 DEF IInv, QueueAgrees
<1>9. SettledIsClosed'
  <2>1. d \notin settledFAssetDeposits /\ settledFAssetDeposits' = settledFAssetDeposits
    BY DEF processDirectMint, recordDirectMint, queueFAssetDeposit
  <2>2. QED
    BY <1>2, <1>4, <2>1 DEF IInv, TypeOK, SettledIsClosed
<1>10. QED
  BY <1>5, <1>6, <1>7, <1>8, <1>9 DEF IInv

\* Settling closes it in both.
LEMMA SettleStep ==
  ASSUME IInv, TypeOK',
         NEW a \in Adapters, NEW d \in DepositIds, settleDirectMint(a, d)
  PROVE  IInv'
<1> USE DEF managerVars, tagVars, adminVars
<1> DEFINE m == pendingDirectMints[a][d]
<1>1. m \in Mints /\ Pending(a, d)
  BY MintHasReceiver DEF IInv, TypeOK, settleDirectMint, releaseDirectMint, Pending
<1>2. /\ pendingDirectMints'[a][d] = NoMint
      /\ \A b \in Adapters, c \in DepositIds :
           (b # a \/ c # d) => pendingDirectMints'[b][c] = pendingDirectMints[b][c]
      /\ pendingDepositReceiver'[d] = None
      /\ \A c \in DepositIds \ {d} :
           pendingDepositReceiver'[c] = pendingDepositReceiver[c]
  BY DEF IInv, TypeOK, settleDirectMint, releaseDirectMint, settleFAssetDeposit
<1>3. \A b \in Adapters, c \in DepositIds :
        Pending(b, c)' <=> Pending(b, c) /\ ~(b = a /\ c = d)
  BY <1>2 DEF Pending
<1>4. \A b \in Adapters : ~Pending(b, d)'
  BY <1>1, <1>3 DEF IInv, QueueAgrees
<1>5. Solvent'
  BY <1>1, VaultAssumption
  DEF IInv, TypeOK, Solvent, Mints, settleDirectMint, releaseDirectMint, settleFAssetDeposit
<1>6. TagOwner'
  BY DEF IInv, TagOwner, settleDirectMint, releaseDirectMint
<1>7. TagMatchesMint'
  <2>1. /\ m.tag \in Tags
        /\ pendingDepositForTag[a][m.tag] = d
        /\ pendingDepositForTag'[a][m.tag] = None
        /\ \A b \in Adapters, s \in Tags : (b # a \/ s # m.tag) =>
             pendingDepositForTag'[b][s] = pendingDepositForTag[b][s]
        /\ tagUser' = tagUser
    BY <1>1 DEF IInv, TypeOK, TagMatchesMint, Mints, settleDirectMint, releaseDirectMint
  <2>2. ASSUME NEW b \in Adapters, NEW s \in Tags, NEW c \in DepositIds
        PROVE  pendingDepositForTag'[b][s] = c <=>
                 Pending(b, c)' /\ pendingDirectMints'[b][c].tag = s
    <3>1. CASE b = a /\ s = m.tag
      BY <1>2, <1>3, <2>1, <3>1, NoneAssumption DEF IInv, TagMatchesMint
    <3>2. CASE ~(b = a /\ s = m.tag)
      BY <1>2, <1>3, <2>1, <3>2 DEF IInv, TagMatchesMint
    <3>3. QED
      BY <3>1, <3>2
  <2>3. ASSUME NEW b \in Adapters, NEW c \in DepositIds, Pending(b, c)'
        PROVE  pendingDirectMints'[b][c].receiver
                 = tagUser'[b][pendingDirectMints'[b][c].tag]
    BY <1>2, <1>3, <2>1, <2>3 DEF IInv, TagMatchesMint
  <2>4. QED
    BY <2>2, <2>3 DEF TagMatchesMint
<1>8. QueueAgrees'
  BY <1>2, <1>3, <1>4 DEF IInv, QueueAgrees
<1>9. SettledIsClosed'
  <2>1. settledFAssetDeposits' = settledFAssetDeposits \cup {d}
    BY DEF settleDirectMint, releaseDirectMint, settleFAssetDeposit
  <2>2. QED
    BY <1>2, <1>3, <1>4, <2>1 DEF IInv, TypeOK, SettledIsClosed
<1>10. QED
  BY <1>5, <1>6, <1>7, <1>8, <1>9 DEF IInv

\* Nothing is recorded before the first direct mint.
LEMMA InitInv == Init => IInv
<1> SUFFICES ASSUME Init PROVE IInv
  OBVIOUS
<1>1. TypeOK
  BY InitType
<1>2. Solvent
  BY DEF Init, Solvent
<1>3. TagOwner /\ TagMatchesMint /\ QueueAgrees /\ SettledIsClosed
  BY NoneAssumption
  DEF Init, TagOwner, TagMatchesMint, QueueAgrees, SettledIsClosed, Pending
<1>4. QED
  BY <1>1, <1>2, <1>3 DEF IInv

\* Every step preserves the invariant.
LEMMA InvStep == IInv /\ [Next]_vars => IInv'
<1> SUFFICES ASSUME IInv, [Next]_vars PROVE IInv'
  OBVIOUS
<1>0. TypeOK /\ TypeOK'
  BY TypeStep DEF IInv
<1>1. ASSUME NEW a \in Adapters, NEW u \in Users, NEW t \in Tags,
             registerMintingTag(a, u, t)
      PROVE  IInv'
  BY <1>0, <1>1, RegisterStep
<1>2. ASSUME NEW a \in Adapters, NEW e \in Executors, NEW t \in Tags,
             NEW d \in DepositIds, NEW x \in 1 .. MaxSupply,
             processDirectMint(a, e, t, d, x)
      PROVE  IInv'
  BY <1>0, <1>2, ProcessStep
<1>3. ASSUME NEW a \in Adapters, NEW d \in DepositIds, settleDirectMint(a, d)
      PROVE  IInv'
  BY <1>0, <1>3, SettleStep
<1>4. ASSUME NEW a \in Adapters, NEW u \in Users, NEW t \in Tags,
             NEW e \in Executors, setTagExecutor(a, u, t, e)
      PROVE  IInv'
  BY <1>0, <1>4, FrameStep DEF TypeOK, setTagExecutor, tokenVars
<1>5. ASSUME NEW t \in Tags, ExecutorCooldownElapses(t)
      PROVE  IInv'
  BY <1>0, <1>5, FrameStep DEF TypeOK, ExecutorCooldownElapses, tokenVars, tagVars
<1>6. ASSUME NEW a \in Adapters, NEW x \in 1 .. MaxSupply, FAssetsArrive(a, x)
      PROVE  IInv'
  <2>1. \A b \in Adapters : balance'[b] >= balance[b]
    BY <1>0, <1>6 DEF TypeOK, FAssetsArrive
  <2>2. QED
    BY <1>0, <1>6, <2>1, FrameStep DEF FAssetsArrive, tagVars, managerVars
<1>7. CASE Administration
  BY <1>0, <1>7, FrameStep
  DEF TypeOK, tokenVars, tagVars, managerVars, Administration, pauseAdapter,
      unpauseAdapter, pauseVault, unpauseVault, setFAssetAdapter,
      setDefaultDirectMintExecutor
<1>8. CASE UNCHANGED vars
  BY <1>0, <1>8, FrameStep DEF TypeOK, vars, tokenVars, tagVars, managerVars
<1>9. QED
  BY <1>1, <1>2, <1>3, <1>4, <1>5, <1>6, <1>7, <1>8 DEF Next

\* The inductive invariant holds in every reachable state.
LEMMA Invariance == Spec => []IInv
BY InitInv, InvStep, PTL DEF Spec

\* An adapter always holds what it owes: for any number of adapters, tags and
\* deposits, no mint, dust, record or settlement makes it insolvent.
THEOREM AdapterSolvency == Spec => []Solvent
<1>1. IInv => Solvent
  BY DEF IInv
<1>2. QED
  BY <1>1, Invariance, PTL

\* The tag index and the deposit records of an adapter never disagree.
THEOREM TagConsistency == Spec => []TagMatchesMint
<1>1. IInv => TagMatchesMint
  BY DEF IInv
<1>2. QED
  BY <1>1, Invariance, PTL

\* The vault's queue and the adapters' records describe the same deposits, so
\* a settlement never fails with UnknownPendingDeposit, even after the vault
\* was pointed at another adapter and back.
THEOREM QueueConsistency == Spec => []QueueAgrees
<1>1. IInv => QueueAgrees
  BY DEF IInv
<1>2. QED
  BY <1>1, Invariance, PTL

\* A settled deposit stays closed, at every adapter and in the vault.
THEOREM SettledOnce == Spec => []SettledIsClosed
<1>1. IInv => SettledIsClosed
  BY DEF IInv
<1>2. QED
  BY <1>1, Invariance, PTL

(***************************************************************************)
(* The running total of the pending direct mints.                          *)
(***************************************************************************)
\* What adapter a owes for each deposit id.
Owed(a) == [d \in DepositIds |-> pendingDirectMints[a][d].assets]

\* PendingTotal in terms of FiniteSums_proofs, now and after a step.
LEMMA AssetsAreSummed ==
  ASSUME NEW mints
  PROVE  SumOfAssets(mints) = SumOver([d \in DepositIds |-> mints[d].assets], DepositIds)
BY Zenon DEF SumOfAssets, MapThenSumSet, MapThenFoldSet, SumOver

LEMMA PendingTotalIsSum ==
  /\ PendingTotal <=>
       \A a \in Adapters : totalPendingFAssets[a] = SumOver(Owed(a), DepositIds)
  /\ PendingTotal' <=>
       \A a \in Adapters : totalPendingFAssets'[a] = SumOver(Owed(a)', DepositIds)
BY AssetsAreSummed DEF PendingTotal, Owed

\* Every record owes a natural number, an empty one nothing.
LEMMA OwedType ==
  ASSUME TypeOK, NEW a \in Adapters
  PROVE  \A d \in DepositIds : Owed(a)[d] \in Nat
BY DEF TypeOK, Owed, Mints, NoMint

\* A step that rewrites the record of one deposit moves the sum by the
\* difference of the two records.
LEMMA OneRecordMoves ==
  ASSUME TypeOK, TypeOK', NEW a \in Adapters, NEW d \in DepositIds,
         \A b \in Adapters, c \in DepositIds : (b # a \/ c # d) =>
           pendingDirectMints'[b][c] = pendingDirectMints[b][c]
  PROVE  /\ SumOver(Owed(a)', DepositIds) = SumOver(Owed(a), DepositIds)
              - pendingDirectMints[a][d].assets + pendingDirectMints'[a][d].assets
         /\ \A b \in Adapters \ {a} :
              SumOver(Owed(b)', DepositIds) = SumOver(Owed(b), DepositIds)
<1>1. \A b \in Adapters, c \in DepositIds : Owed(b)[c] \in Nat /\ Owed(b)'[c] \in Nat
  <2>1. \A b \in Adapters, c \in DepositIds : Owed(b)'[c] \in Nat
    BY DEF TypeOK, Owed, Mints, NoMint
  <2>2. QED
    BY <2>1, OwedType
<1>2. /\ Owed(a)[d] = pendingDirectMints[a][d].assets
      /\ Owed(a)'[d] = pendingDirectMints'[a][d].assets
      /\ \A c \in DepositIds \ {d} : Owed(a)[c] = Owed(a)'[c]
      /\ \A b \in Adapters \ {a} : Owed(b)' = Owed(b)
  BY DEF Owed
<1>3. SumOver(Owed(a)', DepositIds) = SumOver(Owed(a), DepositIds) - Owed(a)[d] + Owed(a)'[d]
  BY <1>1, <1>2, DepositIdsAssumption, SumUpdate
<1>4. QED
  BY <1>2, <1>3

\* Every step keeps the total in line with the records.
LEMMA PendingTotalStep == IInv /\ IInv' /\ PendingTotal /\ [Next]_vars => PendingTotal'
<1> SUFFICES ASSUME IInv, IInv', PendingTotal, [Next]_vars PROVE PendingTotal'
  OBVIOUS
<1> USE DEF managerVars, tagVars, mintVars, tokenVars, queueVars, adminVars
<1>0. TypeOK /\ TypeOK'
  BY DEF IInv
<1>a. /\ \A a \in Adapters : totalPendingFAssets[a] = SumOver(Owed(a), DepositIds)
      /\ \A a \in Adapters : SumOver(Owed(a), DepositIds) \in Nat
  BY <1>0, PendingTotalIsSum, OwedType, SumType, DepositIdsAssumption
<1>b. (\A a \in Adapters : totalPendingFAssets'[a] = SumOver(Owed(a)', DepositIds))
        => PendingTotal'
  BY PendingTotalIsSum
<1>1. ASSUME NEW a \in Adapters, NEW e \in Executors, NEW t \in Tags,
             NEW d \in DepositIds, NEW x \in 1 .. MaxSupply,
             processDirectMint(a, e, t, d, x)
      PROVE  PendingTotal'
  <2>1. ~Pending(a, d)
    <3>1. Pending(a, d) => pendingDirectMints[a][d].receiver # None
      BY <1>0, MintHasReceiver DEF TypeOK, Pending
    <3>2. QED
      BY <1>1, <3>1
      DEF IInv, QueueAgrees, processDirectMint, recordDirectMint, queueFAssetDeposit
  <2>2. pendingDirectMints[a][d].assets = 0
    BY <2>1 DEF Pending, NoMint
  <2>3. /\ pendingDirectMints'[a][d].assets = Unallocated(a)
        /\ \A b \in Adapters, c \in DepositIds : (b # a \/ c # d) =>
             pendingDirectMints'[b][c] = pendingDirectMints[b][c]
        /\ totalPendingFAssets'[a] = totalPendingFAssets[a] + Unallocated(a)
        /\ \A b \in Adapters \ {a} : totalPendingFAssets'[b] = totalPendingFAssets[b]
    BY <1>0, <1>1 DEF TypeOK, processDirectMint, recordDirectMint
  <2>4. Unallocated(a) \in Nat
    BY <1>0, <1>1, VaultAssumption DEF TypeOK, processDirectMint, recordDirectMint, Unallocated
  <2>5. QED
    BY <1>0, <1>a, <1>b, <2>2, <2>3, <2>4, OneRecordMoves
<1>2. ASSUME NEW a \in Adapters, NEW d \in DepositIds, settleDirectMint(a, d)
      PROVE  PendingTotal'
  <2>1. /\ pendingDirectMints'[a][d].assets = 0
        /\ \A b \in Adapters, c \in DepositIds : (b # a \/ c # d) =>
             pendingDirectMints'[b][c] = pendingDirectMints[b][c]
        /\ totalPendingFAssets'[a] = totalPendingFAssets[a] - pendingDirectMints[a][d].assets
        /\ \A b \in Adapters \ {a} : totalPendingFAssets'[b] = totalPendingFAssets[b]
    BY <1>0, <1>2 DEF TypeOK, settleDirectMint, releaseDirectMint, NoMint
  <2>2. pendingDirectMints[a][d].assets \in Nat
    BY <1>0 DEF TypeOK, Mints, NoMint
  <2>3. QED
    BY <1>0, <1>a, <1>b, <2>1, <2>2, OneRecordMoves
<1>3. CASE UNCHANGED <<pendingDirectMints, totalPendingFAssets>>
  <2>1. \A a \in Adapters : Owed(a)' = Owed(a)
    BY <1>3 DEF Owed
  <2>2. QED
    BY <1>a, <1>b, <1>3, <2>1
<1>4. QED
  BY <1>1, <1>2, <1>3
  DEF Next, vars, registerMintingTag, setTagExecutor, ExecutorCooldownElapses,
      FAssetsArrive, Administration, pauseAdapter, unpauseAdapter, pauseVault,
      unpauseVault, setFAssetAdapter, setDefaultDirectMintExecutor

\* Nothing is owed at first.
LEMMA PendingTotalInit == Init => PendingTotal
<1> SUFFICES ASSUME Init PROVE PendingTotal
  OBVIOUS
<1>1. \A a \in Adapters, d \in DepositIds : Owed(a)[d] = 0
  BY DEF Init, Owed, NoMint
<1>2. \A a \in Adapters : SumOver(Owed(a), DepositIds) = 0
  BY <1>1, SumZero, DepositIdsAssumption
<1>3. QED
  BY <1>2, PendingTotalIsSum DEF Init

\* However many mints are recorded and settled, in any order and by anyone,
\* totalPendingFAssets is the sum over the mapping it summarises, a sum the
\* contract itself cannot compute.
THEOREM TotalIsSum == Spec => []PendingTotal
BY PendingTotalInit, PendingTotalStep, Invariance, PTL DEF Spec

(***************************************************************************)
(* Who a step credits.                                                     *)
(***************************************************************************)
\* What a settlement does to the credits, read off the adapter's own record.
LEMMA SettleCredits ==
  ASSUME IInv, NEW a \in Adapters, NEW d \in DepositIds, settleDirectMint(a, d)
  PROVE  /\ Pending(a, d)
         /\ pendingDirectMints[a][d] \in Mints
         /\ tagUser[a][pendingDirectMints[a][d].tag] = pendingDirectMints[a][d].receiver
         /\ credited' = [credited EXCEPT ![pendingDirectMints[a][d].receiver] =
                           @ + pendingDirectMints[a][d].assets]
         /\ settledFAssetDeposits' = settledFAssetDeposits \cup {d}
         /\ d \notin settledFAssetDeposits
<1>1. pendingDirectMints[a][d] \in Mints /\ Pending(a, d)
  BY MintHasReceiver DEF IInv, TypeOK, settleDirectMint, releaseDirectMint, Pending
<1>2. pendingDepositReceiver[d] = pendingDirectMints[a][d].receiver
  BY <1>1 DEF IInv, QueueAgrees
<1>3. QED
  BY <1>1, <1>2
  DEF IInv, TypeOK, TagMatchesMint, SettledIsClosed, settleDirectMint, releaseDirectMint,
      settleFAssetDeposit

\* The action of CreditsTagUser.
CreditStep ==
  \A u \in Users : credited'[u] # credited[u] =>
    \E a \in Adapters, d \in DepositIds :
      /\ Pending(a, d)
      /\ tagUser[a][pendingDirectMints[a][d].tag] = u
      /\ credited'[u] = credited[u] + pendingDirectMints[a][d].assets
      /\ d \in settledFAssetDeposits' \ settledFAssetDeposits

\* Whoever settles, and whatever adapter the vault pointed at meanwhile, the
\* credit goes to the user of the deposit's tag, in full, once.
THEOREM CreditGoesToTagUser == Spec => CreditsTagUser
<1>1. IInv /\ [Next]_vars => [CreditStep]_vars
  <2> SUFFICES ASSUME IInv, Next PROVE CreditStep
    OBVIOUS
  <2> USE DEF managerVars, tagVars, mintVars, tokenVars, queueVars, adminVars
  <2>1. ASSUME NEW a \in Adapters, NEW d \in DepositIds, settleDirectMint(a, d)
        PROVE  CreditStep
    <3> DEFINE m == pendingDirectMints[a][d]
    <3>1. /\ Pending(a, d) /\ m \in Mints
          /\ tagUser[a][m.tag] = m.receiver
          /\ credited' = [credited EXCEPT ![m.receiver] = @ + m.assets]
          /\ settledFAssetDeposits' = settledFAssetDeposits \cup {d}
          /\ d \notin settledFAssetDeposits
      BY <2>1, SettleCredits
    <3>2. credited \in [Users -> Nat]
      BY DEF IInv, TypeOK
    <3>3. QED
      BY <3>1, <3>2 DEF CreditStep
  <2>2. CASE UNCHANGED credited
    BY <2>2 DEF CreditStep
  <2>3. QED
    BY <2>1, <2>2
    DEF Next, registerMintingTag, processDirectMint, recordDirectMint, queueFAssetDeposit,
        setTagExecutor, ExecutorCooldownElapses, FAssetsArrive, Administration,
        pauseAdapter, unpauseAdapter, pauseVault, unpauseVault,
        setFAssetAdapter, setDefaultDirectMintExecutor
<1>2. QED
  BY <1>1, Invariance, PTL DEF Spec, CreditsTagUser, CreditStep

(***************************************************************************)
(* DirectMint implements DepositLedger.                                    *)
(***************************************************************************)
\* The claim of a deposit id under IInv: the one pending direct mint, if any.
LEMMA ClaimValue ==
  ASSUME QueueAgrees, NEW d \in DepositIds
  PROVE  /\ \A a \in Adapters : Pending(a, d) => ClaimOf(d) =
              [receiver |-> pendingDirectMints[a][d].receiver,
               assets |-> pendingDirectMints[a][d].assets]
         /\ (\A a \in Adapters : ~Pending(a, d)) => ClaimOf(d) = NoClaim
<1>1. ASSUME NEW a \in Adapters, Pending(a, d)
      PROVE  (CHOOSE b \in Adapters : Pending(b, d)) = a
  BY <1>1 DEF QueueAgrees
<1>2. QED
  BY <1>1 DEF ClaimOf

\* A step that leaves every adapter's record of a deposit alone leaves its claim.
LEMMA ClaimUnchanged ==
  ASSUME QueueAgrees, QueueAgrees', NEW d \in DepositIds,
         \A a \in Adapters : pendingDirectMints'[a][d] = pendingDirectMints[a][d]
  PROVE  ClaimOf(d)' = ClaimOf(d)
<1>1. \A a \in Adapters : Pending(a, d)' <=> Pending(a, d)
  BY DEF Pending
<1>2. CASE \E a \in Adapters : Pending(a, d)
  <2>1. PICK a \in Adapters : Pending(a, d)
    BY <1>2
  <2>2. (CHOOSE b \in Adapters : Pending(b, d)') = a
    BY <1>1, <2>1 DEF QueueAgrees
  <2>3. ClaimOf(d)' = [receiver |-> pendingDirectMints[a][d].receiver,
                       assets |-> pendingDirectMints[a][d].assets]
    BY <1>1, <2>1, <2>2 DEF ClaimOf
  <2>4. QED
    BY <2>1, <2>3, ClaimValue
<1>3. CASE \A a \in Adapters : ~Pending(a, d)
  BY <1>1, <1>3 DEF ClaimOf, NoClaim
<1>4. QED
  BY <1>2, <1>3

\* A claim that exists is a claim of the abstract ledger, not its null value.
LEMMA ClaimIsClaim ==
  ASSUME NEW m \in Mints
  PROVE  /\ [receiver |-> m.receiver, assets |-> m.assets] \in Ledger!Claims
         /\ [receiver |-> m.receiver, assets |-> m.assets] # NoClaim
BY NoneAssumption DEF Mints, NoClaim, NoMint, Ledger!Claims

claims == [d \in DepositIds |-> ClaimOf(d)]

\* The bridge starts as an empty ledger.
LEMMA RefineInit == Init => Ledger!Init
<1> SUFFICES ASSUME Init PROVE Ledger!Init
  OBVIOUS
<1>1. IInv
  BY InitInv
<1>2. \A a \in Adapters, d \in DepositIds : ~Pending(a, d)
  BY DEF Init, Pending
<1>3. \A d \in DepositIds : ClaimOf(d) = NoClaim
  BY <1>1, <1>2, ClaimValue DEF IInv
<1>4. QED
  BY <1>3 DEF Init, Ledger!Init

\* Recording a direct mint opens the claim of its deposit id.
LEMMA RefineProcess ==
  ASSUME IInv, IInv',
         NEW a \in Adapters, NEW e \in Executors, NEW t \in Tags,
         NEW d \in DepositIds, NEW x \in 1 .. MaxSupply,
         processDirectMint(a, e, t, d, x)
  PROVE  Ledger!Record(d)
<1> USE DEF managerVars, tagVars, tokenVars, adminVars
<1> DEFINE m == pendingDirectMints'[a][d]
<1>1. /\ m.receiver # None
      /\ m \in Mints \cup {NoMint}
      /\ \A b \in Adapters, c \in DepositIds \ {d} :
           pendingDirectMints'[b][c] = pendingDirectMints[b][c]
  BY NoneAssumption DEF IInv, TypeOK, processDirectMint, recordDirectMint
<1>2. m \in Mints /\ Pending(a, d)'
  BY <1>1, MintHasReceiver DEF Pending
<1>3. \A b \in Adapters : ~Pending(b, d)
  <2> SUFFICES ASSUME NEW b \in Adapters, Pending(b, d) PROVE FALSE
    OBVIOUS
  <2>1. pendingDirectMints[b][d].receiver # None
    BY MintHasReceiver DEF IInv, TypeOK, Pending
  <2>2. QED
    BY <2>1 DEF IInv, QueueAgrees, processDirectMint, recordDirectMint, queueFAssetDeposit
<1>4. ClaimOf(d) = NoClaim
  BY <1>3, ClaimValue DEF IInv
<1>5. ClaimOf(d)' = [receiver |-> m.receiver, assets |-> m.assets]
  <2>1. QueueAgrees'
    BY DEF IInv
  <2>2. QED
    BY <1>2, <2>1 DEF ClaimOf, QueueAgrees
<1>6. \A c \in DepositIds \ {d} : ClaimOf(c)' = ClaimOf(c)
  BY <1>1, ClaimUnchanged DEF IInv
<1>7. ClaimOf(d)' \in Ledger!Claims
  BY <1>2, <1>5, ClaimIsClaim
<1>8. claims' = [claims EXCEPT ![d] = claims'[d]]
  BY <1>6 DEF claims
<1>9. d \notin settledFAssetDeposits /\ UNCHANGED <<settledFAssetDeposits, credited>>
  BY DEF processDirectMint, recordDirectMint, queueFAssetDeposit
<1>10. QED
  BY <1>4, <1>7, <1>8, <1>9 DEF Ledger!Record, claims

\* Settling a direct mint credits and closes the claim of its deposit id.
LEMMA RefineSettle ==
  ASSUME IInv, IInv',
         NEW a \in Adapters, NEW d \in DepositIds, settleDirectMint(a, d)
  PROVE  Ledger!Credit(d)
<1> DEFINE m == pendingDirectMints[a][d]
<1>1. /\ Pending(a, d) /\ m \in Mints
      /\ credited' = [credited EXCEPT ![m.receiver] = @ + m.assets]
      /\ settledFAssetDeposits' = settledFAssetDeposits \cup {d}
  BY SettleCredits
<1>2. ClaimOf(d) = [receiver |-> m.receiver, assets |-> m.assets]
  BY <1>1, ClaimValue DEF IInv
<1>3. ClaimOf(d) # NoClaim
  BY <1>1, <1>2, ClaimIsClaim
<1>4. /\ \A b \in Adapters, c \in DepositIds \ {d} :
           pendingDirectMints'[b][c] = pendingDirectMints[b][c]
      /\ \A b \in Adapters : ~Pending(b, d)'
  BY <1>1 DEF IInv, TypeOK, SettledIsClosed, settleDirectMint, releaseDirectMint
<1>5. ClaimOf(d)' = NoClaim
  BY <1>4 DEF ClaimOf, NoClaim
<1>6. \A c \in DepositIds \ {d} : ClaimOf(c)' = ClaimOf(c)
  BY <1>4, ClaimUnchanged DEF IInv
<1>7. claims' = [claims EXCEPT ![d] = NoClaim]
  BY <1>5, <1>6 DEF claims
<1>8. claims[d].receiver = m.receiver /\ claims[d].assets = m.assets
  BY <1>2 DEF claims
<1>9. credited' = [credited EXCEPT ![claims[d].receiver] = @ + claims[d].assets]
  BY <1>1, <1>8
<1>10. claims[d] # NoClaim
  BY <1>3 DEF claims
<1>11. QED
  BY <1>1, <1>7, <1>9, <1>10 DEF Ledger!Credit, claims

\* Every step of the bridge is a step of the ledger or a stutter.
LEMMA RefineStep == IInv /\ IInv' /\ [Next]_vars => [Ledger!Next]_(Ledger!vars)
<1> SUFFICES ASSUME IInv, IInv', [Next]_vars PROVE [Ledger!Next]_(Ledger!vars)
  OBVIOUS
<1> USE DEF managerVars, tagVars, mintVars, tokenVars, queueVars, adminVars
<1>1. ASSUME NEW a \in Adapters, NEW e \in Executors, NEW t \in Tags,
             NEW d \in DepositIds, NEW x \in 1 .. MaxSupply,
             processDirectMint(a, e, t, d, x)
      PROVE  Ledger!Next
  BY <1>1, RefineProcess DEF Ledger!Next
<1>2. ASSUME NEW a \in Adapters, NEW d \in DepositIds, settleDirectMint(a, d)
      PROVE  Ledger!Next
  BY <1>2, RefineSettle DEF Ledger!Next
<1>3. CASE UNCHANGED <<pendingDirectMints, settledFAssetDeposits, credited>>
  <2>1. \A d \in DepositIds : ClaimOf(d)' = ClaimOf(d)
    BY <1>3 DEF ClaimOf, Pending
  <2>2. QED
    BY <1>3, <2>1 DEF Ledger!vars
<1>4. QED
  BY <1>1, <1>2, <1>3
  DEF Next, vars, registerMintingTag, setTagExecutor, ExecutorCooldownElapses,
      FAssetsArrive, Administration, pauseAdapter, unpauseAdapter, pauseVault,
      unpauseVault, setFAssetAdapter, setDefaultDirectMintExecutor

\* The adapters and the vault's queue together implement DepositLedger: every
\* deposit id is claimed by one user, credited in full once, and then closed.
THEOREM Refinement == Spec => LedgerSpec
BY RefineInit, RefineStep, Invariance, PTL DEF Spec, LedgerSpec, Ledger!Spec
==============================================================================
