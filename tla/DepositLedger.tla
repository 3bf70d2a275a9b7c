---------------------------- MODULE DepositLedger ----------------------------
(***************************************************************************)
(* What the direct-mint bridge promises its users, with no adapter, tag or *)
(* vault in sight: a deposit id becomes a claim of one user on some amount *)
(* of FAssets, the claim is credited to that user in full, and the id is   *)
(* then closed for good.  DirectMint implements this specification.        *)
(***************************************************************************)
EXTENDS Naturals

CONSTANTS DepositIds, Users, NoClaim

Claims == [receiver : Users, assets : Nat \ {0}]

VARIABLES
  claim,      \* the open claim of each deposit id, or NoClaim
  closed,     \* the deposit ids whose claim has been credited
  credited    \* FAssets turned into vault shares for each user

vars == <<claim, closed, credited>>

Init ==
  /\ claim = [d \in DepositIds |-> NoClaim]
  /\ closed = {}
  /\ credited = [u \in Users |-> 0]

Record(d) ==
  /\ claim[d] = NoClaim
  /\ d \notin closed
  /\ claim'[d] \in Claims
  /\ claim' = [claim EXCEPT ![d] = claim'[d]]
  /\ UNCHANGED <<closed, credited>>

Credit(d) ==
  /\ claim[d] # NoClaim
  /\ claim' = [claim EXCEPT ![d] = NoClaim]
  /\ closed' = closed \cup {d}
  /\ credited' = [credited EXCEPT ![claim[d].receiver] = @ + claim[d].assets]

Next == \E d \in DepositIds : Record(d) \/ Credit(d)

Spec == Init /\ [][Next]_vars
==============================================================================
