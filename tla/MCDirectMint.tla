---------------------------- MODULE MCDirectMint -----------------------------
(* Model values and symmetry for the runs of DirectMint. *)
EXTENDS DirectMint, TLC

Symmetry == Permutations(Adapters) \cup Permutations(Users)
              \cup Permutations(Tags) \cup Permutations(DepositIds)
==============================================================================
