SPECIFICATION Spec
CONSTANTS
  Adapters = {a1, a2}
  Users = {u1, u2}
  Executors = {e1, e2}
  Tags = {t1, t2}
  DepositIds = {d1, d2}
  None = None
  Vault = Vault
  MaxSupply = 2
SYMMETRY Symmetry
INVARIANTS TypeOK Solvent PendingTotal TagMatchesMint QueueAgrees SettledIsClosed
PROPERTIES CreditsTagUser LedgerSpec
