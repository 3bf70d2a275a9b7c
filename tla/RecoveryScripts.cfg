SPECIFICATION RecoverySpec
CONSTANTS
  Adapters = {cur, old, asm, rec}
  Current = cur
  Old = old
  Assembled = asm
  Recovery = rec
  Users = {u1, u2}
  Executors = {bot}
  Operator = bot
  Tags = {t1, t2}
  DepositIds = {d1, d2}
  Stuck = d1
  Receiver = u1
  StuckTag = t1
  None = None
  Vault = Vault
  MaxSupply = 2
INVARIANTS CompleteIsQueued OutageMeansCutShort
PROPERTIES CompleteIsCredited OthersAreCredited CreditsAsRecorded
