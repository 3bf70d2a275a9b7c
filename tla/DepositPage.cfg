SPECIFICATION PageSpec
CONSTANTS
  Adapters = {a1, a2}
  Users = {u1, u2}
  Executors = {bot}
  Tags = {t1, t2}
  DepositIds = {d1, d2}
  None = None
  Vault = Vault
  MaxSupply = 2
  MaxTxs = 1
  Adapter = a1
  User = u1
  Bot = bot
  OthersTags = {t2}
  MaxEvents = 2
INVARIANTS SettledBeforeDeploy ReadyMeansActive AwaitsOwnTag
PROPERTIES DepositNoticed SettlingEnds
