SPECIFICATION ExecFairSpec
CONSTANTS
  Adapters = {a1}
  Users = {u1}
  Executors = {bot}
  Tags = {t1}
  DepositIds = {1, 2}
  None = None
  Vault = Vault
  MaxSupply = 2
  Adapter = a1
  Bot = bot
  PollSlots = {p1}
  PollLimit = 2
  NoTag = NoTag
  MaxAmount = 2
  MaxLedger = 2
  Wallet = 2
  MaxFaults = 1
PROPERTIES NewestProcessed
INVARIANTS StoreSound NeverUnderCredited NothingPassedOver
