SPECIFICATION Spec
CONSTANTS
  v1 = v1
  v2 = v2
  s1 = s1
  s2 = s2
  s3 = s3
  Vaults = {v1, v2}
  Strategies = {s1, s2, s3}
  NoStrategy = NoStrategy
  Elsewhere = Elsewhere
  StrangersRequests = {}
  VaultOf <- MCVaultOf
  Score <- MCScore
  KindChoices <- MCKinds
  Callers = {"node", "browser", "anyone"}
  Funds <- MCSmallFunds
  Par = 2
  Rates = {1, 2}
  MaxImpact = 1
  MaxBps = 2
  ToleranceBps = 1
  BufferBps = 0
  MinRebalanceAmount = 1
  MaxQueue = 2
  MaxNonce = 2
  MaxSigned = 2
  MaxRequests = 1
  MaxVenueMoves = 0
PROPERTY BrowserHears
