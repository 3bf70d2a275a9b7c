SPECIFICATION Spec
CONSTANTS
  v1 = v1
  v2 = v2
  s1 = s1
  s2 = s2
  s3 = s3
  Vaults = {v1, v2}
  Strategies = {s1, s2, s3}
  NoStrategy = NoStrategy
  Elsewhere = Elsewhere
  StrangersRequests <- MCStrangersRequests
  VaultOf <- MCVaultOf
  Score <- MCScore
  KindChoices <- MCKinds
  Callers = {"node"}
  Funds <- MCFunds
  Par = 2
  Rates = {1, 2}
  MaxImpact = 1
  MaxBps = 2
  ToleranceBps = 1
  BufferBps = 0
  MinRebalanceAmount = 1
  MaxQueue = 1
  MaxNonce = 2
  MaxSigned = 2
  MaxRequests = 0
  MaxVenueMoves = 1
INVARIANTS LeftStrategiesEmpty
PROPERTIES ResultsSpent EmptyPositionIsFinal
