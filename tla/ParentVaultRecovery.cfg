SPECIFICATION RecoverySpec
CONSTANTS
  Users = {u1}
  Strategies = {s1, s2}
  KnownStrategies = {s1, s2}
  TeeKeys = {k1}
  Senders = {}
  None = None
  MaxBps = 2
  ToleranceBps = 1
  MinRebalanceAmount = 1
  PayloadLifetime = 0
  TeeTimeout = 0
  MinTwapWindow = 1
  MaxTwapAge = 1
  Buffers = {0}
  Thresholds = {0}
  Funds = 1
  MaxFunds = 2
  MaxCost = 1
  MaxOut = 1
  StrangersRequests <- MCStrangersRequests
  MaxTime = 2
  MaxSkew = 0
  MaxNonce = 2
  MaxInstructions = 0
  MaxSigned = 2
SYMMETRY Symmetry
INVARIANTS StrandedOnlyByOwner FallbackOpen ActiveApproved
PROPERTY OnlyRecoveryLeavesEmpty
